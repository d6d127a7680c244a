------------------------ MODULE VariantMarkersProofs ------------------------
(***************************************************************************)
(* Theorems about the blocks of live mode in a source file, for every file *)
(* of a user, every number of sessions and variants, and both comment      *)
(* syntaxes.                                                               *)
(***************************************************************************)
EXTENDS VariantMarkers, FiniteSetTheorems, SequenceTheorems, TLAPS

LEMMA Least ==
    ASSUME NEW T, T \subseteq Nat, T # {}
    PROVE  \E m \in T : \A k \in T : m <= k
<1> DEFINE R == StrictSubsetOrdering(Nat)
           below == {0..m : m \in T}
<1>1. IsWellFoundedOn(R, FiniteSubsetsOf(Nat))
  BY FS_StrictSubsetOrderingWellFounded
<1>2. below \subseteq FiniteSubsetsOf(Nat) /\ below # {}
  <2>1. \A m \in T : 0..m \subseteq Nat /\ IsFiniteSet(0..m) BY FS_Interval
  <2> QED BY <2>1 DEF FiniteSubsetsOf
<1> HIDE DEF R
<1>3. PICK x \in below : \A y \in below : ~(<<y, x>> \in R)
  <2> HIDE DEF below
  <2> QED BY <1>1, <1>2, WFMin
<1>4. PICK m \in T : x = 0..m BY <1>3
<1>5. ASSUME NEW k \in T, k < m PROVE FALSE
  <2>1. 0..k \subseteq 0..m /\ m \in 0..m /\ m \notin 0..k BY <1>5
  <2>2. <<0..k, 0..m>> \in R BY <2>1 DEF R, StrictSubsetOrdering
  <2> QED BY <1>3, <1>4, <2>2
<1> QED BY <1>5

LEMMA Upward ==
    ASSUME NEW a \in Int, NEW b \in Int, NEW S, a \in Nat, b \in Nat, a \in S,
           \A k \in a..(b - 1) : k \in S => k + 1 \in S
    PROVE  \A k \in a..b : k \in S
<1> DEFINE T == {k \in a..b : k \notin S}
<1> SUFFICES ASSUME T # {} PROVE FALSE OBVIOUS
<1>0. T \subseteq Nat OBVIOUS
<1>1. PICK m \in T : \A k \in T : m <= k
  <2> HIDE DEF T
  <2> QED BY <1>0, Least
<1>2. m # a OBVIOUS
<1>3. m - 1 \in a..(b - 1) /\ m - 1 \notin T BY <1>1, <1>2
<1> QED BY <1>1, <1>3

LEMMA FirstIs ==
    ASSUME NEW S, S \subseteq Nat
    PROVE  IF S = {} THEN First(S) = 0
           ELSE First(S) \in S /\ \A i \in S : First(S) <= i
<1> CASE S = {} BY DEF First
<1> CASE S # {}
  <2>1. \E m \in S : \A k \in S : m <= k BY Least
  <2> QED BY <2>1 DEF First
<1> QED OBVIOUS

-----------------------------------------------------------------------------

\* What a line adds to the depth.
Step(line) == IF line.tag = "div" THEN 1 ELSE IF line.tag = "/div" THEN -1 ELSE 0

LEMMA DepthIs ==
    ASSUME NEW s
    PROVE  /\ \A j \in Int : Depth(s, j) \in Int
           /\ Depth(s, 0) = 0
           /\ \A j \in Nat \ {0} : Depth(s, j) = Depth(s, j - 1) + Step(s[j])
<1> DEFINE A(j) == {k \in 1..j : s[k].tag = "div"}
           B(j) == {k \in 1..j : s[k].tag = "/div"}
<1>1. ASSUME NEW j \in Int
      PROVE  /\ IsFiniteSet(A(j)) /\ IsFiniteSet(B(j))
             /\ Cardinality(A(j)) \in Nat /\ Cardinality(B(j)) \in Nat
  <2>1. IsFiniteSet(1..j) BY FS_Interval
  <2>2. IsFiniteSet(A(j)) /\ IsFiniteSet(B(j)) BY <2>1, FS_Subset
  <2> QED BY <2>2, FS_CardinalityType
<1>2. \A j \in Int : Depth(s, j) \in Int BY <1>1 DEF Depth
<1>3. Depth(s, 0) = 0
  <2>1. A(0) = {} /\ B(0) = {} OBVIOUS
  <2> QED BY <2>1, FS_EmptySet DEF Depth
<1>4. ASSUME NEW j \in Nat \ {0} PROVE Depth(s, j) = Depth(s, j - 1) + Step(s[j])
  <2>1. j \notin A(j - 1) /\ j \notin B(j - 1) OBVIOUS
  <2>2. A(j) = IF s[j].tag = "div" THEN A(j - 1) \cup {j} ELSE A(j - 1)
    OBVIOUS
  <2>3. B(j) = IF s[j].tag = "/div" THEN B(j - 1) \cup {j} ELSE B(j - 1)
    OBVIOUS
  <2>f. IsFiniteSet(A(j - 1)) /\ IsFiniteSet(B(j - 1))
    <3> HIDE DEF A, B
    <3>1. j - 1 \in Int OBVIOUS
    <3> QED BY <1>1, <3>1
  <2>6. Depth(s, j) = Cardinality(A(j)) - Cardinality(B(j))
        /\ Depth(s, j - 1) = Cardinality(A(j - 1)) - Cardinality(B(j - 1))
    BY DEF Depth
  <2>7. Cardinality(A(j)) \in Nat /\ Cardinality(B(j)) \in Nat
        /\ Cardinality(A(j - 1)) \in Nat /\ Cardinality(B(j - 1)) \in Nat
    <3> HIDE DEF A, B
    <3>1. j \in Int /\ j - 1 \in Int OBVIOUS
    <3> QED BY <1>1, <3>1
  <2> HIDE DEF A, B
  <2>4. s[j].tag = "div" => Cardinality(A(j)) = Cardinality(A(j - 1)) + 1
    BY <2>f, <2>1, <2>2, FS_AddElement
  <2>5. s[j].tag = "/div" => Cardinality(B(j)) = Cardinality(B(j - 1)) + 1
    BY <2>f, <2>1, <2>3, FS_AddElement
  <2>8. CASE s[j].tag = "div"
    BY <2>2, <2>3, <2>4, <2>6, <2>7, <2>8 DEF Step
  <2>9. CASE s[j].tag = "/div"
    BY <2>2, <2>3, <2>5, <2>6, <2>7, <2>9 DEF Step
  <2>10. CASE s[j].tag \notin {"div", "/div"}
    BY <2>2, <2>3, <2>6, <2>7, <2>10 DEF Step
  <2> QED BY <2>8, <2>9, <2>10
<1> QED BY <1>2, <1>3, <1>4

\* The lines after a, up to b, of s add what those e further in t add.
Alike(s, t, a, b, e) == \A k \in (a + 1)..b : Step(t[k + e]) = Step(s[k])

\* The depth changes alike over lines with alike tags.
LEMMA DepthShifts ==
    ASSUME NEW s, NEW t, NEW a \in Int, NEW b \in Int, NEW e \in Int, a \in Nat,
           b \in Nat, a + e >= 0, Alike(s, t, a, b, e)
    PROVE  \A k \in a..b : Depth(t, k + e) - Depth(t, a + e) = Depth(s, k) - Depth(s, a)
<1> DEFINE S == {k \in Nat : Depth(t, k + e) - Depth(t, a + e) = Depth(s, k) - Depth(s, a)}
<1>1. \A j \in Int : Depth(s, j) \in Int /\ Depth(t, j) \in Int BY DepthIs
<1>2. a \in S BY <1>1
<1>3. ASSUME NEW k \in a..(b - 1), k \in S PROVE k + 1 \in S
  <2>1. k + 1 \in Nat \ {0} /\ k + 1 + e \in Nat \ {0} /\ k + e \in Int /\ k \in Int OBVIOUS
  <2>2. Depth(s, k + 1) = Depth(s, k) + Step(s[k + 1])
    <3>1. k + 1 - 1 = k OBVIOUS
    <3> QED BY <2>1, <3>1, DepthIs
  <2>3. Depth(t, k + 1 + e) = Depth(t, k + e) + Step(t[k + 1 + e])
    <3>1. k + 1 + e - 1 = k + e OBVIOUS
    <3> QED BY <2>1, <3>1, DepthIs
  <2>4. Step(s[k + 1]) = Step(t[k + 1 + e]) BY DEF Alike
  <2>5. Step(s[k + 1]) \in Int BY DEF Step
  <2> QED BY <1>1, <1>3, <2>1, <2>2, <2>3, <2>4, <2>5
<1> HIDE DEF S
<1>4. \A k \in a..b : k \in S BY <1>2, <1>3, Upward
<1> QED BY <1>4 DEF S

LEMMA DepthType == ASSUME NEW s, NEW j \in Int PROVE Depth(s, j) \in Int
BY DepthIs

\* One line further.
LEMMA DepthNext ==
    ASSUME NEW s, NEW k \in Int, k \in Nat
    PROVE  Depth(s, k + 1) = Depth(s, k) + Step(s[k + 1])
<1>1. k + 1 \in Nat \ {0} /\ k + 1 - 1 = k OBVIOUS
<1> QED BY <1>1, DepthIs

\* Of no lines, and of the first ones.
LEMMA DepthSame ==
    ASSUME NEW s, NEW t, NEW b \in Int, b \in Nat,
           \A k \in 1..b : Step(t[k]) = Step(s[k])
    PROVE  \A k \in 0..b : Depth(t, k) = Depth(s, k)
<1> DEFINE S == {k \in Nat : Depth(t, k) = Depth(s, k)}
<1>1. 0 \in S BY DepthIs
<1>2. ASSUME NEW k \in 0..(b - 1), k \in S PROVE k + 1 \in S
  <2>1. Step(t[k + 1]) = Step(s[k + 1]) OBVIOUS
  <2>2. k \in Nat OBVIOUS
  <2> QED BY <1>2, <2>1, <2>2, DepthNext
<1>3. 0 \in Nat /\ \A k \in 0..(b - 1) : k \in S => k + 1 \in S BY <1>2
<1> HIDE DEF S
<1>4. \A k \in 0..b : k \in S BY <1>1, <1>3, Upward
<1> QED BY <1>4 DEF S

-----------------------------------------------------------------------------
(* What a file is.                                                         *)

Ids == Sessions \cup {NoId} \cup (Sessions \X (1..Count)) \cup {Source[i].id : i \in DOMAIN Source}

\* What a line can be.
LineOK(l) ==
    /\ \/ l.tag = "mark" /\ l.role \in {"original", "start", "end", "insert",
                                        "carbonize-start", "carbonize-end"}
       \/ l.tag = "div" /\ l.role \in {"user", "wrapper", "original", "variant", "carbonize"}
       \/ l.tag = "text" /\ l.role = "user"
       \/ l.tag = "style" /\ l.role = "css"
       \/ l.tag \in {"/div", "blank"} /\ l.role = "any"
    /\ l.role \in Scaffold => l.id \in Sessions

Tags == {"div", "/div", "text", "mark", "style", "blank"}
Roles == Scaffold \cup {"user", "any"}

LINES == {l \in [tag : Tags, role : Roles, id : Ids, n : Nat, ind : Nat, new : BOOLEAN] :
            LineOK(l)}

File(s) == s \in Seq(LINES)

LEMMA FileIs ==
    ASSUME NEW s, File(s)
    PROVE  /\ Len(s) \in Nat /\ DOMAIN s = 1..Len(s)
           /\ \A k \in 1..Len(s) : LineOK(s[k])
BY DEF File, LINES

LEMMA FileLen == ASSUME NEW s, File(s) PROVE Len(s) \in Nat
BY DEF File

-----------------------------------------------------------------------------
(* A <div> and its closer.                                                 *)

Elem(s, w, v) ==
    /\ w \in DOMAIN s /\ v \in DOMAIN s /\ w < v
    /\ s[w].tag = "div" /\ s[v].tag = "/div"
    /\ Depth(s, v) = Depth(s, w - 1)
    /\ \A k \in w..(v - 1) : Depth(s, k) > Depth(s, w - 1)

\* The lines after i, up to j, close what they open and nothing else.
Balanced(s, i, j) ==
    /\ Depth(s, j) = Depth(s, i)
    /\ \A k \in i..j : Depth(s, k) >= Depth(s, i)

LEMMA ElemDepths ==
    ASSUME NEW s, NEW w, NEW v, File(s), Elem(s, w, v)
    PROVE  /\ w \in Nat \ {0} /\ v \in Nat \ {0} /\ v <= Len(s)
           /\ Depth(s, w - 1) \in Int
           /\ Depth(s, w) = Depth(s, w - 1) + 1
           /\ Depth(s, v - 1) = Depth(s, w)
           /\ \A k \in w..(v - 1) : Depth(s, k) >= Depth(s, w)
<1>1. w \in 1..Len(s) /\ v \in 1..Len(s) /\ Len(s) \in Nat BY DEF Elem
<1>2. \A j \in Int : Depth(s, j) \in Int BY DepthIs
<1>3. Depth(s, w) = Depth(s, w - 1) + Step(s[w]) /\ Depth(s, v) = Depth(s, v - 1) + Step(s[v])
  BY <1>1, DepthIs
<1>4. Step(s[w]) = 1 /\ Step(s[v]) = -1 BY DEF Elem, Step
<1>5. \A k \in w..(v - 1) : Depth(s, k) > Depth(s, w - 1) BY DEF Elem
<1>6. Depth(s, v) = Depth(s, w - 1) BY DEF Elem
<1>7. Depth(s, w - 1) \in Int /\ Depth(s, w) \in Int /\ Depth(s, v - 1) \in Int
  <2>1. w \in Int /\ w - 1 \in Int /\ v - 1 \in Int BY <1>1
  <2> QED BY <1>2, <2>1
<1>8. Depth(s, w) = Depth(s, w - 1) + 1 /\ Depth(s, v - 1) = Depth(s, w)
  BY <1>3, <1>4, <1>6, <1>7
<1>9. ASSUME NEW k \in w..(v - 1) PROVE Depth(s, k) >= Depth(s, w)
  <2>1. k \in Int /\ Depth(s, k) \in Int BY <1>1, <1>2
  <2> QED BY <1>5, <1>7, <1>8, <2>1
<1> QED BY <1>1, <1>7, <1>8, <1>9

\* findClosingLine finds the closer.
LEMMA ClosingIs ==
    ASSUME NEW s, NEW w, NEW v, File(s), Elem(s, w, v)
    PROVE  Closing(s, w) = v
<1> DEFINE ends == {j \in w..Len(s) : Depth(s, j) <= Depth(s, w - 1)}
<1>1. w \in 1..Len(s) /\ v \in 1..Len(s) /\ Len(s) \in Nat /\ w < v BY DEF Elem
<1>2. \A j \in Int : Depth(s, j) \in Int BY DepthIs
<1>e. /\ Depth(s, v) = Depth(s, w - 1)
      /\ \A k \in w..(v - 1) : Depth(s, k) > Depth(s, w - 1)
      /\ Depth(s, w - 1) \in Int /\ Depth(s, v) \in Int
  BY <1>1, <1>2 DEF Elem
<1>3. v \in ends BY <1>1, <1>e
<1>4. ASSUME NEW k \in ends, k < v PROVE FALSE
  <2>1. k \in w..(v - 1) /\ Depth(s, k) <= Depth(s, w - 1) BY <1>1, <1>4
  <2>2. Depth(s, k) > Depth(s, w - 1) /\ Depth(s, k) \in Int BY <1>1, <1>2, <1>e, <2>1
  <2> QED BY <1>e, <2>1, <2>2
<1>5. ends \subseteq Nat BY <1>1
<1>6. Closing(s, w) = First(ends) BY <1>3 DEF Closing, Elem
<1> HIDE DEF ends
<1>7. First(ends) \in ends /\ First(ends) <= v BY <1>3, <1>5, FirstIs
<1>8. First(ends) \in Nat BY <1>5, <1>7
<1>9. ~(First(ends) < v) BY <1>4, <1>7
<1> QED BY <1>1, <1>6, <1>7, <1>8, <1>9

\* In a file that parses every <div> has one.
LEMMA ElemOf ==
    ASSUME NEW s, NEW i, File(s), Nested(s), i \in DOMAIN s, s[i].tag = "div"
    PROVE  Elem(s, i, Closing(s, i))
<1> DEFINE outer == Depth(s, i - 1)
           ends == {j \in i..Len(s) : Depth(s, j) <= outer}
           v == First(ends)
<1>1. i \in 1..Len(s) /\ Len(s) \in Nat OBVIOUS
<1>2. \A j \in Int : Depth(s, j) \in Int BY DepthIs
<1>3. outer >= 0
  <2>1. CASE i = 1 BY <2>1, DepthIs
  <2>2. CASE i > 1
    <3>1. i - 1 \in DOMAIN s BY <1>1, <2>2
    <3> QED BY <3>1 DEF Nested
  <2> QED BY <1>1, <2>1, <2>2
<1>4. Len(s) \in ends BY <1>1, <1>3 DEF Nested
<1>5. Closing(s, i) = v BY <1>4 DEF Closing
<1>6. ends \subseteq Nat BY <1>1
<1>7. v \in ends /\ \A k \in ends : v <= k
  <2> HIDE DEF ends
  <2> QED BY <1>4, <1>6, FirstIs
<1>8. v \in i..Len(s) /\ Depth(s, v) <= outer /\ v \in Nat \ {0} BY <1>1, <1>7
<1>9. \A k \in i..(v - 1) : Depth(s, k) > outer
  <2> SUFFICES ASSUME NEW k \in i..(v - 1) PROVE Depth(s, k) > outer OBVIOUS
  <2>1. k \notin ends /\ k \in i..Len(s) /\ k \in Int BY <1>1, <1>7, <1>8
  <2>2. ~(Depth(s, k) <= outer) BY <2>1
  <2> QED BY <1>1, <1>2, <2>1, <2>2
<1>10. Depth(s, i) = outer + 1
  <2>1. Depth(s, i) = Depth(s, i - 1) + Step(s[i]) BY <1>1, DepthIs
  <2> QED BY <2>1 DEF Step
<1> HIDE DEF v
<1>11. v # i
  <2>1. Depth(s, i - 1) \in Int BY <1>1, <1>2
  <2> QED BY <1>8, <1>10, <2>1
<1>12. v - 1 \in i..(v - 1) BY <1>1, <1>8, <1>11
<1>13. Depth(s, v - 1) > outer BY <1>9, <1>12
<1>14. Depth(s, v) = Depth(s, v - 1) + Step(s[v]) BY <1>8, DepthIs
<1>15. Step(s[v]) \in {-1, 0, 1} /\ (Step(s[v]) = -1 => s[v].tag = "/div") BY DEF Step
<1>16. Depth(s, v) = outer /\ s[v].tag = "/div"
  <2>1. outer \in Int /\ Depth(s, v - 1) \in Int /\ Depth(s, v) \in Int BY <1>1, <1>2, <1>8
  <2> HIDE DEF outer
  <2> QED BY <1>8, <1>13, <1>14, <1>15, <2>1
<1> QED BY <1>1, <1>5, <1>8, <1>9, <1>11, <1>16 DEF Elem

LEMMA LaminarHalf ==
    ASSUME NEW s, NEW p \in Int, NEW q \in Int, NEW w \in Int, NEW v \in Int,
           File(s), p \in Nat, q \in Nat, w \in Nat, v \in Nat, Elem(s, p, q),
           Elem(s, w, v), p < w
    PROVE  q < w \/ v < q
<1>1. \A j \in Int : Depth(s, j) \in Int BY DepthIs
<1>2. SUFFICES ASSUME w <= q, q <= v PROVE FALSE OBVIOUS
<1>3. q # w /\ q # 0 /\ w # 0 /\ p # 0 /\ Len(s) \in Nat
  BY FileIs DEF Elem
<1>4. /\ Depth(s, p) = Depth(s, p - 1) + 1
      /\ \A k \in p..(q - 1) : Depth(s, k) >= Depth(s, p)
      /\ Depth(s, w) = Depth(s, w - 1) + 1
      /\ \A k \in w..(v - 1) : Depth(s, k) >= Depth(s, w)
  BY ElemDepths
<1>5. w - 1 \in p..(q - 1) /\ w - 1 \in Int /\ p - 1 \in Int BY <1>2, <1>3
<1>6. Depth(s, w - 1) >= Depth(s, p) BY <1>4, <1>5
<1>7. Depth(s, q) = Depth(s, p - 1) /\ Depth(s, v) = Depth(s, w - 1) BY DEF Elem
<1>8. /\ Depth(s, w - 1) \in Int /\ Depth(s, p - 1) \in Int /\ Depth(s, q) \in Int
      /\ Depth(s, v) \in Int /\ Depth(s, w) \in Int /\ Depth(s, p) \in Int
  BY <1>5, DepthType
<1>9. CASE q = v
  BY <1>4, <1>6, <1>7, <1>8, <1>9
<1>10. CASE q < v
  <2>1. q \in w..(v - 1) BY <1>2, <1>3, <1>10
  <2>2. Depth(s, q) >= Depth(s, w) BY <1>4, <2>1
  <2> QED BY <1>4, <1>6, <1>7, <1>8, <2>2
<1> QED BY <1>2, <1>9, <1>10

\* Two elements are apart, or one is inside of the other.
LEMMA Laminar ==
    ASSUME NEW s, NEW p \in Int, NEW q \in Int, NEW w \in Int, NEW v \in Int,
           File(s), p \in Nat, q \in Nat, w \in Nat, v \in Nat, Elem(s, p, q),
           Elem(s, w, v), p # w
    PROVE  q < w \/ v < p \/ (p < w /\ v < q) \/ (w < p /\ q < v)
<1>1. CASE p < w BY <1>1, LaminarHalf
<1>2. CASE w < p BY <1>2, LaminarHalf
<1> QED BY <1>1, <1>2

-----------------------------------------------------------------------------
(* The lines of a session, and where they are.                             *)

Own(s, z) == {k \in DOMAIN s : s[k].role \in Scaffold /\ s[k].id = z}

\* The lines of session z are those from h to w, the last of them a <div>, those
\* after its closer v up to g, and some of the children of that <div>; if it is
\* "strict", all of its children are, except for empty lines.
Frame(s, z, h, w, v, g, strict) ==
    /\ Elem(s, w, v) /\ h \in 1..w /\ g \in v..Len(s)
    /\ h \in Own(s, z) /\ w \in Own(s, z) /\ s[h].tag # "style"
    /\ \A k \in h..(w - 1) : /\ s[k].tag \in {"mark", "style", "blank"}
                             /\ k \in Own(s, z) \/ s[k].tag = "blank"
    /\ \A k \in (v + 1)..g : s[k].tag = "mark" /\ k \in Own(s, z)
    /\ \A k \in Own(s, z) : \/ k \in h..w \/ k \in (v + 1)..g
                            \/ strict /\ k \in (w + 1)..(v - 1) /\ Depth(s, k - 1) = Depth(s, w)
    /\ strict => \A k \in (w + 1)..(v - 1) :
                    Depth(s, k - 1) = Depth(s, w) => k \in Own(s, z) \/ s[k].tag = "blank"

\* Not of session z: one line, or an element.
Foreign(s, z, y, e) ==
    /\ y \in DOMAIN s /\ y \notin Own(s, z) /\ s[y].tag # "blank"
    /\ \/ s[y].tag \notin {"div", "/div"} /\ e = y
       \/ Elem(s, y, e)

\* It is before the block of z, after it, around it, or inside of its <div>,
\* below something that is there.
LEMMA ForeignApart ==
    ASSUME NEW s, NEW z, NEW h \in Int, NEW w \in Int, NEW v \in Int, NEW g \in Int,
           NEW strict, NEW y \in Int, NEW e \in Int, File(s), h \in Nat,
           w \in Nat, v \in Nat, g \in Nat, Frame(s, z, h, w, v, g, strict), y \in Nat,
           e \in Nat, Foreign(s, z, y, e)
    PROVE  \/ e < h
           \/ g < y
           \/ y < h /\ g < e
           \/ w < y /\ e < v /\ (strict => Depth(s, y - 1) > Depth(s, w))
<1>1. Elem(s, w, v) /\ h \in 1..w /\ g \in v..Len(s) BY DEF Frame
<1>2. /\ w \in 1..Len(s) /\ v \in 1..Len(s) /\ w < v /\ Len(s) \in Nat
      /\ s[w].tag = "div" /\ s[v].tag = "/div"
  BY <1>1 DEF Elem
<1>3. y # w /\ y \in 1..Len(s) BY DEF Frame, Foreign
<1>4. ASSUME w < y, y < v, strict PROVE Depth(s, y - 1) > Depth(s, w)
  <2>1. y \in (w + 1)..(v - 1) /\ y - 1 \in w..(v - 1) /\ y - 1 \in Int BY <1>2, <1>4
  <2>2. Depth(s, y - 1) # Depth(s, w) BY <1>4, <2>1 DEF Frame, Foreign
  <2>3. Depth(s, y - 1) >= Depth(s, w) BY <1>1, <2>1, ElemDepths
  <2>4. Depth(s, y - 1) \in Int /\ Depth(s, w) \in Int BY <2>1, DepthIs
  <2> QED BY <2>2, <2>3, <2>4
<1>5. CASE s[y].tag \notin {"div", "/div"} /\ e = y
  <2>1. y \notin h..(w - 1) BY DEF Frame, Foreign
  <2>2. y \notin (v + 1)..g BY DEF Frame, Foreign
  <2>3. y # v BY <1>2, <1>5
  <2> QED BY <1>1, <1>2, <1>3, <1>4, <1>5, <2>1, <2>2, <2>3
<1>6. CASE Elem(s, y, e)
  <2>1. s[y].tag = "div" /\ s[e].tag = "/div" /\ y < e BY <1>6 DEF Elem
  <2>2. y \notin h..(w - 1) /\ e \notin h..(w - 1) BY <2>1 DEF Frame
  <2>3. y \notin (v + 1)..g /\ e \notin (v + 1)..g BY <2>1 DEF Frame
  <2>4. e < w \/ v < y \/ (y < w /\ v < e) \/ (w < y /\ e < v)
    BY <1>1, <1>3, <1>6, Laminar
  <2> QED BY <1>1, <1>2, <1>3, <1>4, <2>1, <2>2, <2>3, <2>4
<1> QED BY <1>5, <1>6 DEF Foreign

LEMMA OwnOfOne ==
    ASSUME NEW s, NEW z, NEW y, NEW k, y # z, k \in Own(s, y)
    PROVE  k \notin Own(s, z)
BY DEF Own

LEMMA OwnNotBlank ==
    ASSUME NEW s, NEW z, NEW k, File(s), k \in Own(s, z)
    PROVE  s[k].tag \notin {"blank", "/div"} /\ k \in Nat \ {0} /\ k <= Len(s)
<1>1. k \in 1..Len(s) /\ Len(s) \in Nat BY FileIs DEF Own
<1>2. LineOK(s[k]) /\ s[k].role \in Scaffold BY <1>1, FileIs DEF Own
<1> QED BY <1>1, <1>2 DEF LineOK, Scaffold

\* So are the lines of two sessions.
LEMMA FramesApart ==
    ASSUME NEW s, NEW z, NEW h \in Int, NEW w \in Int, NEW v \in Int, NEW g \in Int,
           NEW strict, NEW z0, NEW h0 \in Int, NEW w0 \in Int, NEW v0 \in Int,
           NEW g0 \in Int, NEW strict0, File(s), h \in Nat, w \in Nat, v \in Nat,
           g \in Nat, Frame(s, z, h, w, v, g, strict), h0 \in Nat, w0 \in Nat, v0 \in Nat,
           g0 \in Nat, Frame(s, z0, h0, w0, v0, g0, strict0), z0 # z
    PROVE  \/ g0 < h
           \/ g < h0
           \/ h0 <= h /\ g <= g0
           \/ w < h0 /\ g0 < v /\ (strict => Depth(s, h0 - 1) > Depth(s, w))
<1>1. Elem(s, w, v) /\ h \in 1..w /\ g \in v..Len(s) BY DEF Frame
<1>2. Elem(s, w0, v0) /\ h0 \in 1..w0 /\ g0 \in v0..Len(s) BY DEF Frame
<1>3. /\ w \in 1..Len(s) /\ v \in 1..Len(s) /\ w < v /\ Len(s) \in Nat
      /\ s[w].tag = "div" /\ s[v].tag = "/div"
  BY <1>1 DEF Elem
<1>4. /\ w0 \in 1..Len(s) /\ v0 \in 1..Len(s) /\ w0 < v0
      /\ s[w0].tag = "div" /\ s[v0].tag = "/div"
  BY <1>2 DEF Elem
<1>5. w0 \in Own(s, z0) /\ h0 \in Own(s, z0) /\ h \in Own(s, z) BY DEF Frame
<1>6. w0 \notin Own(s, z) /\ h0 \notin Own(s, z) /\ h \notin Own(s, z0)
  BY <1>5, OwnOfOne
<1>7. Foreign(s, z, w0, v0) BY <1>2, <1>4, <1>6 DEF Foreign
<1>8. \/ v0 < h
      \/ g < w0
      \/ w0 < h /\ g < v0
      \/ w < w0 /\ v0 < v
  BY <1>7, ForeignApart
<1>9. CASE v0 < h
  <2>1. h \notin (v0 + 1)..g0 BY <1>6 DEF Frame
  <2> QED BY <1>1, <1>2, <1>3, <1>4, <1>9, <2>1
<1>10. CASE g < w0
  <2>1. ASSUME h0 <= g PROVE FALSE
    <3>1. g \in h0..(w0 - 1) BY <1>1, <1>2, <1>10, <2>1
    <3>2. /\ s[g].tag \in {"mark", "style", "blank"}
          /\ g \in Own(s, z0) \/ s[g].tag = "blank"
      BY <3>1 DEF Frame
    <3>3. g # v BY <1>3, <3>2
    <3>4. g \in (v + 1)..g BY <1>1, <1>3, <3>3
    <3>5. g \in Own(s, z) /\ s[g].tag = "mark" BY <3>4 DEF Frame
    <3> QED BY <3>2, <3>5, OwnOfOne
  <2> QED BY <1>1, <1>2, <1>10, <2>1
<1>11. CASE w0 < h /\ g < v0
  BY <1>1, <1>2, <1>11
<1>12. CASE w < w0 /\ v0 < v
  <2>1. w \notin h0..(w0 - 1) BY <1>3 DEF Frame
  <2>2. w < h0 BY <1>1, <1>2, <1>12, <2>1
  <2>3. v \notin (v0 + 1)..g0 BY <1>3 DEF Frame
  <2>4. g0 < v BY <1>1, <1>2, <1>12, <2>3
  <2>5. ASSUME strict PROVE Depth(s, h0 - 1) > Depth(s, w)
    <3>1. h0 \in (w + 1)..(v - 1) /\ h0 - 1 \in w..(v - 1) /\ h0 - 1 \in Int
      BY <1>2, <1>3, <1>4, <1>12, <2>2
    <3>2. Depth(s, h0 - 1) # Depth(s, w)
      BY <1>5, <1>6, <2>5, <3>1, OwnNotBlank DEF Frame
    <3>3. Depth(s, h0 - 1) >= Depth(s, w) BY <1>1, <3>1, ElemDepths
    <3>4. Depth(s, h0 - 1) \in Int /\ Depth(s, w) \in Int BY <3>1, DepthType
    <3> QED BY <3>2, <3>3, <3>4
  <2> QED BY <2>2, <2>4, <2>5
<1> QED BY <1>8, <1>9, <1>10, <1>11, <1>12

\* What is inside of a <div> around an original or a variant has no line of a
\* session, or all of it.
LEMMA InteriorApart ==
    ASSUME NEW s, NEW z, NEW h \in Int, NEW w \in Int, NEW v \in Int, NEW g \in Int,
           NEW strict, NEW p \in Int, NEW q \in Int, File(s), h \in Nat,
           w \in Nat, v \in Nat, g \in Nat, Frame(s, z, h, w, v, g, strict), p \in Nat,
           q \in Nat, Elem(s, p, q), p = w => ~strict
    PROVE  \/ \A k \in (p + 1)..(q - 1) : k \notin Own(s, z)
           \/ p < h /\ g < q
<1>1. Elem(s, w, v) /\ h \in 1..w /\ g \in v..Len(s) BY DEF Frame
<1>2. /\ w \in 1..Len(s) /\ v \in 1..Len(s) /\ w < v /\ Len(s) \in Nat
      /\ s[w].tag = "div" /\ s[v].tag = "/div"
  BY <1>1 DEF Elem
<1>3. /\ p \in 1..Len(s) /\ q \in 1..Len(s) /\ p < q
      /\ s[p].tag = "div" /\ s[q].tag = "/div"
  BY DEF Elem
<1>4. ASSUME NEW k \in Nat, k \in Own(s, z)
      PROVE  \/ k \in h..w \/ k \in (v + 1)..g
             \/ strict /\ k \in (w + 1)..(v - 1) /\ Depth(s, k - 1) = Depth(s, w)
  BY <1>4 DEF Frame
<1>5. p \notin h..(w - 1) /\ q \notin h..(w - 1) BY <1>3 DEF Frame
<1>6. p \notin (v + 1)..g /\ q \notin (v + 1)..g BY <1>3 DEF Frame
<1>7. CASE p = w
  <2>1. v = q BY <1>1, <1>7, ClosingIs
  <2> QED BY <1>1, <1>2, <1>4, <1>7, <2>1
<1>8. CASE q < w
  <2>1. q < h BY <1>1, <1>2, <1>3, <1>5, <1>8
  <2> QED BY <1>1, <1>2, <1>3, <1>4, <2>1
<1>9. CASE v < p
  <2>1. g < p BY <1>1, <1>2, <1>3, <1>6, <1>9
  <2> QED BY <1>1, <1>2, <1>3, <1>4, <2>1
<1>10. CASE p < w /\ v < q
  BY <1>1, <1>2, <1>3, <1>5, <1>6, <1>10
<1>11. CASE w < p /\ q < v
  <2>1. ASSUME NEW k \in (p + 1)..(q - 1), k \in Own(s, z) PROVE FALSE
    <3>1. k \in (w + 1)..(v - 1) /\ Depth(s, k - 1) = Depth(s, w)
      BY <1>1, <1>2, <1>3, <1>4, <1>11, <2>1
    <3>2. k - 1 \in p..(q - 1) /\ p - 1 \in w..(v - 1) /\ k - 1 \in Int /\ p - 1 \in Int
      BY <1>1, <1>2, <1>3, <1>11
    <3>3. Depth(s, k - 1) >= Depth(s, p) /\ Depth(s, p) = Depth(s, p - 1) + 1
      BY <3>2, ElemDepths
    <3>4. Depth(s, p - 1) >= Depth(s, w) BY <1>1, <3>2, ElemDepths
    <3>5. /\ Depth(s, k - 1) \in Int /\ Depth(s, p - 1) \in Int /\ Depth(s, w) \in Int
          /\ Depth(s, p) \in Int
      BY <3>2, DepthType
    <3> QED BY <3>1, <3>3, <3>4, <3>5
  <2> QED BY <2>1
<1> QED BY <1>1, <1>7, <1>8, <1>9, <1>10, <1>11, Laminar

-----------------------------------------------------------------------------
(* A part of the file is replaced, some of its lines are kept.             *)

\* The scripts change the indentation of a line, empty a line of style, and put
\* copy edits in; the session of a scaffold stays.
Like(l, m) ==
    \/ m.tag = l.tag /\ m.role = l.role /\ (l.role # "any" => m.id = l.id /\ m.n = l.n)
    \/ l.tag = "style" /\ m.tag = "blank" /\ m.role = "any"

\* The lines after i, up to j, of s are replaced, which makes t longer by e: the
\* lines after a, up to b, of s are kept, f further down, and no other new line
\* is of a session but z0.
Edit(s, t, i, j, e, a, b, f, z0) ==
    /\ i <= j /\ j <= Len(s) /\ i <= j + e /\ Len(t) = Len(s) + e
    /\ \A k \in 1..i : t[k] = s[k]
    /\ \A k \in (j + 1)..Len(s) : t[k + e] = s[k]
    /\ Balanced(s, i, j) /\ Balanced(t, i, j + e)
    /\ i <= a /\ a <= b /\ b <= j /\ i <= a + f /\ b + f <= j + e
    /\ \A k \in (a + 1)..b : Like(s[k], t[k + f])
    /\ \A k \in (i + 1)..(j + e) :
        t[k].role \in Scaffold /\ ~(a + f < k /\ k <= b + f) => t[k].id = z0

LEMMA LikeStep == ASSUME NEW l, NEW m, Like(l, m) PROVE Step(m) = Step(l)
BY DEF Like, Step

LEMMA EditIs ==
    ASSUME NEW s, NEW t, NEW i \in Int, NEW j \in Int, NEW e \in Int, NEW a \in Int,
           NEW b \in Int, NEW f \in Int, NEW z0, File(s), File(t),
           i \in Nat, j \in Nat, a \in Nat, b \in Nat, Edit(s, t, i, j, e, a, b, f, z0)
    PROVE  /\ Len(s) \in Nat /\ Len(t) \in Nat
           /\ i <= j /\ j <= Len(s) /\ i <= j + e /\ Len(t) = Len(s) + e
           /\ i <= a /\ a <= b /\ b <= j /\ i <= a + f /\ b + f <= j + e
BY DEF Edit

LEMMA EditDepths ==
    ASSUME NEW s, NEW t, NEW i \in Int, NEW j \in Int, NEW e \in Int, NEW a \in Int,
           NEW b \in Int, NEW f \in Int, NEW z0, File(s), File(t),
           i \in Nat, j \in Nat, a \in Nat, b \in Nat, Edit(s, t, i, j, e, a, b, f, z0)
    PROVE  /\ \A k \in 0..i : Depth(t, k) = Depth(s, k)
           /\ \A k \in j..Len(s) : Depth(t, k + e) = Depth(s, k)
           /\ \A k \in i..(j + e) : Depth(t, k) >= Depth(s, i)
           /\ \A k \in a..b :
                Depth(t, k + f) - Depth(t, a + f) = Depth(s, k) - Depth(s, a)
<1>1. /\ Len(s) \in Nat /\ Len(t) \in Nat
      /\ i <= j /\ j <= Len(s) /\ i <= j + e /\ Len(t) = Len(s) + e
      /\ i <= a /\ a <= b /\ b <= j /\ i <= a + f /\ b + f <= j + e
  BY EditIs
<1>2. \A k \in 0..i : Depth(t, k) = Depth(s, k)
  <2>1. \A k \in 1..i : Step(t[k]) = Step(s[k]) BY DEF Edit
  <2> QED BY <2>1, DepthSame
<1>3. Depth(t, i) = Depth(s, i) BY <1>2
<1>4. /\ Depth(s, j) = Depth(s, i) /\ Depth(t, j + e) = Depth(t, i)
      /\ \A k \in i..(j + e) : Depth(t, k) >= Depth(t, i)
  BY DEF Edit, Balanced
<1>5. ASSUME NEW k \in j..Len(s) PROVE Depth(t, k + e) = Depth(s, k)
  <2>1. Alike(s, t, j, Len(s), e) BY DEF Alike, Edit
  <2>2. \A n \in j..Len(s) : Depth(t, n + e) - Depth(t, j + e) = Depth(s, n) - Depth(s, j)
    BY <1>1, <2>1, DepthShifts
  <2>3. Depth(t, k + e) - Depth(t, j + e) = Depth(s, k) - Depth(s, j) BY <2>2
  <2>4. k \in Int /\ k + e \in Int /\ j + e \in Int BY <1>1
  <2>5. /\ Depth(t, k + e) \in Int /\ Depth(t, j + e) \in Int
        /\ Depth(s, k) \in Int /\ Depth(s, j) \in Int
    BY <2>4, DepthType
  <2> QED BY <1>3, <1>4, <2>3, <2>5
<1>6. \A k \in a..b :
        Depth(t, k + f) - Depth(t, a + f) = Depth(s, k) - Depth(s, a)
  <2>1. Alike(s, t, a, b, f) BY LikeStep DEF Alike, Edit
  <2>2. a + f >= 0 BY <1>1
  <2> QED BY <2>1, <2>2, DepthShifts
<1> QED BY <1>2, <1>3, <1>4, <1>5, <1>6

LEMMA NestedIs ==
    ASSUME NEW s, File(s)
    PROVE  /\ Nested(s) => \A k \in 0..Len(s) : Depth(s, k) >= 0
           /\ Nested(s) => Depth(s, Len(s)) = 0
           /\ Depth(s, Len(s)) = 0 /\ (\A k \in 0..Len(s) : Depth(s, k) >= 0) => Nested(s)
<1>1. Depth(s, 0) = 0 BY DepthIs
<1>2. ASSUME Nested(s), NEW k \in 0..Len(s) PROVE Depth(s, k) >= 0
  <2>1. CASE k = 0 BY <1>1, <2>1
  <2>2. CASE k \in 1..Len(s) BY <1>2, <2>2 DEF Nested
  <2> QED BY <2>1, <2>2
<1>3. ASSUME Depth(s, Len(s)) = 0, \A k \in 0..Len(s) : Depth(s, k) >= 0 PROVE Nested(s)
  <2>1. \A k \in 1..Len(s) : k \in 0..Len(s) OBVIOUS
  <2> QED BY <1>3, <2>1 DEF Nested
<1> QED BY <1>2, <1>3 DEF Nested

\* The file still parses.
LEMMA EditNested ==
    ASSUME NEW s, NEW t, NEW i \in Int, NEW j \in Int, NEW e \in Int, NEW a \in Int,
           NEW b \in Int, NEW f \in Int, NEW z0, File(s), File(t),
           i \in Nat, j \in Nat, a \in Nat, b \in Nat, Edit(s, t, i, j, e, a, b, f, z0),
           Nested(s)
    PROVE  Nested(t)
<1>1. /\ Len(s) \in Nat /\ Len(t) \in Nat
      /\ i <= j /\ j <= Len(s) /\ i <= j + e /\ Len(t) = Len(s) + e
      /\ i <= a /\ a <= b /\ b <= j /\ i <= a + f /\ b + f <= j + e
  BY EditIs
<1>2. /\ \A k \in 0..i : Depth(t, k) = Depth(s, k)
      /\ \A k \in j..Len(s) : Depth(t, k + e) = Depth(s, k)
      /\ \A k \in i..(j + e) : Depth(t, k) >= Depth(s, i)
      /\ \A k \in a..b : Depth(t, k + f) - Depth(t, a + f) = Depth(s, k) - Depth(s, a)
  BY EditDepths
<1>3. Depth(s, Len(s)) = 0 /\ \A k \in 0..Len(s) : Depth(s, k) >= 0 BY NestedIs
<1>4. Depth(t, Len(t)) = 0
  <2>1. Len(s) \in j..Len(s) BY <1>1
  <2> QED BY <1>1, <1>2, <1>3, <2>1
<1>5. ASSUME NEW k \in 0..Len(t) PROVE Depth(t, k) >= 0
  <2>1. CASE k <= i
    <3>1. k \in 0..i /\ k \in 0..Len(s) BY <1>1, <2>1
    <3> QED BY <1>2, <1>3, <3>1
  <2>2. CASE k \in i..(j + e)
    <3>1. i \in 0..Len(s) /\ k \in Int BY <1>1
    <3>2. Depth(s, i) >= 0 /\ Depth(t, k) >= Depth(s, i) BY <1>2, <1>3, <2>2, <3>1
    <3>3. Depth(s, i) \in Int /\ Depth(t, k) \in Int BY <3>1, DepthType
    <3> QED BY <3>2, <3>3
  <2>3. CASE k > j + e
    <3> DEFINE m == k - e
    <3>1. m \in j..Len(s) /\ m \in 0..Len(s) /\ m + e = k BY <1>1, <2>3
    <3> HIDE DEF m
    <3>2. Depth(t, m + e) = Depth(s, m) /\ Depth(s, m) >= 0 BY <1>2, <1>3, <3>1
    <3> QED BY <3>1, <3>2
  <2> QED BY <1>1, <2>1, <2>2, <2>3
<1> QED BY <1>4, <1>5, NestedIs

\* Where a line of another session was before.
LEMMA OwnFrom ==
    ASSUME NEW s, NEW t, NEW i \in Int, NEW j \in Int, NEW e \in Int, NEW a \in Int,
           NEW b \in Int, NEW f \in Int, NEW z0, NEW z, NEW k \in Int, File(s),
           File(t), i \in Nat, j \in Nat, a \in Nat, b \in Nat,
           Edit(s, t, i, j, e, a, b, f, z0), z # z0, k \in Nat, k \in Own(t, z)
    PROVE  \/ k <= i /\ k \in Own(s, z)
           \/ k - e > j /\ k - e \in Own(s, z)
           \/ k - f \in (a + 1)..b /\ k - f \in Own(s, z)
<1>1. /\ Len(s) \in Nat /\ Len(t) \in Nat
      /\ i <= j /\ j <= Len(s) /\ i <= j + e /\ Len(t) = Len(s) + e
      /\ i <= a /\ a <= b /\ b <= j /\ i <= a + f /\ b + f <= j + e
  BY EditIs
<1>2. k \in 1..Len(t) /\ t[k].role \in Scaffold /\ t[k].id = z BY DEF Own
<1>3. CASE k <= i
  <2>1. k \in 1..i /\ k \in 1..Len(s) BY <1>1, <1>2, <1>3
  <2>2. t[k] = s[k] BY <2>1 DEF Edit
  <2> QED BY <1>2, <1>3, <2>1, <2>2 DEF Own
<1>4. CASE k > j + e
  <2> DEFINE m == k - e
  <2>1. m \in (j + 1)..Len(s) /\ m \in 1..Len(s) /\ m + e = k /\ m > j
    BY <1>1, <1>2, <1>4
  <2> HIDE DEF m
  <2>2. t[m + e] = s[m] BY <2>1 DEF Edit
  <2>3. m \in Own(s, z) BY <1>2, <2>1, <2>2 DEF Own
  <2> QED BY <2>1, <2>3 DEF m
<1>5. CASE k \in (i + 1)..(j + e)
  <2>1. a + f < k /\ k <= b + f BY <1>2, <1>5 DEF Edit
  <2> DEFINE m == k - f
  <2>2. m \in (a + 1)..b /\ m \in 1..Len(s) /\ m + f = k BY <1>1, <2>1
  <2> HIDE DEF m
  <2>3. Like(s[m], t[m + f]) BY <2>2 DEF Edit
  <2>4. m \in Own(s, z) BY <1>2, <2>2, <2>3 DEF Own, Like, Scaffold
  <2> QED BY <2>2, <2>4 DEF m
<1> QED BY <1>1, <1>2, <1>3, <1>4, <1>5

\* The lines h to g of s but those after i, up to j, are lines of t, the first
\* ones e1, the others e2 further down, at a depth that differs by d.  New lines
\* of session z are children of its <div>.
Carry(s, t, z, h, w, v, g, strict, i, j, e1, e2, d) ==
    /\ w <= i /\ i <= j /\ j < v
    /\ h + e1 >= 1 /\ g + e2 <= Len(t) /\ i + e1 <= j + e2
    /\ \A k \in h..i : Like(s[k], t[k + e1])
    /\ \A k \in (j + 1)..g : Like(s[k], t[k + e2])
    /\ \A k \in (h - 1)..i : Depth(t, k + e1) = Depth(s, k) + d
    /\ \A k \in j..g : Depth(t, k + e2) = Depth(s, k) + d
    /\ \A k \in (i + 1)..j : k \notin Own(s, z)
    /\ \A k \in Own(t, z) : h + e1 <= k /\ k <= g + e2
    /\ \A k \in (i + e1)..(j + e2) : Depth(t, k) >= Depth(s, w) + d
    /\ \A k \in (i + e1 + 1)..(j + e2) :
        /\ k \in Own(t, z) => strict /\ Depth(t, k - 1) = Depth(s, w) + d
        /\ strict /\ Depth(t, k - 1) = Depth(s, w) + d => k \in Own(t, z) \/ t[k].tag = "blank"

LEMMA LikeOwn ==
    ASSUME NEW s, NEW t, NEW z, NEW k \in Int, NEW m \in Int, Like(s[k], t[m]),
           k \in DOMAIN s, m \in DOMAIN t
    PROVE  /\ m \in Own(t, z) => k \in Own(s, z)
           /\ k \in Own(s, z) => m \in Own(t, z) \/ t[m].tag = "blank"
           /\ k \in Own(s, z) /\ s[k].tag # "style" => m \in Own(t, z)
           /\ s[k].tag = "blank" => t[m].tag = "blank"
           /\ s[k].tag # "style" => t[m].tag = s[k].tag
           /\ s[k].tag = "style" => t[m].tag \in {"style", "blank"}
BY DEF Like, Own, Scaffold

LEMMA FrameCarried ==
    ASSUME NEW s, NEW t, NEW z, NEW h \in Int, NEW w \in Int, NEW v \in Int, NEW g \in Int,
           NEW strict, NEW i \in Int, NEW j \in Int, NEW e1 \in Int, NEW e2 \in Int, NEW d \in Int,
           File(s), File(t), Frame(s, z, h, w, v, g, strict),
           Carry(s, t, z, h, w, v, g, strict, i, j, e1, e2, d)
    PROVE  Frame(t, z, h + e1, w + e1, v + e2, g + e2, strict)
<1>1. Elem(s, w, v) /\ h \in 1..w /\ g \in v..Len(s) BY DEF Frame
<1>2. /\ w \in 1..Len(s) /\ v \in 1..Len(s) /\ w < v
      /\ s[w].tag = "div" /\ s[v].tag = "/div"
      /\ Len(s) \in Nat /\ Len(t) \in Nat /\ DOMAIN t = 1..Len(t) /\ DOMAIN s = 1..Len(s)
  BY <1>1, FileIs DEF Elem
<1>3. /\ w <= i /\ i <= j /\ j < v
      /\ h + e1 >= 1 /\ g + e2 <= Len(t) /\ i + e1 <= j + e2
  BY DEF Carry
<1>4. ASSUME NEW k \in h..i
      PROVE  /\ k \in DOMAIN s /\ k + e1 \in DOMAIN t /\ Like(s[k], t[k + e1])
             /\ Depth(t, k + e1) = Depth(s, k) + d
             /\ Depth(t, k - 1 + e1) = Depth(s, k - 1) + d
  <2>1. k \in DOMAIN s /\ k + e1 \in DOMAIN t BY <1>1, <1>2, <1>3
  <2>2. k - 1 \in (h - 1)..i /\ k \in (h - 1)..i OBVIOUS
  <2> QED BY <2>1, <2>2 DEF Carry
<1>5. ASSUME NEW k \in (j + 1)..g
      PROVE  /\ k \in DOMAIN s /\ k + e2 \in DOMAIN t /\ Like(s[k], t[k + e2])
             /\ Depth(t, k + e2) = Depth(s, k) + d
             /\ Depth(t, k - 1 + e2) = Depth(s, k - 1) + d
  <2>1. k \in DOMAIN s /\ k + e2 \in DOMAIN t BY <1>1, <1>2, <1>3
  <2>2. k - 1 \in j..g /\ k \in j..g OBVIOUS
  <2> QED BY <2>1, <2>2 DEF Carry
<1>6. /\ Depth(s, w) = Depth(s, w - 1) + 1 /\ Depth(s, w - 1) \in Int /\ Depth(s, w) \in Int
      /\ \A k \in w..(v - 1) : Depth(s, k) >= Depth(s, w)
  BY <1>1, <1>2, ElemDepths, DepthType
<1>7. Elem(t, w + e1, v + e2)
  <2>1. w \in h..i /\ v \in (j + 1)..g BY <1>1, <1>2, <1>3
  <2>2. /\ w + e1 \in DOMAIN t /\ v + e2 \in DOMAIN t /\ w + e1 < v + e2
        /\ t[w + e1].tag = "div" /\ t[v + e2].tag = "/div"
    <3>1. /\ w + e1 \in DOMAIN t /\ v + e2 \in DOMAIN t
          /\ Like(s[w], t[w + e1]) /\ Like(s[v], t[v + e2])
      BY <1>4, <1>5, <2>1
    <3>2. w + e1 < v + e2 BY <1>3
    <3> QED BY <1>2, <3>1, <3>2 DEF Like
  <2>3. Depth(t, v + e2) = Depth(t, w + e1 - 1)
    <3>1. Depth(t, v + e2) = Depth(s, v) + d /\ Depth(t, w - 1 + e1) = Depth(s, w - 1) + d
      BY <1>4, <1>5, <2>1
    <3>2. Depth(s, v) = Depth(s, w - 1) BY <1>1 DEF Elem
    <3>3. w - 1 + e1 = w + e1 - 1 OBVIOUS
    <3> QED BY <3>1, <3>2, <3>3
  <2>4. Depth(t, w + e1 - 1) = Depth(s, w - 1) + d
    <3>1. w - 1 + e1 = w + e1 - 1 OBVIOUS
    <3> QED BY <1>4, <2>1, <3>1
  <2>5. ASSUME NEW m \in (w + e1)..(v + e2 - 1)
        PROVE  Depth(t, m) > Depth(t, w + e1 - 1)
    <3>1. Depth(t, m) >= Depth(s, w) + d
      <4>1. CASE m <= i + e1
        <5>1. PICK k \in Int : k \in h..i /\ k \in w..(v - 1) /\ k + e1 = m
          <6>1. m - e1 \in h..i /\ m - e1 \in w..(v - 1) /\ m - e1 + e1 = m
            BY <1>1, <1>2, <1>3, <4>1
          <6> QED BY <6>1
        <5>2. Depth(t, k + e1) = Depth(s, k) + d BY <1>4, <5>1
        <5>4. Depth(t, m) = Depth(s, k) + d /\ Depth(s, k) >= Depth(s, w) BY <1>6, <5>1, <5>2
        <5>3. Depth(s, k) \in Int BY DepthType
        <5> QED BY <1>6, <5>3, <5>4
      <4>2. CASE m \in (i + e1)..(j + e2)
        BY <4>2 DEF Carry
      <4>3. CASE m > j + e2
        <5>1. PICK k \in Int : k \in (j + 1)..g /\ k \in w..(v - 1) /\ k + e2 = m
          <6>1. m - e2 \in (j + 1)..g /\ m - e2 \in w..(v - 1) /\ m - e2 + e2 = m
            BY <1>1, <1>2, <1>3, <4>3
          <6> QED BY <6>1
        <5>2. Depth(t, k + e2) = Depth(s, k) + d BY <1>5, <5>1
        <5>4. Depth(t, m) = Depth(s, k) + d /\ Depth(s, k) >= Depth(s, w) BY <1>6, <5>1, <5>2
        <5>3. Depth(s, k) \in Int BY DepthType
        <5> QED BY <1>6, <5>3, <5>4
      <4> QED BY <4>1, <4>2, <4>3
    <3>2. Depth(t, m) \in Int BY DepthType
    <3> QED BY <1>6, <2>4, <3>1, <3>2
  <2> QED BY <2>2, <2>3, <2>5 DEF Elem
<1>8. h + e1 \in 1..(w + e1) /\ g + e2 \in (v + e2)..Len(t) BY <1>1, <1>2, <1>3
<1>9. h + e1 \in Own(t, z) /\ w + e1 \in Own(t, z) /\ t[h + e1].tag # "style"
  <2>1. h \in h..i /\ w \in h..i BY <1>1, <1>2, <1>3
  <2>2. h \in Own(s, z) /\ w \in Own(s, z) /\ s[h].tag # "style" BY DEF Frame
  <2>3. /\ h \in DOMAIN s /\ h + e1 \in DOMAIN t /\ Like(s[h], t[h + e1])
        /\ w \in DOMAIN s /\ w + e1 \in DOMAIN t /\ Like(s[w], t[w + e1])
    BY <1>4, <2>1
  <2>4. w + e1 \in Own(t, z) BY <1>2, <2>2, <2>3, LikeOwn
  <2>5. h + e1 \in Own(t, z) BY <2>2, <2>3, LikeOwn
  <2>6. t[h + e1].tag = s[h].tag BY <2>2, <2>3 DEF Like
  <2> QED BY <2>2, <2>4, <2>5, <2>6
<1>10. ASSUME NEW m \in Int, m \in (h + e1)..(w + e1 - 1)
       PROVE  /\ t[m].tag \in {"mark", "style", "blank"}
              /\ m \in Own(t, z) \/ t[m].tag = "blank"
  <2>1. PICK k \in Int : k \in h..i /\ k \in h..(w - 1) /\ k + e1 = m
    <3>1. m - e1 \in h..i /\ m - e1 \in h..(w - 1) /\ m - e1 + e1 = m
      BY <1>1, <1>2, <1>3, <1>10
    <3> QED BY <3>1
  <2>2. k \in DOMAIN s /\ m \in DOMAIN t /\ Like(s[k], t[m]) BY <1>4, <2>1
  <2>3. s[k].tag \in {"mark", "style", "blank"} /\ (k \in Own(s, z) \/ s[k].tag = "blank")
    BY <2>1 DEF Frame
  <2> QED BY <2>2, <2>3, LikeOwn
<1>11. ASSUME NEW m \in Int, m \in (v + e2 + 1)..(g + e2)
       PROVE  t[m].tag = "mark" /\ m \in Own(t, z)
  <2>1. PICK k \in Int : k \in (j + 1)..g /\ k \in (v + 1)..g /\ k + e2 = m
    <3>1. m - e2 \in (j + 1)..g /\ m - e2 \in (v + 1)..g /\ m - e2 + e2 = m
      BY <1>1, <1>2, <1>3, <1>11
    <3> QED BY <3>1
  <2>2. k \in DOMAIN s /\ m \in DOMAIN t /\ Like(s[k], t[m]) BY <1>5, <2>1
  <2>3. s[k].tag = "mark" /\ k \in Own(s, z) BY <2>1 DEF Frame
  <2> QED BY <2>2, <2>3, LikeOwn
<1>12. Depth(t, w + e1) = Depth(s, w) + d
  <2>1. w \in h..i BY <1>1, <1>2, <1>3
  <2> QED BY <1>4, <2>1
<1>13. ASSUME NEW m \in Int, m \in Own(t, z)
       PROVE  \/ m \in (h + e1)..(w + e1) \/ m \in (v + e2 + 1)..(g + e2)
              \/ strict /\ m \in (w + e1 + 1)..(v + e2 - 1) /\ Depth(t, m - 1) = Depth(t, w + e1)
  <2>1. h + e1 <= m /\ m <= g + e2 BY <1>13 DEF Carry
  <2>2. CASE m <= i + e1
    <3>1. PICK k \in Int : k \in h..i /\ k + e1 = m
      <4>1. m - e1 \in h..i /\ m - e1 + e1 = m BY <1>1, <1>2, <1>3, <2>1, <2>2
      <4> QED BY <4>1
    <3>2. /\ k \in DOMAIN s /\ m \in DOMAIN t /\ Like(s[k], t[m])
          /\ Depth(t, k - 1 + e1) = Depth(s, k - 1) + d
      BY <1>4, <3>1
    <3>3. k \in Own(s, z) BY <1>13, <3>2, LikeOwn
    <3>4. \/ k \in h..w \/ k \in (v + 1)..g
          \/ strict /\ k \in (w + 1)..(v - 1) /\ Depth(s, k - 1) = Depth(s, w)
      BY <3>3 DEF Frame
    <3>5. k - 1 + e1 = m - 1 BY <3>1
    <3>6. CASE k \in h..w BY <3>1, <3>6
    <3>7. CASE k \in (v + 1)..g BY <1>3, <3>1, <3>7
    <3>8. CASE strict /\ k \in (w + 1)..(v - 1) /\ Depth(s, k - 1) = Depth(s, w)
      <4>1. m \in (w + e1 + 1)..(v + e2 - 1) BY <1>3, <3>1, <3>8
      <4>2. Depth(t, m - 1) = Depth(t, w + e1) BY <1>12, <3>2, <3>5, <3>8
      <4> QED BY <3>8, <4>1, <4>2
    <3> QED BY <3>4, <3>6, <3>7, <3>8
  <2>3. CASE m \in (i + e1 + 1)..(j + e2)
    <3>1. strict /\ Depth(t, m - 1) = Depth(s, w) + d BY <1>13, <2>3 DEF Carry
    <3>2. m \in (w + e1 + 1)..(v + e2 - 1) BY <1>3, <2>3
    <3> QED BY <1>12, <3>1, <3>2
  <2>4. CASE m > j + e2
    <3>1. PICK k \in Int : k \in (j + 1)..g /\ k + e2 = m
      <4>1. m - e2 \in (j + 1)..g /\ m - e2 + e2 = m BY <1>1, <1>2, <1>3, <2>1, <2>4
      <4> QED BY <4>1
    <3>2. /\ k \in DOMAIN s /\ m \in DOMAIN t /\ Like(s[k], t[m])
          /\ Depth(t, k - 1 + e2) = Depth(s, k - 1) + d
      BY <1>5, <3>1
    <3>3. k \in Own(s, z) BY <1>13, <3>2, LikeOwn
    <3>4. \/ k \in h..w \/ k \in (v + 1)..g
          \/ strict /\ k \in (w + 1)..(v - 1) /\ Depth(s, k - 1) = Depth(s, w)
      BY <3>3 DEF Frame
    <3>5. k - 1 + e2 = m - 1 BY <3>1
    <3>6. CASE k \in h..w BY <1>3, <3>1, <3>6
    <3>7. CASE k \in (v + 1)..g BY <3>1, <3>7
    <3>8. CASE strict /\ k \in (w + 1)..(v - 1) /\ Depth(s, k - 1) = Depth(s, w)
      <4>1. m \in (w + e1 + 1)..(v + e2 - 1) BY <1>3, <2>4, <3>1, <3>8
      <4>2. Depth(t, m - 1) = Depth(t, w + e1) BY <1>12, <3>2, <3>5, <3>8
      <4> QED BY <3>8, <4>1, <4>2
    <3> QED BY <3>4, <3>6, <3>7, <3>8
  <2> QED BY <2>2, <2>3, <2>4
<1>14. ASSUME strict, NEW m \in Int, m \in (w + e1 + 1)..(v + e2 - 1), Depth(t, m - 1) = Depth(t, w + e1)
       PROVE  m \in Own(t, z) \/ t[m].tag = "blank"
  <2>1. CASE m <= i + e1
    <3>1. PICK k \in Int : k \in h..i /\ k \in (w + 1)..(v - 1) /\ k + e1 = m
      <4>1. m - e1 \in h..i /\ m - e1 \in (w + 1)..(v - 1) /\ m - e1 + e1 = m
        BY <1>1, <1>2, <1>3, <1>14, <2>1
      <4> QED BY <4>1
    <3>2. /\ k \in DOMAIN s /\ m \in DOMAIN t /\ Like(s[k], t[m])
          /\ Depth(t, k - 1 + e1) = Depth(s, k - 1) + d
      BY <1>4, <3>1
    <3>3. k - 1 + e1 = m - 1 /\ k - 1 \in Int BY <3>1
    <3>4. Depth(s, k - 1) \in Int BY <3>3, DepthType
    <3>5. Depth(s, k - 1) = Depth(s, w) BY <1>6, <1>12, <1>14, <3>2, <3>3, <3>4
    <3>6. k \in Own(s, z) \/ s[k].tag = "blank" BY <1>14, <3>1, <3>5 DEF Frame
    <3> QED BY <3>2, <3>6, LikeOwn
  <2>2. CASE m \in (i + e1 + 1)..(j + e2)
    BY <1>12, <1>14, <2>2 DEF Carry
  <2>3. CASE m > j + e2
    <3>1. PICK k \in Int : k \in (j + 1)..g /\ k \in (w + 1)..(v - 1) /\ k + e2 = m
      <4>1. m - e2 \in (j + 1)..g /\ m - e2 \in (w + 1)..(v - 1) /\ m - e2 + e2 = m
        BY <1>1, <1>2, <1>3, <1>14, <2>3
      <4> QED BY <4>1
    <3>2. /\ k \in DOMAIN s /\ m \in DOMAIN t /\ Like(s[k], t[m])
          /\ Depth(t, k - 1 + e2) = Depth(s, k - 1) + d
      BY <1>5, <3>1
    <3>3. k - 1 + e2 = m - 1 /\ k - 1 \in Int BY <3>1
    <3>4. Depth(s, k - 1) \in Int BY <3>3, DepthType
    <3>5. Depth(s, k - 1) = Depth(s, w) BY <1>6, <1>12, <1>14, <3>2, <3>3, <3>4
    <3>6. k \in Own(s, z) \/ s[k].tag = "blank" BY <1>14, <3>1, <3>5 DEF Frame
    <3> QED BY <3>2, <3>6, LikeOwn
  <2> QED BY <2>1, <2>2, <2>3
<1>15. \A m \in Own(t, z) : m \in Int BY <1>2 DEF Own
<1> QED BY <1>7, <1>8, <1>9, <1>10, <1>11, <1>13, <1>14, <1>15 DEF Frame
-----------------------------------------------------------------------------
(* The block of an open session, and what an accept with CSS leaves.       *)

Is(s, k, role, z) == k \in DOMAIN s /\ s[k].role = role /\ s[k].id = z

Inside == {"original", "insert", "variant", "css"}

BlockLines(s, z, w, start, end) ==
    /\ Is(s, w, "wrapper", z) /\ Is(s, start, "start", z) /\ Is(s, end, "end", z)
    /\ \A k \in Own(s, z) : k \in {w, start, end} \/ s[k].role \in Inside

\* In JSX, x, the comments are inside of the <div>.
BlockAt(x, s, z, w, v) ==
    IF x THEN Frame(s, z, w, w, v, v, TRUE) /\ BlockLines(s, z, w, w + 1, v - 1)
    ELSE Frame(s, z, w - 1, w, v, v + 1, TRUE) /\ BlockLines(s, z, w, w - 1, v + 1)

\* From line c on: a comment, the CSS, a comment and the variant.  In JSX there
\* is a <div> around them.
CarbonAt(x, s, z, c, w, v) ==
    /\ Frame(s, z, IF x THEN w ELSE c, w, v, v, x)
    /\ w = IF x THEN c - 1 ELSE c + 3
    /\ Is(s, c, "carbonize-start", z) /\ Is(s, c + 2, "carbonize-end", z)
    /\ Is(s, c + 3, "variant", z) /\ s[c + 3].tag = "div" /\ s[c + 1].tag \in {"style", "blank"}
    /\ \A k \in Own(s, z) : k <= c + 3
    /\ x => Is(s, w, "carbonize", z)

LEMMA IsCarried ==
    ASSUME NEW s, NEW t, NEW z, NEW k \in Int, NEW m \in Int, NEW role,
           Is(s, k, role, z), m \in DOMAIN t, Like(s[k], t[m]), role \in Scaffold \ {"css"},
           File(s)
    PROVE  Is(t, m, role, z)
<1>1. k \in DOMAIN s /\ s[k].role = role /\ s[k].id = z BY DEF Is
<1>2. LineOK(s[k]) BY <1>1, FileIs
<1>3. s[k].tag # "style" BY <1>1, <1>2 DEF LineOK, Scaffold
<1> QED BY <1>1, <1>3 DEF Is, Like, Scaffold

\* What a frame that is carried keeps of its lines.
LEMMA LinesCarried ==
    ASSUME NEW s, NEW t, NEW z, NEW h \in Int, NEW w \in Int, NEW v \in Int, NEW g \in Int,
           NEW strict, NEW i \in Int, NEW j \in Int, NEW e1 \in Int, NEW e2 \in Int, NEW d \in Int,
           File(s), File(t), Frame(s, z, h, w, v, g, strict),
           Carry(s, t, z, h, w, v, g, strict, i, j, e1, e2, d)
    PROVE  /\ w <= i /\ i <= j /\ j < v /\ i + e1 <= j + e2
           /\ \A k \in h..i : k \in DOMAIN s /\ k + e1 \in DOMAIN t /\ Like(s[k], t[k + e1])
           /\ \A k \in (j + 1)..g : k \in DOMAIN s /\ k + e2 \in DOMAIN t /\ Like(s[k], t[k + e2])
           /\ \A k \in Own(t, z) : \/ k - e1 \in h..i /\ k - e1 \in Own(s, z)
                                   \/ k \in (i + e1 + 1)..(j + e2)
                                   \/ k - e2 \in (j + 1)..g /\ k - e2 \in Own(s, z)
<1>1. Elem(s, w, v) /\ h \in 1..w /\ g \in v..Len(s) BY DEF Frame
<1>2. /\ w \in 1..Len(s) /\ v \in 1..Len(s) /\ w < v
      /\ Len(s) \in Nat /\ Len(t) \in Nat /\ DOMAIN t = 1..Len(t) /\ DOMAIN s = 1..Len(s)
  BY <1>1, FileIs DEF Elem
<1>3. /\ w <= i /\ i <= j /\ j < v
      /\ h + e1 >= 1 /\ g + e2 <= Len(t) /\ i + e1 <= j + e2
  BY DEF Carry
<1>4. \A k \in h..i : k \in DOMAIN s /\ k + e1 \in DOMAIN t BY <1>1, <1>2, <1>3
<1>5. \A k \in h..i : Like(s[k], t[k + e1]) BY DEF Carry
<1>6. \A k \in (j + 1)..g : k \in DOMAIN s /\ k + e2 \in DOMAIN t BY <1>1, <1>2, <1>3
<1>7. \A k \in (j + 1)..g : Like(s[k], t[k + e2]) BY DEF Carry
<1>8. ASSUME NEW m \in Int, m \in Own(t, z)
      PROVE  \/ m - e1 \in h..i /\ m - e1 \in Own(s, z)
             \/ m \in (i + e1 + 1)..(j + e2)
             \/ m - e2 \in (j + 1)..g /\ m - e2 \in Own(s, z)
  <2>1. h + e1 <= m /\ m <= g + e2 BY <1>8 DEF Carry
  <2>2. CASE m <= i + e1
    <3>1. PICK k \in Int : k \in h..i /\ k + e1 = m /\ k = m - e1
      <4>1. m - e1 \in h..i /\ m - e1 + e1 = m BY <1>1, <1>2, <1>3, <2>1, <2>2
      <4> QED BY <4>1
    <3>2. k \in DOMAIN s /\ m \in DOMAIN t /\ Like(s[k], t[m]) BY <1>4, <1>5, <3>1
    <3>3. k \in Own(s, z) BY <1>8, <3>2, LikeOwn
    <3> QED BY <3>1, <3>3
  <2>3. CASE m > j + e2
    <3>1. PICK k \in Int : k \in (j + 1)..g /\ k + e2 = m /\ k = m - e2
      <4>1. m - e2 \in (j + 1)..g /\ m - e2 + e2 = m BY <1>1, <1>2, <1>3, <2>1, <2>3
      <4> QED BY <4>1
    <3>2. k \in DOMAIN s /\ m \in DOMAIN t /\ Like(s[k], t[m]) BY <1>6, <1>7, <3>1
    <3>3. k \in Own(s, z) BY <1>8, <3>2, LikeOwn
    <3> QED BY <3>1, <3>3
  <2> QED BY <2>2, <2>3
<1>9. \A m \in Own(t, z) : m \in Int BY <1>2 DEF Own
<1> QED BY <1>3, <1>4, <1>5, <1>6, <1>7, <1>8, <1>9
LEMMA BlockLinesCarried ==
    ASSUME NEW s, NEW t, NEW z, NEW h \in Int, NEW w \in Int, NEW v \in Int, NEW g \in Int,
           NEW i \in Int, NEW j \in Int, NEW e1 \in Int, NEW e2 \in Int, NEW d \in Int,
           NEW start \in Int, NEW end \in Int,
           File(s), File(t), Frame(s, z, h, w, v, g, TRUE), BlockLines(s, z, w, start, end),
           Carry(s, t, z, h, w, v, g, TRUE, i, j, e1, e2, d),
           h <= w, h <= start, start <= g, h <= end, end <= g,
           start <= i \/ (e1 = e2 /\ i = j), j < end \/ (e1 = e2 /\ i = j),
           \A k \in (i + e1 + 1)..(j + e2) : k \in Own(t, z) => t[k].role \in Inside
    PROVE  BlockLines(t, z, w + e1, start + e1, end + e2)
<1>2. /\ Is(s, w, "wrapper", z) /\ Is(s, start, "start", z) /\ Is(s, end, "end", z)
      /\ \A k \in Own(s, z) : k \in {w, start, end} \/ s[k].role \in Inside
  BY DEF BlockLines
<1>4. /\ w <= i /\ i <= j /\ j < v /\ i + e1 <= j + e2
      /\ \A k \in h..i : k \in DOMAIN s /\ k + e1 \in DOMAIN t /\ Like(s[k], t[k + e1])
      /\ \A k \in (j + 1)..g : k \in DOMAIN s /\ k + e2 \in DOMAIN t /\ Like(s[k], t[k + e2])
      /\ \A k \in Own(t, z) : \/ k - e1 \in h..i /\ k - e1 \in Own(s, z)
                              \/ k \in (i + e1 + 1)..(j + e2)
                              \/ k - e2 \in (j + 1)..g /\ k - e2 \in Own(s, z)
  BY LinesCarried
<1>6. Is(t, w + e1, "wrapper", z)
  <2>1. w \in h..i BY <1>4
  <2> QED BY <1>2, <1>4, <2>1, IsCarried DEF Scaffold
<1>7. ASSUME NEW k \in Int, k \in h..i, NEW role, role \in Scaffold \ {"css"}, Is(s, k, role, z)
      PROVE  Is(t, k + e1, role, z)
  BY <1>4, <1>7, IsCarried
<1>8. ASSUME NEW k \in Int, k \in (j + 1)..g, NEW role, role \in Scaffold \ {"css"},
             Is(s, k, role, z)
      PROVE  Is(t, k + e2, role, z)
  BY <1>4, <1>8, IsCarried
<1>9. "start" \in Scaffold \ {"css"} /\ "end" \in Scaffold \ {"css"} BY DEF Scaffold
<1>10. Is(t, start + e1, "start", z)
  <2>1. CASE start <= i
    <3>1. start \in h..i BY <2>1
    <3> QED BY <1>2, <1>7, <1>9, <3>1
  <2>2. CASE start > i
    <3>1. start \in (j + 1)..g /\ e1 = e2 BY <2>2
    <3> QED BY <1>2, <1>8, <1>9, <3>1
  <2> QED BY <2>1, <2>2
<1>11. Is(t, end + e2, "end", z)
  <2>1. CASE end > j
    <3>1. end \in (j + 1)..g BY <2>1
    <3> QED BY <1>2, <1>8, <1>9, <3>1
  <2>2. CASE end <= j
    <3>1. end \in h..i /\ e1 = e2 BY <2>2
    <3> QED BY <1>2, <1>7, <1>9, <3>1
  <2> QED BY <2>1, <2>2
<1>12. ASSUME NEW m \in Int, m \in Own(t, z)
       PROVE  m \in {w + e1, start + e1, end + e2} \/ t[m].role \in Inside
  <2>1. CASE m - e1 \in h..i /\ m - e1 \in Own(s, z)
    <3>1. PICK k \in Int : k \in h..i /\ k \in Own(s, z) /\ k + e1 = m
      <4>1. m - e1 + e1 = m OBVIOUS
      <4> QED BY <2>1, <4>1
    <3>2. Like(s[k], t[m]) BY <1>4, <3>1
    <3>3. k \in {w, start, end} \/ s[k].role \in Inside BY <1>2, <3>1
    <3>4. CASE k = end
      <4>1. k <= i /\ i <= j BY <1>4, <3>1
      <4>2. e1 = e2 BY <3>4, <4>1
      <4> QED BY <3>1, <3>4, <4>2
    <3>5. CASE s[k].role \in Inside
      <4>1. t[m].role \in Scaffold BY <1>12 DEF Own
      <4> QED BY <3>2, <3>5, <4>1 DEF Like, Scaffold
    <3> QED BY <3>1, <3>3, <3>4, <3>5
  <2>2. CASE m \in (i + e1 + 1)..(j + e2)
    BY <1>12, <2>2
  <2>3. CASE m - e2 \in (j + 1)..g /\ m - e2 \in Own(s, z)
    <3>1. PICK k \in Int : k \in (j + 1)..g /\ k \in Own(s, z) /\ k + e2 = m
      <4>1. m - e2 + e2 = m OBVIOUS
      <4> QED BY <2>3, <4>1
    <3>2. Like(s[k], t[m]) BY <1>4, <3>1
    <3>3. k \in {w, start, end} \/ s[k].role \in Inside BY <1>2, <3>1
    <3>4. CASE k = start
      <4>1. k > j /\ i <= j BY <1>4, <3>1
      <4>2. e1 = e2 BY <3>4, <4>1
      <4> QED BY <3>1, <3>4, <4>2
    <3>5. CASE s[k].role \in Inside
      <4>1. t[m].role \in Scaffold BY <1>12 DEF Own
      <4> QED BY <3>2, <3>5, <4>1 DEF Like, Scaffold
    <3>6. k # w BY <1>4, <3>1
    <3> QED BY <3>1, <3>3, <3>4, <3>5, <3>6
  <2> QED BY <1>4, <1>12, <2>1, <2>2, <2>3
<1>13. \A m \in Own(t, z) : m \in Int BY FileIs DEF Own
<1>14. \A m \in Own(t, z) : m \in {w + e1, start + e1, end + e2} \/ t[m].role \in Inside
  BY <1>12, <1>13
<1> QED BY <1>6, <1>10, <1>11, <1>14 DEF BlockLines

LEMMA BlockCarried ==
    ASSUME NEW x, NEW s, NEW t, NEW z, NEW h \in Int, NEW w \in Int, NEW v \in Int, NEW g \in Int,
           NEW i \in Int, NEW j \in Int, NEW e1 \in Int, NEW e2 \in Int, NEW d \in Int,
           File(s), File(t), x \in BOOLEAN, BlockAt(x, s, z, w, v),
           x => h = w /\ g = v, ~x => h = w - 1 /\ g = v + 1,
           Carry(s, t, z, h, w, v, g, TRUE, i, j, e1, e2, d),
           (e1 = e2 /\ i = j) \/ (x => w + 1 <= i /\ j <= v - 2),
           \A k \in (i + e1 + 1)..(j + e2) : k \in Own(t, z) => t[k].role \in Inside
    PROVE  BlockAt(x, t, z, w + e1, v + e2)
<1>1. w <= i /\ i <= j /\ j < v BY DEF Carry
<1>2. CASE x
  <2>1. Frame(s, z, h, w, v, g, TRUE) /\ BlockLines(s, z, w, w + 1, v - 1)
    BY <1>2 DEF BlockAt
  <2>2. Frame(t, z, h + e1, w + e1, v + e2, g + e2, TRUE) BY <2>1, FrameCarried
  <2>3. BlockLines(t, z, w + e1, w + 1 + e1, v - 1 + e2)
    <3>1. h <= w /\ h <= w + 1 /\ w + 1 <= g /\ h <= v - 1 /\ v - 1 <= g BY <1>1, <1>2
    <3>2. (w + 1 <= i \/ (e1 = e2 /\ i = j)) /\ (j < v - 1 \/ (e1 = e2 /\ i = j)) BY <1>2
    <3>3. PICK start \in Int, end \in Int : start = w + 1 /\ end = v - 1 OBVIOUS
    <3>4. BlockLines(s, z, w, start, end) BY <2>1, <3>3
    <3>5. h <= start /\ start <= g /\ h <= end /\ end <= g BY <3>1, <3>3
    <3>6. (start <= i \/ (e1 = e2 /\ i = j)) /\ (j < end \/ (e1 = e2 /\ i = j)) BY <3>2, <3>3
    <3>7. BlockLines(t, z, w + e1, start + e1, end + e2)
      BY <2>1, <3>1, <3>4, <3>5, <3>6, BlockLinesCarried
    <3> QED BY <3>3, <3>7
  <2>4. w + 1 + e1 = w + e1 + 1 /\ v - 1 + e2 = v + e2 - 1 OBVIOUS
  <2>5. BlockLines(t, z, w + e1, w + e1 + 1, v + e2 - 1) BY <2>3, <2>4
  <2>6. Frame(t, z, w + e1, w + e1, v + e2, v + e2, TRUE) BY <1>2, <2>2
  <2>7. BlockLines(t, z, w + e1, (w + e1) + 1, (v + e2) - 1) BY <2>5
  <2> QED BY <1>2, <2>6, <2>7 DEF BlockAt
<1>3. CASE ~x
  <2>1. Frame(s, z, h, w, v, g, TRUE) /\ BlockLines(s, z, w, w - 1, v + 1)
    BY <1>3 DEF BlockAt
  <2>2. Frame(t, z, h + e1, w + e1, v + e2, g + e2, TRUE) BY <2>1, FrameCarried
  <2>3. BlockLines(t, z, w + e1, w - 1 + e1, v + 1 + e2)
    <3>1. h <= w /\ h <= w - 1 /\ w - 1 <= g /\ h <= v + 1 /\ v + 1 <= g BY <1>1, <1>3
    <3>2. w - 1 <= i /\ j < v + 1 BY <1>1
    <3>3. PICK start \in Int, end \in Int : start = w - 1 /\ end = v + 1 OBVIOUS
    <3>4. BlockLines(s, z, w, start, end) BY <2>1, <3>3
    <3>5. h <= start /\ start <= g /\ h <= end /\ end <= g BY <3>1, <3>3
    <3>6. start <= i /\ j < end BY <3>2, <3>3
    <3>7. BlockLines(t, z, w + e1, start + e1, end + e2)
      BY <2>1, <3>1, <3>4, <3>5, <3>6, BlockLinesCarried
    <3> QED BY <3>3, <3>7
  <2>4. w - 1 + e1 = w + e1 - 1 /\ v + 1 + e2 = v + e2 + 1 OBVIOUS
  <2>5. BlockLines(t, z, w + e1, w + e1 - 1, v + e2 + 1) BY <2>3, <2>4
  <2>6. h + e1 = w + e1 - 1 /\ g + e2 = v + e2 + 1 BY <1>3
  <2>7. Frame(t, z, w + e1 - 1, w + e1, v + e2, v + e2 + 1, TRUE) BY <2>2, <2>6
  <2>8. ~(x = TRUE) BY <1>3
  <2>9. BlockAt(x, t, z, w + e1, v + e2) = (Frame(t, z, w + e1 - 1, w + e1, v + e2, v + e2 + 1, TRUE) /\ BlockLines(t, z, w + e1, w + e1 - 1, v + e2 + 1))
    BY <1>3 DEF BlockAt
  <2> QED BY <2>5, <2>7, <2>9
<1> QED BY <1>2, <1>3
LEMMA CarbonIs ==
    ASSUME NEW x, NEW s, NEW z, NEW c \in Int, NEW h \in Int, NEW w \in Int, NEW v \in Int,
           File(s), x \in BOOLEAN, CarbonAt(x, s, z, c, w, v), x => h = w, ~x => h = c
    PROVE  /\ Frame(s, z, h, w, v, v, x) /\ Elem(s, w, v)
           /\ h >= 1 /\ h <= c /\ c + 3 < v /\ v <= Len(s) /\ Len(s) \in Nat
           /\ (x => w = c - 1) /\ (~x => w = c + 3)
           /\ x => \A k \in w..(c + 2) : Depth(s, k) = Depth(s, w)
<1>1. /\ Frame(s, z, h, w, v, v, x) /\ (x => w = c - 1 /\ h = w) /\ (~x => w = c + 3 /\ h = c)
  BY DEF CarbonAt
<1>2. Elem(s, w, v) /\ h \in 1..w /\ v \in v..Len(s) BY <1>1 DEF Frame
<1>3. w \in 1..Len(s) /\ v \in 1..Len(s) /\ w < v /\ Len(s) \in Nat BY <1>2, FileIs DEF Elem
<1>4. c \in Own(s, z) /\ c + 2 \in Own(s, z) /\ c + 3 \in Own(s, z)
  BY DEF CarbonAt, Is, Own, Scaffold
<1>5. ASSUME x
      PROVE  /\ c + 3 < v /\ Depth(s, c - 1) = Depth(s, w) /\ Depth(s, c + 1) = Depth(s, w)
             /\ Depth(s, c + 2) = Depth(s, w)
  <2>1. ASSUME NEW k \in Int, k \in Own(s, z), k > w
        PROVE  k \in (w + 1)..(v - 1) /\ Depth(s, k - 1) = Depth(s, w)
    BY <1>1, <1>2, <2>1 DEF Frame
  <2>2. PICK c2 \in Int, c3 \in Int : c2 = c + 2 /\ c3 = c + 3 OBVIOUS
  <2>3. c > w /\ c2 > w /\ c3 > w BY <1>1, <1>5, <2>2
  <2>4. c2 \in Own(s, z) /\ c3 \in Own(s, z) BY <1>4, <2>2
  <2>5. /\ c3 \in (w + 1)..(v - 1) /\ Depth(s, c - 1) = Depth(s, w)
        /\ Depth(s, c2 - 1) = Depth(s, w) /\ Depth(s, c3 - 1) = Depth(s, w)
    BY <1>4, <2>1, <2>3, <2>4
  <2>6. c2 - 1 = c + 1 /\ c3 - 1 = c + 2 BY <2>2
  <2> QED BY <2>2, <2>5, <2>6
<1>6. c + 3 < v BY <1>1, <1>3, <1>5
<1>7. ASSUME x PROVE \A k \in w..(c + 2) : Depth(s, k) = Depth(s, w)
  <2>1. Depth(s, c + 1) = Depth(s, c) + Step(s[c + 1])
    <3>1. c \in Nat BY <1>1, <1>3, <1>7
    <3> QED BY <3>1, DepthNext
  <2>2. Step(s[c + 1]) = 0 BY DEF CarbonAt, Step
  <2>3. Depth(s, c) \in Int BY DepthType
  <2>4. Depth(s, c) = Depth(s, w) BY <1>5, <1>7, <2>1, <2>2, <2>3
  <2>5. \A k \in w..(c + 2) : k = w \/ k = c \/ k = c + 1 \/ k = c + 2 BY <1>1, <1>7
  <2> QED BY <1>5, <1>7, <2>4, <2>5
<1> QED BY <1>1, <1>2, <1>3, <1>6, <1>7

LEMMA CarbonCarried ==
    ASSUME NEW x, NEW s, NEW t, NEW z, NEW c \in Int, NEW h \in Int, NEW w \in Int,
           NEW v \in Int, NEW i \in Int, NEW j \in Int, NEW e1 \in Int, NEW e2 \in Int,
           NEW d \in Int,
           File(s), File(t), x \in BOOLEAN, CarbonAt(x, s, z, c, w, v),
           x => h = w, ~x => h = c, Carry(s, t, z, h, w, v, v, x, i, j, e1, e2, d),
           (e1 = e2 /\ i = j) \/ c + 3 <= i,
           \A k \in (i + e1 + 1)..(j + e2) : k \notin Own(t, z)
    PROVE  CarbonAt(x, t, z, c + e1, w + e1, v + e2)
<1>1. /\ Frame(s, z, h, w, v, v, x) /\ Elem(s, w, v)
      /\ h >= 1 /\ h <= c /\ c + 3 < v /\ v <= Len(s) /\ Len(s) \in Nat
      /\ (x => w = c - 1) /\ (~x => w = c + 3)
  BY CarbonIs
<1>2. /\ Is(s, c, "carbonize-start", z) /\ Is(s, c + 2, "carbonize-end", z)
      /\ Is(s, c + 3, "variant", z) /\ s[c + 3].tag = "div" /\ s[c + 1].tag \in {"style", "blank"}
      /\ \A k \in Own(s, z) : k <= c + 3
      /\ x => Is(s, w, "carbonize", z)
  BY DEF CarbonAt
<1>3. /\ w <= i /\ i <= j /\ j < v /\ i + e1 <= j + e2
      /\ \A k \in h..i : k \in DOMAIN s /\ k + e1 \in DOMAIN t /\ Like(s[k], t[k + e1])
      /\ \A k \in (j + 1)..v : k \in DOMAIN s /\ k + e2 \in DOMAIN t /\ Like(s[k], t[k + e2])
      /\ \A k \in Own(t, z) : \/ k - e1 \in h..i /\ k - e1 \in Own(s, z)
                              \/ k \in (i + e1 + 1)..(j + e2)
                              \/ k - e2 \in (j + 1)..v /\ k - e2 \in Own(s, z)
  BY <1>1, LinesCarried
<1>4. Frame(t, z, h + e1, w + e1, v + e2, v + e2, x) BY <1>1, FrameCarried
<1>5. ASSUME NEW k \in Int, k \in h..(c + 3)
      PROVE  k \in DOMAIN s /\ k + e1 \in DOMAIN t /\ Like(s[k], t[k + e1])
  <2>1. CASE k \in h..i BY <1>3, <2>1
  <2>2. CASE k > i
    <3>1. e1 = e2 /\ i = j BY <1>5, <2>2
    <3>2. k \in (j + 1)..v BY <1>1, <1>5, <2>2, <3>1
    <3> QED BY <1>3, <3>1, <3>2
  <2> QED BY <1>5, <2>1, <2>2
<1>6. ASSUME NEW k \in Int, k \in h..(c + 3), NEW role, role \in Scaffold \ {"css"},
             Is(s, k, role, z)
      PROVE  Is(t, k + e1, role, z)
  BY <1>5, <1>6, IsCarried
<1>7. "carbonize-start" \in Scaffold \ {"css"} /\ "carbonize-end" \in Scaffold \ {"css"}
      /\ "variant" \in Scaffold \ {"css"} /\ "carbonize" \in Scaffold \ {"css"}
  BY DEF Scaffold
<1>8. PICK c1 \in Int, c2 \in Int, c3 \in Int : c1 = c + 1 /\ c2 = c + 2 /\ c3 = c + 3 OBVIOUS
<1>9. /\ c \in h..(c + 3) /\ c1 \in h..(c + 3) /\ c2 \in h..(c + 3) /\ c3 \in h..(c + 3)
  BY <1>1, <1>8
<1>10. /\ Is(t, c + e1, "carbonize-start", z) /\ Is(t, c2 + e1, "carbonize-end", z)
       /\ Is(t, c3 + e1, "variant", z)
  BY <1>2, <1>6, <1>7, <1>8, <1>9
<1>11. t[c3 + e1].tag = "div" /\ t[c1 + e1].tag \in {"style", "blank"}
  <2>1. Like(s[c3], t[c3 + e1]) /\ Like(s[c1], t[c1 + e1]) BY <1>5, <1>9
  <2>2. s[c3].tag = "div" /\ s[c1].tag \in {"style", "blank"} BY <1>2, <1>8
  <2> QED BY <2>1, <2>2 DEF Like
<1>12. x => Is(t, w + e1, "carbonize", z)
  <2>1. x => w \in h..(c + 3) BY <1>1
  <2> QED BY <1>2, <1>6, <1>7, <2>1
<1>13. ASSUME NEW m \in Int, m \in Own(t, z) PROVE m <= c + e1 + 3
  <2>1. CASE m - e1 \in h..i /\ m - e1 \in Own(s, z)
    <3>1. m - e1 <= c + 3 BY <1>2, <2>1
    <3> QED BY <3>1
  <2>2. CASE m \in (i + e1 + 1)..(j + e2) BY <1>13, <2>2
  <2>3. CASE m - e2 \in (j + 1)..v /\ m - e2 \in Own(s, z)
    <3>1. m - e2 <= c + 3 BY <1>2, <2>3
    <3> QED BY <1>3, <2>3, <3>1
  <2> QED BY <1>3, <1>13, <2>1, <2>2, <2>3
<1>14. \A m \in Own(t, z) : m \in Int BY FileIs DEF Own
<1>15. \A m \in Own(t, z) : m <= c + e1 + 3 BY <1>13, <1>14
<1>16. c1 + e1 = c + e1 + 1 /\ c2 + e1 = c + e1 + 2 /\ c3 + e1 = c + e1 + 3 BY <1>8
<1>17. (IF x THEN w + e1 ELSE c + e1) = h + e1 /\ w + e1 = IF x THEN c + e1 - 1 ELSE c + e1 + 3
  BY <1>1
<1>18. Frame(t, z, IF x THEN w + e1 ELSE c + e1, w + e1, v + e2, v + e2, x) BY <1>4, <1>17
<1> QED BY <1>10, <1>11, <1>12, <1>15, <1>16, <1>17, <1>18 DEF CarbonAt
-----------------------------------------------------------------------------
(* What a change to one block does to another.                             *)

\* The lines of z are before the replaced ones, after, around them, among those
\* that are kept, or all gone.
Situated(s, i, j, a, b, z, h, w, v, g, strict) ==
    \/ g <= i
    \/ h > j
    \/ w <= i /\ j < v /\ (strict => Depth(s, i) > Depth(s, w))
    \/ a < h /\ g <= b
    \/ i < h /\ g <= j /\ \A k \in (a + 1)..b : k \notin Own(s, z)

\* All of them are moved by the same distance, or those after the replaced lines.
Moved(s, t, z, w, p, q, e1, e2, strict) ==
    /\ \A k \in (p + e1 + 1)..(q + e2) : k \notin Own(t, z)
    /\ \/ e1 = e2 /\ p = q
       \/ Depth(s, q) = Depth(s, p) /\ (strict => Depth(s, p) > Depth(s, w))

LEMMA FrameHull ==
    ASSUME NEW s, NEW z, NEW h \in Int, NEW w \in Int, NEW v \in Int, NEW g \in Int,
           NEW strict, File(s), Frame(s, z, h, w, v, g, strict)
    PROVE  /\ Elem(s, w, v) /\ 1 <= h /\ h <= w /\ w < v /\ v <= g /\ g <= Len(s)
           /\ \A k \in Own(s, z) : k \in Int /\ h <= k /\ k <= g
<1>1. Elem(s, w, v) /\ h \in 1..w /\ g \in v..Len(s) BY DEF Frame
<1>2. Len(s) \in Nat /\ w < v BY <1>1, FileLen DEF Elem
<1>3. \A k \in Own(s, z) : k \in Int BY FileIs DEF Own
<1>4. ASSUME NEW k \in Int, k \in Own(s, z) PROVE h <= k /\ k <= g
  <2>1. \/ k \in h..w \/ k \in (v + 1)..g
        \/ strict /\ k \in (w + 1)..(v - 1) /\ Depth(s, k - 1) = Depth(s, w)
    BY <1>4 DEF Frame
  <2> QED BY <1>1, <1>2, <2>1
<1> QED BY <1>1, <1>2, <1>3, <1>4

LEMMA ShiftCarry ==
    ASSUME NEW s, NEW t, NEW z, NEW h \in Int, NEW w \in Int, NEW v \in Int, NEW g \in Int,
           NEW strict, NEW e1 \in Int, NEW d \in Int,
           File(s), File(t), Frame(s, z, h, w, v, g, strict), h + e1 >= 1, g + e1 <= Len(t),
           \A k \in h..g : Like(s[k], t[k + e1]),
           \A k \in (h - 1)..g : Depth(t, k + e1) = Depth(s, k) + d,
           \A k \in Own(t, z) : h + e1 <= k /\ k <= g + e1
    PROVE  /\ Carry(s, t, z, h, w, v, g, strict, w, w, e1, e1, d)
           /\ Moved(s, t, z, w, w, w, e1, e1, strict)
<1>1. 1 <= h /\ h <= w /\ w < v /\ v <= g BY FrameHull
<1>2. \A k \in (w + e1)..(w + e1) : Depth(t, k) >= Depth(s, w) + d
  <2>1. Depth(t, w + e1) = Depth(s, w) + d BY <1>1
  <2>2. Depth(s, w) \in Int /\ Depth(t, w + e1) \in Int BY DepthType
  <2> QED BY <2>1, <2>2
<1>3. \A k \in (w + e1 + 1)..(w + e1) : FALSE OBVIOUS
<1>4. \A k \in (w + 1)..w : FALSE OBVIOUS
<1> QED BY <1>1, <1>2, <1>3, <1>4 DEF Carry, Moved

LEMMA LikeItself == ASSUME NEW l PROVE Like(l, l) BY DEF Like

LEMMA OthersCarried ==
    ASSUME NEW s, NEW t, NEW i \in Int, NEW j \in Int, NEW e \in Int, NEW a \in Int,
           NEW b \in Int, NEW f \in Int, NEW z0, NEW z, NEW h \in Int, NEW w \in Int,
           NEW v \in Int, NEW g \in Int, NEW strict,
           File(s), File(t), i \in Nat, j \in Nat, a \in Nat, b \in Nat,
           Edit(s, t, i, j, e, a, b, f, z0), z # z0, Frame(s, z, h, w, v, g, strict),
           Situated(s, i, j, a, b, z, h, w, v, g, strict)
    PROVE  \/ Own(t, z) = {}
           \/ \E p, q, e1, e2, d \in Int :
                /\ Carry(s, t, z, h, w, v, g, strict, p, q, e1, e2, d)
                /\ Moved(s, t, z, w, p, q, e1, e2, strict)
<1>1. /\ Len(s) \in Nat /\ Len(t) \in Nat
      /\ i <= j /\ j <= Len(s) /\ i <= j + e /\ Len(t) = Len(s) + e
      /\ i <= a /\ a <= b /\ b <= j /\ i <= a + f /\ b + f <= j + e
  BY EditIs
<1>2. /\ Elem(s, w, v) /\ 1 <= h /\ h <= w /\ w < v /\ v <= g /\ g <= Len(s)
      /\ \A k \in Own(s, z) : k \in Int /\ h <= k /\ k <= g
  BY FrameHull
<1>3. /\ \A k \in 0..i : Depth(t, k) = Depth(s, k)
      /\ \A k \in j..Len(s) : Depth(t, k + e) = Depth(s, k)
      /\ \A k \in i..(j + e) : Depth(t, k) >= Depth(s, i)
      /\ \A k \in a..b : Depth(t, k + f) - Depth(t, a + f) = Depth(s, k) - Depth(s, a)
  BY EditDepths
<1>4. ASSUME NEW k \in Int, k \in Own(t, z)
      PROVE  \/ k <= i /\ k \in Own(s, z)
             \/ k - e > j /\ k - e \in Own(s, z)
             \/ k - f \in (a + 1)..b /\ k - f \in Own(s, z)
  <2>1. k \in Nat BY <1>4, FileIs DEF Own
  <2> QED BY <1>4, <2>1, OwnFrom
<1>5. \A k \in Own(t, z) : k \in Int BY FileIs DEF Own
<1>6. CASE g <= i
  <2>1. \A k \in h..g : Like(s[k], t[k + 0])
    <3>1. \A k \in h..g : t[k + 0] = s[k] BY <1>1, <1>2, <1>6 DEF Edit
    <3> QED BY <3>1, LikeItself
  <2>2. \A k \in (h - 1)..g : Depth(t, k + 0) = Depth(s, k) + 0
    <3>1. ASSUME NEW k \in (h - 1)..g PROVE Depth(t, k + 0) = Depth(s, k) + 0
      <4>1. k \in 0..i /\ k + 0 = k BY <1>1, <1>2, <1>6
      <4>2. Depth(s, k) \in Int BY <4>1, DepthType
      <4> QED BY <1>3, <4>1, <4>2
    <3> QED BY <3>1
  <2>3. \A k \in Own(t, z) : h + 0 <= k /\ k <= g + 0
    <3>1. ASSUME NEW k \in Int, k \in Own(t, z) PROVE h + 0 <= k /\ k <= g + 0
      <4>1. CASE k <= i /\ k \in Own(s, z) BY <1>2, <4>1
      <4>2. CASE k - e > j /\ k - e \in Own(s, z)
        <5>1. k - e <= g BY <1>2, <4>2
        <5> QED BY <1>1, <1>6, <4>2, <5>1
      <4>3. CASE k - f \in (a + 1)..b /\ k - f \in Own(s, z)
        <5>1. k - f <= g BY <1>2, <4>3
        <5> QED BY <1>1, <1>6, <4>3, <5>1
      <4> QED BY <1>4, <3>1, <4>1, <4>2, <4>3
    <3> QED BY <1>5, <3>1
  <2>4. h + 0 >= 1 /\ g + 0 <= Len(t) BY <1>1, <1>2, <1>6
  <2>5. \E e1, d \in Int : /\ Carry(s, t, z, h, w, v, g, strict, w, w, e1, e1, d)
                            /\ Moved(s, t, z, w, w, w, e1, e1, strict)
    <3>1. PICK e1 \in Int, d \in Int : e1 = 0 /\ d = 0 OBVIOUS
    <3>2. /\ \A k \in h..g : Like(s[k], t[k + e1])
          /\ \A k \in (h - 1)..g : Depth(t, k + e1) = Depth(s, k) + d
          /\ \A k \in Own(t, z) : h + e1 <= k /\ k <= g + e1
          /\ h + e1 >= 1 /\ g + e1 <= Len(t)
      BY <2>1, <2>2, <2>3, <2>4, <3>1
    <3>3. /\ Carry(s, t, z, h, w, v, g, strict, w, w, e1, e1, d)
          /\ Moved(s, t, z, w, w, w, e1, e1, strict)
      BY <3>2, ShiftCarry
    <3> QED BY <3>3
  <2> QED BY <2>5
<1>7. CASE h > j
  <2>1. \A k \in h..g : Like(s[k], t[k + e])
    <3>1. \A k \in h..g : t[k + e] = s[k] BY <1>1, <1>2, <1>7 DEF Edit
    <3> QED BY <3>1, LikeItself
  <2>2. \A k \in (h - 1)..g : Depth(t, k + e) = Depth(s, k) + 0
    <3>1. ASSUME NEW k \in (h - 1)..g PROVE Depth(t, k + e) = Depth(s, k) + 0
      <4>1. k \in j..Len(s) BY <1>1, <1>2, <1>7
      <4>2. Depth(s, k) \in Int BY <4>1, DepthType
      <4> QED BY <1>3, <4>1, <4>2
    <3> QED BY <3>1
  <2>3. \A k \in Own(t, z) : h + e <= k /\ k <= g + e
    <3>1. ASSUME NEW k \in Int, k \in Own(t, z) PROVE h + e <= k /\ k <= g + e
      <4>1. CASE k <= i /\ k \in Own(s, z)
        <5>1. h <= k BY <1>2, <4>1
        <5> QED BY <1>1, <1>7, <4>1, <5>1
      <4>2. CASE k - e > j /\ k - e \in Own(s, z)
        <5>1. h <= k - e /\ k - e <= g BY <1>2, <4>2
        <5> QED BY <5>1
      <4>3. CASE k - f \in (a + 1)..b /\ k - f \in Own(s, z)
        <5>1. h <= k - f BY <1>2, <4>3
        <5> QED BY <1>1, <1>7, <4>3, <5>1
      <4> QED BY <1>4, <3>1, <4>1, <4>2, <4>3
    <3> QED BY <1>5, <3>1
  <2>4. h + e >= 1 /\ g + e <= Len(t) BY <1>1, <1>2, <1>7
  <2>5. \E e1, d \in Int : /\ Carry(s, t, z, h, w, v, g, strict, w, w, e1, e1, d)
                            /\ Moved(s, t, z, w, w, w, e1, e1, strict)
    <3>1. PICK e1 \in Int, d \in Int : e1 = e /\ d = 0 OBVIOUS
    <3>2. /\ \A k \in h..g : Like(s[k], t[k + e1])
          /\ \A k \in (h - 1)..g : Depth(t, k + e1) = Depth(s, k) + d
          /\ \A k \in Own(t, z) : h + e1 <= k /\ k <= g + e1
          /\ h + e1 >= 1 /\ g + e1 <= Len(t)
      BY <2>1, <2>2, <2>3, <2>4, <3>1
    <3>3. /\ Carry(s, t, z, h, w, v, g, strict, w, w, e1, e1, d)
          /\ Moved(s, t, z, w, w, w, e1, e1, strict)
      BY <3>2, ShiftCarry
    <3> QED BY <3>3
  <2> QED BY <2>5
<1>8. CASE w <= i /\ j < v /\ (strict => Depth(s, i) > Depth(s, w))
  <2>1. Depth(s, i) >= Depth(s, w) /\ Depth(s, i) \in Int /\ Depth(s, w) \in Int
    <3>1. i \in w..(v - 1) BY <1>1, <1>8
    <3>2. \A k \in w..(v - 1) : Depth(s, k) >= Depth(s, w) BY <1>2, ElemDepths
    <3> QED BY <3>1, <3>2, DepthType
  <2>2. /\ Depth(s, j) = Depth(s, i)
        /\ \A k \in i..j : Depth(s, k) >= Depth(s, i)
    BY DEF Edit, Balanced
  <2>3. ASSUME NEW k \in Int, k \in (i + 1)..j, k \in Own(s, z) PROVE FALSE
    <3>1. strict /\ k \in (w + 1)..(v - 1) /\ Depth(s, k - 1) = Depth(s, w)
      BY <1>2, <1>8, <2>3 DEF Frame
    <3>2. k - 1 \in i..j /\ k - 1 \in Int BY <2>3
    <3>3. Depth(s, k - 1) >= Depth(s, i) /\ Depth(s, k - 1) \in Int BY <2>2, <3>2, DepthType
    <3> QED BY <1>8, <2>1, <3>1, <3>3
  <2>4. ASSUME NEW k \in Int, k \in (i + 1)..(j + e)
        PROVE  /\ k \notin Own(t, z)
               /\ strict => Depth(t, k - 1) # Depth(s, w)
    <3>1. k \notin Own(t, z)
      <4> SUFFICES ASSUME k \in Own(t, z) PROVE FALSE OBVIOUS
      <4>1. k - f \in (a + 1)..b /\ k - f \in Own(s, z) BY <1>4, <2>4
      <4>2. PICK m \in Int : m = k - f OBVIOUS
      <4>3. m \in (i + 1)..j /\ m \in Own(s, z) BY <1>1, <4>1, <4>2
      <4> QED BY <2>3, <4>3
    <3>2. k - 1 \in i..(j + e) /\ k - 1 \in Int BY <1>1, <2>4
    <3>3. Depth(t, k - 1) >= Depth(s, i) /\ Depth(t, k - 1) \in Int
      BY <1>3, <3>2, DepthType
    <3> QED BY <1>8, <2>1, <3>1, <3>3
  <2>5. ASSUME NEW k \in i..(j + e) PROVE Depth(t, k) >= Depth(s, w) + 0
    <3>1. Depth(t, k) >= Depth(s, i) BY <1>3, <2>5
    <3>2. Depth(t, k) \in Int BY DepthType
    <3> QED BY <2>1, <3>1, <3>2
  <2>6. ASSUME NEW k \in Int, k \in Own(t, z) PROVE h + 0 <= k /\ k <= g + e
    <3>1. k <= i \/ k > j + e BY <2>4, <2>6
    <3>2. CASE k <= i /\ k \in Own(s, z)
      <4>1. h <= k BY <1>2, <3>2
      <4> QED BY <1>1, <1>2, <1>8, <3>2, <4>1
    <3>3. CASE k - e > j /\ k - e \in Own(s, z)
      <4>1. k - e <= g BY <1>2, <3>3
      <4> QED BY <1>1, <1>2, <1>8, <3>3, <4>1
    <3>4. CASE k - f \in (a + 1)..b /\ k - f \in Own(s, z)
      BY <1>1, <3>1, <3>4
    <3> QED BY <1>4, <2>6, <3>2, <3>3, <3>4
  <2>7. \A k \in Own(t, z) : h + 0 <= k /\ k <= g + e BY <1>5, <2>6
  <2>8. \A k \in h..i : Like(s[k], t[k + 0])
    <3>1. \A k \in h..i : t[k + 0] = s[k] BY <1>2 DEF Edit
    <3> QED BY <3>1, LikeItself
  <2>9. \A k \in (j + 1)..g : Like(s[k], t[k + e])
    <3>1. \A k \in (j + 1)..g : t[k + e] = s[k] BY <1>1, <1>2 DEF Edit
    <3> QED BY <3>1, LikeItself
  <2>10. ASSUME NEW k \in (h - 1)..i PROVE Depth(t, k + 0) = Depth(s, k) + 0
    <3>1. k \in 0..i /\ k + 0 = k BY <1>1, <1>2
    <3>2. Depth(s, k) \in Int BY <3>1, DepthType
    <3> QED BY <1>3, <3>1, <3>2
  <2>11. ASSUME NEW k \in j..g PROVE Depth(t, k + e) = Depth(s, k) + 0
    <3>1. k \in j..Len(s) BY <1>1, <1>2
    <3>2. Depth(s, k) \in Int BY <3>1, DepthType
    <3> QED BY <1>3, <3>1, <3>2
  <2>12. h + 0 >= 1 /\ g + e <= Len(t) /\ i + 0 <= j + e BY <1>1, <1>2
  <2>13. \A k \in (i + 1)..j : k \notin Own(s, z) BY <2>3
  <2>14. \A k \in (i + 0)..(j + e) : Depth(t, k) >= Depth(s, w) + 0 BY <2>5
  <2>15. \A k \in (i + 0 + 1)..(j + e) :
            k \notin Own(t, z) /\ (strict => Depth(t, k - 1) # Depth(s, w) + 0)
    BY <2>1, <2>4
  <2>16. Carry(s, t, z, h, w, v, g, strict, i, j, 0, e, 0)
    BY <1>1, <1>8, <2>7, <2>8, <2>9, <2>10, <2>11, <2>12, <2>13, <2>14, <2>15 DEF Carry
  <2>17. Moved(s, t, z, w, i, j, 0, e, strict) BY <1>8, <2>2, <2>15 DEF Moved
  <2> QED BY <2>16, <2>17
<1>9. CASE a < h /\ g <= b
  <2>1. \A k \in h..g : Like(s[k], t[k + f])
    <3>1. \A k \in (a + 1)..b : Like(s[k], t[k + f]) BY DEF Edit
    <3> QED BY <1>1, <1>2, <1>9, <3>1
  <2>d. PICK d \in Int : d = Depth(t, a + f) - Depth(s, a) BY DepthType
  <2>2. ASSUME NEW k \in (h - 1)..g PROVE Depth(t, k + f) = Depth(s, k) + d
    <3>1. k \in a..b /\ k \in Int /\ k + f \in Int /\ a + f \in Int BY <1>1, <1>2, <1>9
    <3>2. /\ Depth(s, k) \in Int /\ Depth(t, k + f) \in Int /\ Depth(t, a + f) \in Int
          /\ Depth(s, a) \in Int
      BY <3>1, DepthType
    <3>3. Depth(t, k + f) - Depth(t, a + f) = Depth(s, k) - Depth(s, a) BY <1>3, <3>1
    <3> QED BY <2>d, <3>2, <3>3
  <2>3. \A k \in Own(t, z) : h + f <= k /\ k <= g + f
    <3>1. ASSUME NEW k \in Int, k \in Own(t, z) PROVE h + f <= k /\ k <= g + f
      <4>1. CASE k <= i /\ k \in Own(s, z)
        <5>1. h <= k BY <1>2, <4>1
        <5> QED BY <1>1, <1>9, <4>1, <5>1
      <4>2. CASE k - e > j /\ k - e \in Own(s, z)
        <5>1. k - e <= g BY <1>2, <4>2
        <5> QED BY <1>1, <1>9, <4>2, <5>1
      <4>3. CASE k - f \in (a + 1)..b /\ k - f \in Own(s, z)
        <5>1. h <= k - f /\ k - f <= g BY <1>2, <4>3
        <5> QED BY <5>1
      <4> QED BY <1>4, <3>1, <4>1, <4>2, <4>3
    <3> QED BY <1>5, <3>1
  <2>4. h + f >= 1 /\ g + f <= Len(t) BY <1>1, <1>2, <1>9
  <2>5. \A k \in (h - 1)..g : Depth(t, k + f) = Depth(s, k) + d BY <2>2
  <2>6. /\ Carry(s, t, z, h, w, v, g, strict, w, w, f, f, d)
        /\ Moved(s, t, z, w, w, w, f, f, strict)
    BY <2>1, <2>3, <2>4, <2>5, ShiftCarry
  <2> QED BY <2>6
<1>10. CASE i < h /\ g <= j /\ \A k \in (a + 1)..b : k \notin Own(s, z)
  <2>1. ASSUME NEW k \in Int, k \in Own(t, z) PROVE FALSE
    <3>1. CASE k <= i /\ k \in Own(s, z) BY <1>2, <1>10, <3>1
    <3>2. CASE k - e > j /\ k - e \in Own(s, z)
      <4>1. k - e <= g BY <1>2, <3>2
      <4> QED BY <1>10, <3>2, <4>1
    <3>3. CASE k - f \in (a + 1)..b /\ k - f \in Own(s, z) BY <1>10, <3>3
    <3> QED BY <1>4, <2>1, <3>1, <3>2, <3>3
  <2> QED BY <1>5, <2>1
<1> QED BY <1>6, <1>7, <1>8, <1>9, <1>10 DEF Situated
\* What there is of a session that became o: its lines are from h to g, and w
\* and v are its outermost <div>.
Standing(o, x, s, z, h, w, v, g, strict) ==
    \/ /\ o = "open" /\ strict = TRUE /\ BlockAt(x, s, z, w, v)
       /\ x => h = w /\ g = v
       /\ ~x => h = w - 1 /\ g = v + 1
    \/ /\ o = "carbonize" /\ strict = x /\ g = v
       /\ \E c \in Int : CarbonAt(x, s, z, c, w, v) /\ (x => h = w) /\ (~x => h = c)

Stands(o, x, s, z) ==
    \E h, w, v, g \in Int, strict \in BOOLEAN : Standing(o, x, s, z, h, w, v, g, strict)

LEMMA StandingIs ==
    ASSUME NEW o, NEW x, NEW s, NEW z, NEW h \in Int, NEW w \in Int, NEW v \in Int,
           NEW g \in Int, NEW strict, x \in BOOLEAN, Standing(o, x, s, z, h, w, v, g, strict)
    PROVE  Frame(s, z, h, w, v, g, strict)
<1>1. CASE /\ o = "open" /\ strict = TRUE /\ BlockAt(x, s, z, w, v)
           /\ x => h = w /\ g = v
           /\ ~x => h = w - 1 /\ g = v + 1
  <2>1. CASE x BY <1>1, <2>1 DEF BlockAt
  <2>2. CASE ~x
    <3>1. BlockAt(x, s, z, w, v) = (Frame(s, z, w - 1, w, v, v + 1, TRUE) /\ BlockLines(s, z, w, w - 1, v + 1))
      BY <2>2 DEF BlockAt
    <3> QED BY <1>1, <2>2, <3>1
  <2> QED BY <2>1, <2>2
<1>2. CASE /\ o = "carbonize" /\ strict = x /\ g = v
           /\ \E c \in Int : CarbonAt(x, s, z, c, w, v) /\ (x => h = w) /\ (~x => h = c)
  BY <1>2 DEF CarbonAt
<1> QED BY <1>1, <1>2 DEF Standing

LEMMA BlockStands ==
    ASSUME NEW x, NEW s, NEW z, NEW w \in Int, NEW v \in Int, x \in BOOLEAN,
           BlockAt(x, s, z, w, v)
    PROVE  Stands("open", x, s, z)
<1>1. CASE x
  <2>1. Standing("open", x, s, z, w, w, v, v, TRUE) BY <1>1 DEF Standing
  <2> QED BY <2>1 DEF Stands
<1>2. CASE ~x
  <2>1. PICK h \in Int, g \in Int : h = w - 1 /\ g = v + 1 OBVIOUS
  <2>2. Standing("open", x, s, z, h, w, v, g, TRUE) BY <1>2, <2>1 DEF Standing
  <2> QED BY <2>2 DEF Stands
<1> QED BY <1>1, <1>2

LEMMA CarbonStands ==
    ASSUME NEW x, NEW s, NEW z, NEW c \in Int, NEW w \in Int, NEW v \in Int, x \in BOOLEAN,
           CarbonAt(x, s, z, c, w, v)
    PROVE  Stands("carbonize", x, s, z)
<1>1. CASE x
  <2>1. Standing("carbonize", x, s, z, w, w, v, v, TRUE) BY <1>1 DEF Standing
  <2> QED BY <2>1 DEF Stands
<1>2. CASE ~x
  <2>1. Standing("carbonize", x, s, z, c, w, v, v, FALSE) BY <1>2 DEF Standing
  <2> QED BY <2>1 DEF Stands
<1> QED BY <1>1, <1>2

LEMMA OthersStand ==
    ASSUME NEW s, NEW t, NEW i \in Int, NEW j \in Int, NEW e \in Int, NEW a \in Int,
           NEW b \in Int, NEW f \in Int, NEW z0, NEW z, NEW h \in Int, NEW w \in Int,
           NEW v \in Int, NEW g \in Int, NEW strict, NEW o, NEW x,
           File(s), File(t), i \in Nat, j \in Nat, a \in Nat, b \in Nat,
           Edit(s, t, i, j, e, a, b, f, z0), z # z0, x \in BOOLEAN,
           Standing(o, x, s, z, h, w, v, g, strict),
           Situated(s, i, j, a, b, z, h, w, v, g, strict)
    PROVE  Own(t, z) = {} \/ Stands(o, x, t, z)
<1>1. Frame(s, z, h, w, v, g, strict) BY StandingIs
<1>2. SUFFICES ASSUME Own(t, z) # {} PROVE Stands(o, x, t, z) OBVIOUS
<1>3. \E p, q, e1, e2, d \in Int :
        /\ Carry(s, t, z, h, w, v, g, strict, p, q, e1, e2, d)
        /\ Moved(s, t, z, w, p, q, e1, e2, strict)
  BY <1>1, <1>2, OthersCarried
<1>4. PICK p \in Int, q \in Int, e1 \in Int, e2 \in Int, d \in Int :
        /\ Carry(s, t, z, h, w, v, g, strict, p, q, e1, e2, d)
        /\ Moved(s, t, z, w, p, q, e1, e2, strict)
  BY <1>3
<1>5. /\ \A k \in (p + e1 + 1)..(q + e2) : k \notin Own(t, z)
      /\ \/ e1 = e2 /\ p = q
         \/ Depth(s, q) = Depth(s, p) /\ (strict => Depth(s, p) > Depth(s, w))
  BY <1>4 DEF Moved
<1>6. w <= p /\ p <= q /\ q < v BY <1>4 DEF Carry
<1>7. Depth(s, p) \in Int /\ Depth(s, w) \in Int BY DepthType
<1>8. CASE /\ o = "open" /\ strict = TRUE /\ BlockAt(x, s, z, w, v)
           /\ x => h = w /\ g = v
           /\ ~x => h = w - 1 /\ g = v + 1
  <2>1. (e1 = e2 /\ p = q) \/ (w + 1 <= p /\ q <= v - 2)
    <3>1. ASSUME Depth(s, q) = Depth(s, p), Depth(s, p) > Depth(s, w)
          PROVE  w + 1 <= p /\ q <= v - 2
      <4>1. p # w BY <1>7, <3>1
      <4>2. Depth(s, v - 1) = Depth(s, w) BY <1>1, ElemDepths DEF Frame
      <4>3. q # v - 1 BY <1>7, <3>1, <4>2
      <4> QED BY <1>6, <4>1, <4>3
    <3> QED BY <1>5, <1>8, <3>1
  <2>2. Carry(s, t, z, h, w, v, g, TRUE, p, q, e1, e2, d) BY <1>4, <1>8
  <2>3. BlockAt(x, s, z, w, v) /\ (x => h = w /\ g = v) /\ (~x => h = w - 1 /\ g = v + 1)
    BY <1>8
  <2>4. (e1 = e2 /\ p = q) \/ (x => w + 1 <= p /\ q <= v - 2) BY <2>1
  <2>5. \A k \in (p + e1 + 1)..(q + e2) : k \in Own(t, z) => t[k].role \in Inside BY <1>5
  <2>6. BlockAt(x, t, z, w + e1, v + e2)
    BY <2>2, <2>3, <2>4, <2>5, BlockCarried
  <2>7. w + e1 \in Int /\ v + e2 \in Int OBVIOUS
  <2>8. Stands("open", x, t, z) BY <2>6, <2>7, BlockStands
  <2> QED BY <1>8, <2>8
<1>9. CASE /\ o = "carbonize" /\ strict = x /\ g = v
           /\ \E c \in Int : CarbonAt(x, s, z, c, w, v) /\ (x => h = w) /\ (~x => h = c)
  <2>1. PICK c \in Int : CarbonAt(x, s, z, c, w, v) /\ (x => h = w) /\ (~x => h = c)
    BY <1>9
  <2>2. /\ Frame(s, z, h, w, v, v, x) /\ Elem(s, w, v)
        /\ h >= 1 /\ h <= c /\ c + 3 < v /\ v <= Len(s) /\ Len(s) \in Nat
        /\ (x => w = c - 1) /\ (~x => w = c + 3)
        /\ x => \A k \in w..(c + 2) : Depth(s, k) = Depth(s, w)
    BY <2>1, CarbonIs
  <2>3. (e1 = e2 /\ p = q) \/ c + 3 <= p
    <3>1. ASSUME x, Depth(s, p) > Depth(s, w) PROVE c + 3 <= p
      <4>1. p \notin w..(c + 2) BY <1>7, <2>2, <3>1
      <4> QED BY <1>6, <4>1
    <3>2. ~x => c + 3 <= p BY <1>6, <2>2
    <3> QED BY <1>5, <1>9, <3>1, <3>2
  <2>4. Carry(s, t, z, h, w, v, v, x, p, q, e1, e2, d) BY <1>4, <1>9
  <2>5. CarbonAt(x, t, z, c + e1, w + e1, v + e2) BY <1>5, <2>1, <2>3, <2>4, CarbonCarried
  <2>6. c + e1 \in Int /\ w + e1 \in Int /\ v + e2 \in Int OBVIOUS
  <2>7. Stands("carbonize", x, t, z) BY <2>5, <2>6, CarbonStands
  <2> QED BY <1>9, <2>7
<1> QED BY <1>8, <1>9 DEF Standing

\* What there is of session z in s is a block, or there is nothing.
Whole(o, x, s, z) == Own(s, z) = {} \/ Stands(o, x, s, z)

LEMMA EditNone ==
    ASSUME NEW s, NEW t, NEW i \in Int, NEW j \in Int, NEW e \in Int, NEW a \in Int,
           NEW b \in Int, NEW f \in Int, NEW z0, NEW z, File(s), File(t),
           i \in Nat, j \in Nat, a \in Nat, b \in Nat,
           Edit(s, t, i, j, e, a, b, f, z0), z # z0, Own(s, z) = {}
    PROVE  Own(t, z) = {}
<1>1. SUFFICES ASSUME NEW k, k \in Own(t, z) PROVE FALSE
  OBVIOUS
<1>2. k \in Nat
  BY <1>1, FileIs DEF Own
<1>3. PICK m \in Int : m = k
  BY <1>2
<1>4. m \in Nat /\ m \in Own(t, z)
  BY <1>1, <1>2, <1>3
<1>5. \/ m <= i /\ m \in Own(s, z)
      \/ m - e > j /\ m - e \in Own(s, z)
      \/ m - f \in (a + 1)..b /\ m - f \in Own(s, z)
  <2> HIDE <1>1, <1>2, <1>3
  <2> QED
    BY <1>4, OwnFrom
<1> QED
  BY <1>5
-----------------------------------------------------------------------------
(* The new lines.                                                          *)

LEMMA Cat ==
    ASSUME NEW s, NEW t, NEW n \in Int, NEW m \in Int, File(s), File(t), Len(s) = n, Len(t) = m
    PROVE  /\ File(s \o t) /\ Len(s \o t) = n + m
           /\ \A k \in 1..n : (s \o t)[k] = s[k]
           /\ \A k \in (n + 1)..(n + m) : (s \o t)[k] = t[k - n]
<1>1. s \in Seq(LINES) /\ t \in Seq(LINES) BY DEF File
<1>2. n \in Nat /\ m \in Nat BY FileLen
<1>3. /\ s \o t \in Seq(LINES)
      /\ Len(s \o t) = Len(s) + Len(t)
      /\ \A k \in 1..(Len(s) + Len(t)) :
            (s \o t)[k] = IF k <= Len(s) THEN s[k] ELSE t[k - Len(s)]
  BY <1>1, ConcatProperties
<1>4. File(s \o t) BY <1>3 DEF File
<1>5. \A k \in 1..(n + m) : (s \o t)[k] = IF k <= n THEN s[k] ELSE t[k - n]
  BY <1>3
<1>6. Len(s \o t) = n + m BY <1>3
<1> QED BY <1>2, <1>4, <1>5, <1>6

LEMMA Part ==
    ASSUME NEW s, NEW i \in Int, NEW j \in Int, File(s), 1 <= i, i <= j + 1, j <= Len(s)
    PROVE  /\ File(SubSeq(s, i, j)) /\ Len(SubSeq(s, i, j)) = j + 1 - i
           /\ \A k \in 1..(j + 1 - i) : SubSeq(s, i, j)[k] = s[i - 1 + k]
<1>1. s \in Seq(LINES) BY DEF File
<1>2. \A k \in i..j : s[k] \in LINES
  <2>1. Len(s) \in Nat BY FileLen
  <2> QED BY <1>1, <2>1, ElementOfSeq
<1>3. /\ SubSeq(s, i, j) \in Seq(LINES)
      /\ Len(SubSeq(s, i, j)) = IF i <= j THEN j - i + 1 ELSE 0
      /\ \A k \in 1..(j - i + 1) : SubSeq(s, i, j)[k] = s[i + k - 1]
  BY <1>2, SubSeqProperties
<1>4. File(SubSeq(s, i, j)) BY <1>3 DEF File
<1>5. Len(SubSeq(s, i, j)) = j + 1 - i BY <1>3
<1>6. ASSUME NEW k \in Int, k \in 1..(j + 1 - i) PROVE SubSeq(s, i, j)[k] = s[i - 1 + k]
  <2>1. k \in 1..(j - i + 1) /\ i + k - 1 = i - 1 + k BY <1>6
  <2> QED BY <1>3, <2>1
<1> QED BY <1>4, <1>5, <1>6

LEMMA SpliceIs ==
    ASSUME NEW s, NEW new, NEW i \in Int, NEW j \in Int, NEW n \in Int,
           File(s), File(new), 1 <= i, i <= j + 1, j <= Len(s), Len(new) = n
    PROVE  /\ File(Splice(s, i, j, new))
           /\ Len(Splice(s, i, j, new)) = Len(s) + (n + i - 1 - j)
           /\ \A k \in 1..(i - 1) : Splice(s, i, j, new)[k] = s[k]
           /\ \A k \in (j + 1)..Len(s) : Splice(s, i, j, new)[k + (n + i - 1 - j)] = s[k]
           /\ \A k \in i..(i - 1 + n) : Splice(s, i, j, new)[k] = new[k - (i - 1)]
<1> DEFINE A0 == SubSeq(s, 1, i - 1)
           B0 == SubSeq(s, j + 1, Len(s))
<1>1. Len(s) \in Nat /\ n \in Nat BY FileLen
<1>2. Splice(s, i, j, new) = (A0 \o new) \o B0 BY DEF Splice
<1>3. File(A0) /\ Len(A0) = i - 1 /\ \A k \in 1..(i - 1) : A0[k] = s[k]
  <2>1. PICK p \in Int, q \in Int : p = 1 /\ q = i - 1 OBVIOUS
  <2>2. 1 <= p /\ p <= q + 1 /\ q <= Len(s) BY <1>1, <2>1
  <2>3. /\ File(SubSeq(s, p, q)) /\ Len(SubSeq(s, p, q)) = q + 1 - p
        /\ \A k \in 1..(q + 1 - p) : SubSeq(s, p, q)[k] = s[p - 1 + k]
    BY <2>2, Part
  <2>4. A0 = SubSeq(s, p, q) /\ p - 1 = 0 /\ q + 1 - p = i - 1 BY <2>1
  <2> HIDE DEF A0
  <2> QED BY <2>3, <2>4
<1>4. File(B0) /\ Len(B0) = Len(s) - j /\ \A k \in 1..(Len(s) - j) : B0[k] = s[j + k]
  <2>1. PICK p \in Int, q \in Int : p = j + 1 /\ q = Len(s) BY <1>1
  <2>2. 1 <= p /\ p <= q + 1 /\ q <= Len(s) BY <1>1, <2>1
  <2>3. /\ File(SubSeq(s, p, q)) /\ Len(SubSeq(s, p, q)) = q + 1 - p
        /\ \A k \in 1..(q + 1 - p) : SubSeq(s, p, q)[k] = s[p - 1 + k]
    BY <2>2, Part
  <2>4. B0 = SubSeq(s, p, q) /\ p - 1 = j /\ q + 1 - p = Len(s) - j BY <1>1, <2>1
  <2> HIDE DEF B0
  <2> QED BY <2>3, <2>4
<1> HIDE DEF A0, B0
<1>5. PICK A : A = A0 OBVIOUS
<1>6. PICK B : B = B0 OBVIOUS
<1>7. PICK C : C = A \o new OBVIOUS
<1>8. PICK t : t = C \o B OBVIOUS
<1>9. PICK a \in Int, b \in Int, c \in Int : a = i - 1 /\ b = Len(s) - j /\ c = a + n BY <1>1
<1>10. File(A) /\ Len(A) = a /\ \A k \in 1..a : A[k] = s[k] BY <1>3, <1>5, <1>9
<1>11. File(B) /\ Len(B) = b /\ \A k \in 1..b : B[k] = s[j + k] BY <1>4, <1>6, <1>9
<1>12. /\ File(C) /\ Len(C) = a + n
       /\ \A k \in 1..a : C[k] = A[k]
       /\ \A k \in (a + 1)..(a + n) : C[k] = new[k - a]
  <2>1. File(A) /\ Len(A) = a BY <1>10
  <2>2. /\ File(A \o new) /\ Len(A \o new) = a + n
        /\ \A k \in 1..a : (A \o new)[k] = A[k]
        /\ \A k \in (a + 1)..(a + n) : (A \o new)[k] = new[k - a]
    BY <2>1, Cat
  <2> QED BY <1>7, <2>2
<1>13. Len(C) = c BY <1>9, <1>12
<1>14. /\ File(t) /\ Len(t) = c + b
       /\ \A k \in 1..c : t[k] = C[k]
       /\ \A k \in (c + 1)..(c + b) : t[k] = B[k - c]
  <2>1. File(C) /\ Len(C) = c /\ File(B) /\ Len(B) = b BY <1>11, <1>12, <1>13
  <2>2. /\ File(C \o B) /\ Len(C \o B) = c + b
        /\ \A k \in 1..c : (C \o B)[k] = C[k]
        /\ \A k \in (c + 1)..(c + b) : (C \o B)[k] = B[k - c]
    BY <2>1, Cat
  <2> QED BY <1>8, <2>2
<1>15. t = Splice(s, i, j, new) BY <1>2, <1>5, <1>6, <1>7, <1>8
<1>16. Len(t) = Len(s) + (n + i - 1 - j) BY <1>1, <1>9, <1>14
<1>17. \A k \in 1..(i - 1) : t[k] = s[k] BY <1>1, <1>9, <1>10, <1>12, <1>14
<1>18. ASSUME NEW k \in Int, k \in (j + 1)..Len(s) PROVE t[k + (n + i - 1 - j)] = s[k]
  <2>1. PICK m \in Int : m = k + (n + i - 1 - j) OBVIOUS
  <2>2. m \in (c + 1)..(c + b) BY <1>1, <1>9, <1>18, <2>1
  <2>3. t[m] = B[m - c] BY <1>14, <2>2
  <2>4. PICK q \in Int : q = m - c OBVIOUS
  <2>5. q \in 1..b /\ j + q = k BY <1>1, <1>9, <1>18, <2>1, <2>4
  <2>6. B[q] = s[k] BY <1>11, <2>5
  <2> QED BY <2>1, <2>3, <2>4, <2>6
<1>19. ASSUME NEW k \in Int, k \in i..(i - 1 + n) PROVE t[k] = new[k - (i - 1)]
  <2>1. k \in (a + 1)..(a + n) /\ k \in 1..c BY <1>1, <1>9, <1>19
  <2> QED BY <1>9, <1>12, <1>14, <2>1
<1>20. \A k \in (j + 1)..Len(s) : t[k + (n + i - 1 - j)] = s[k] BY <1>1, <1>18
<1>21. \A k \in i..(i - 1 + n) : t[k] = new[k - (i - 1)] BY <1>19
<1> QED BY <1>14, <1>15, <1>16, <1>17, <1>20, <1>21
Lists(r, n) == r = [k \in 1..n |-> r[k]]

LEMMA FunFile ==
    ASSUME NEW r, NEW n \in Int, 0 <= n, Lists(r, n), \A k \in 1..n : r[k] \in LINES
    PROVE  File(r) /\ Len(r) = n
<1>1. r = [k \in 1..n |-> r[k]] BY DEF Lists
<1>2. [k \in 1..n |-> r[k]] \in Seq(LINES) /\ Len([k \in 1..n |-> r[k]]) = n OBVIOUS
<1> QED BY <1>1, <1>2 DEF File

LEMMA FileLine ==
    ASSUME NEW s, NEW k \in Int, File(s), 1 <= k, k <= Len(s)
    PROVE  s[k] \in LINES
<1>1. s \in Seq(LINES) /\ k \in 1..Len(s) BY FileLen DEF File
<1> QED BY <1>1, ElementOfSeq

LEMMA LineIs ==
    ASSUME NEW role, NEW id, NEW n, NEW ind, id \in Ids, n \in Nat, ind \in Nat
    PROVE  /\ role \in {"user", "wrapper", "original", "variant", "carbonize"}
                /\ (role # "user" => id \in Sessions)
              => Open(role, id, n, ind) \in LINES
           /\ Shut(ind) \in LINES
           /\ Text(id, ind) \in LINES
           /\ role \in {"original", "start", "end", "insert", "carbonize-start", "carbonize-end"}
                /\ id \in Sessions => Mark(role, id, ind) \in LINES
           /\ id \in Sessions => Css(id, ind) \in LINES
           /\ Blank \in LINES
<1>1. NoId \in Ids BY DEF Ids
<1> DEFINE Made(tg, rl, i, m, d) ==
             [tag |-> tg, role |-> rl, id |-> i, n |-> m, ind |-> d, new |-> FALSE]
<1>m. ASSUME NEW tg \in Tags, NEW rl \in Roles, NEW i \in Ids, NEW m \in Nat, NEW d \in Nat,
             LineOK(Made(tg, rl, i, m, d))
      PROVE  Made(tg, rl, i, m, d) \in LINES
  BY <1>m DEF LINES
<1>2. ASSUME role \in {"user", "wrapper", "original", "variant", "carbonize"},
             role # "user" => id \in Sessions
      PROVE  Open(role, id, n, ind) \in LINES
  <2>1. role \in Roles /\ "div" \in Tags BY <1>2 DEF Roles, Scaffold, Tags
  <2>2. LineOK(Made("div", role, id, n, ind)) BY <1>2 DEF LineOK, Scaffold
  <2>3. Made("div", role, id, n, ind) \in LINES BY <1>m, <2>1, <2>2
  <2> QED BY <2>3 DEF Open, Line
<1>3. Shut(ind) \in LINES
  <2>1. LineOK(Made("/div", "any", NoId, 0, ind)) BY DEF LineOK, Scaffold
  <2>3. "/div" \in Tags /\ "any" \in Roles /\ 0 \in Nat BY DEF Roles, Tags
  <2>2. Made("/div", "any", NoId, 0, ind) \in LINES BY <1>1, <1>m, <2>1, <2>3
  <2> QED BY <2>2 DEF Shut, Line
<1>4. Text(id, ind) \in LINES
  <2>1. LineOK(Made("text", "user", id, 0, ind)) BY DEF LineOK, Scaffold
  <2>3. "text" \in Tags /\ "user" \in Roles /\ 0 \in Nat BY DEF Roles, Tags
  <2>2. Made("text", "user", id, 0, ind) \in LINES BY <1>m, <2>1, <2>3
  <2> QED BY <2>2 DEF Text, Line
<1>5. ASSUME role \in {"original", "start", "end", "insert", "carbonize-start", "carbonize-end"},
             id \in Sessions
      PROVE  Mark(role, id, ind) \in LINES
  <2>1. role \in Roles /\ "mark" \in Tags /\ 0 \in Nat BY <1>5 DEF Roles, Scaffold, Tags
  <2>2. LineOK(Made("mark", role, id, 0, ind)) BY <1>5 DEF LineOK, Scaffold
  <2>3. Made("mark", role, id, 0, ind) \in LINES BY <1>m, <2>1, <2>2
  <2> QED BY <2>3 DEF Mark, Line
<1>6. ASSUME id \in Sessions PROVE Css(id, ind) \in LINES
  <2>1. LineOK(Made("style", "css", id, 0, ind)) BY <1>6 DEF LineOK, Scaffold
  <2>3. "style" \in Tags /\ "css" \in Roles /\ 0 \in Nat BY DEF Roles, Scaffold, Tags
  <2>2. Made("style", "css", id, 0, ind) \in LINES BY <1>m, <2>1, <2>3
  <2> QED BY <2>2 DEF Css, Line
<1>7. Blank \in LINES
  <2>1. LineOK(Made("blank", "any", NoId, 0, 0)) BY DEF LineOK, Scaffold
  <2>3. "blank" \in Tags /\ "any" \in Roles /\ 0 \in Nat BY DEF Roles, Tags
  <2>2. Made("blank", "any", NoId, 0, 0) \in LINES BY <1>1, <1>m, <2>1, <2>3
  <2> QED BY <2>2 DEF Blank, Line
<1> QED BY <1>2, <1>3, <1>4, <1>5, <1>6, <1>7

\* What is looked for in a line.
LEMMA LineHas ==
    ASSUME NEW role, NEW id, NEW n, NEW ind
    PROVE  /\ Open(role, id, n, ind).tag = "div" /\ Open(role, id, n, ind).role = role
           /\ Open(role, id, n, ind).id = id
           /\ Shut(ind).tag = "/div" /\ Shut(ind).role = "any"
           /\ Text(id, ind).tag = "text" /\ Text(id, ind).role = "user"
           /\ Mark(role, id, ind).tag = "mark" /\ Mark(role, id, ind).role = role
           /\ Mark(role, id, ind).id = id
           /\ Css(id, ind).tag = "style" /\ Css(id, ind).role = "css" /\ Css(id, ind).id = id
           /\ Blank.tag = "blank" /\ Blank.role = "any"
BY DEF Open, Shut, Text, Mark, Css, Blank, Line

LEMMA LikeTrans ==
    ASSUME NEW l, NEW m, NEW o, Like(l, m), Like(m, o)
    PROVE  Like(l, o)
BY DEF Like

LEMMA WithEditsIs ==
    ASSUME NEW s, File(s)
    PROVE  /\ File(WithEdits(s)) /\ Len(WithEdits(s)) = Len(s)
           /\ \A k \in 1..Len(s) : Like(s[k], WithEdits(s)[k])
<1>1. Len(s) \in Nat /\ DOMAIN s = 1..Len(s) BY FileIs
<1>2. ASSUME NEW k \in 1..Len(s)
      PROVE  WithEdits(s)[k] \in LINES /\ Like(s[k], WithEdits(s)[k])
  <2>1. s[k] \in LINES BY <1>1, FileLine
  <2>2. WithEdits(s)[k] = s[k] \/ WithEdits(s)[k] = [s[k] EXCEPT !.new = TRUE]
    BY <1>1 DEF WithEdits
  <2>3. PICK l \in LINES : l = s[k] BY <2>1
  <2>4. [l EXCEPT !.new = TRUE] \in LINES BY DEF LINES, LineOK
  <2>5. l.tag = [l EXCEPT !.new = TRUE].tag /\ l.role = [l EXCEPT !.new = TRUE].role
        /\ l.id = [l EXCEPT !.new = TRUE].id /\ l.n = [l EXCEPT !.new = TRUE].n
    BY DEF LINES
  <2>6. Like(l, [l EXCEPT !.new = TRUE]) BY <2>5 DEF Like
  <2> QED BY <2>2, <2>3, <2>4, <2>6, LikeItself
<1>3. Lists(WithEdits(s), Len(s)) BY <1>1 DEF WithEdits, Lists
<1>4. File(WithEdits(s)) /\ Len(WithEdits(s)) = Len(s)
  <2>5. Len(s) \in Int BY <1>1
  <2>1. PICK n \in Int : n = Len(s) BY <2>5
  <2>4. PICK r : r = WithEdits(s) OBVIOUS
  <2>2. 0 <= n /\ Lists(r, n) /\ \A k \in 1..n : r[k] \in LINES BY <1>1, <1>2, <1>3, <2>1, <2>4
  <2>3. File(r) /\ Len(r) = n BY <2>2, FunFile
  <2> QED BY <2>1, <2>3, <2>4
<1> QED BY <1>2, <1>4

LEMMA ReindentIs ==
    ASSUME NEW s, NEW base, File(s), base \in Nat
    PROVE  /\ File(Reindent(s, base)) /\ Len(Reindent(s, base)) = Len(s)
           /\ \A k \in 1..Len(s) : Like(s[k], Reindent(s, base)[k])
<1>1. Len(s) \in Nat /\ DOMAIN s = 1..Len(s) BY FileIs
<1>2. ASSUME NEW k \in 1..Len(s)
      PROVE  Reindent(s, base)[k] \in LINES /\ Like(s[k], Reindent(s, base)[k])
  <2>1. s[k] \in LINES BY <1>1, FileLine
  <2>2. CASE IsBlank(s[k])
    <3>1. Reindent(s, base)[k] = Blank BY <1>1, <2>2 DEF Reindent
    <3>2. Blank \in LINES BY LineIs DEF Ids
    <3>3. LineOK(s[k]) /\ s[k].tag = "blank" BY <2>1, <2>2 DEF LINES, IsBlank
    <3>4. Blank.tag = "blank" /\ Blank.role = "any" BY LineHas
    <3>5. s[k].role = "any" BY <3>3 DEF LineOK
    <3>6. Like(s[k], Blank) BY <3>3, <3>4, <3>5 DEF Like
    <3> QED BY <3>1, <3>2, <3>6
  <2>3. CASE ~IsBlank(s[k])
    <3> DEFINE S == {s[i].ind : i \in {i \in DOMAIN s : ~IsBlank(s[i])}}
    <3>1. S \subseteq Nat
      <4> SUFFICES ASSUME NEW i \in 1..Len(s) PROVE s[i].ind \in Nat BY <1>1
      <4>1. s[i] \in LINES BY <1>1, FileLine
      <4> QED BY <4>1 DEF LINES
    <3>2. s[k].ind \in S BY <1>1, <2>3
    <3>3. MinIndent(s) = First(S) BY DEF MinIndent
    <3> HIDE DEF S
    <3>4. First(S) \in S /\ First(S) <= s[k].ind BY <3>1, <3>2, FirstIs
    <3>5. PICK l \in LINES : l = s[k] BY <2>1
    <3>6. PICK m \in Nat : m = base + l.ind - MinIndent(s)
      <4>1. MinIndent(s) \in Nat /\ l.ind \in Nat /\ MinIndent(s) <= l.ind
        BY <3>1, <3>2, <3>3, <3>4, <3>5
      <4> QED BY <4>1
    <3>7. Reindent(s, base)[k] = [l EXCEPT !.ind = m]
      <4>1. Reindent(s, base)[k] = [s[k] EXCEPT !.ind = base + @ - MinIndent(s)]
        BY <1>1, <2>3 DEF Reindent
      <4>2. [l EXCEPT !.ind = base + @ - MinIndent(s)] = [l EXCEPT !.ind = base + l.ind - MinIndent(s)]
        BY DEF LINES
      <4> QED BY <3>5, <3>6, <4>1, <4>2
    <3>8. [l EXCEPT !.ind = m] \in LINES BY DEF LINES, LineOK
    <3>9. l.tag = [l EXCEPT !.ind = m].tag /\ l.role = [l EXCEPT !.ind = m].role
          /\ l.id = [l EXCEPT !.ind = m].id /\ l.n = [l EXCEPT !.ind = m].n
      BY DEF LINES
    <3>10. Like(l, [l EXCEPT !.ind = m]) BY <3>9 DEF Like
    <3> QED BY <3>5, <3>7, <3>8, <3>10
  <2> QED BY <2>2, <2>3
<1>3. Lists(Reindent(s, base), Len(s)) BY <1>1 DEF Reindent, Lists
<1>4. File(Reindent(s, base)) /\ Len(Reindent(s, base)) = Len(s)
  <2>5. Len(s) \in Int BY <1>1
  <2>1. PICK n \in Int : n = Len(s) BY <2>5
  <2>4. PICK r : r = Reindent(s, base) OBVIOUS
  <2>2. 0 <= n /\ Lists(r, n) /\ \A k \in 1..n : r[k] \in LINES BY <1>1, <1>2, <1>3, <2>1, <2>4
  <2>3. File(r) /\ Len(r) = n BY <2>2, FunFile
  <2> QED BY <2>1, <2>3, <2>4
<1> QED BY <1>2, <1>4
LEMMA Pair ==
    ASSUME NEW l, NEW m, l \in LINES, m \in LINES
    PROVE  /\ File(<<l, m>>) /\ Len(<<l, m>>) = 2 /\ <<l, m>>[1] = l /\ <<l, m>>[2] = m
           /\ File(<<l>>) /\ Len(<<l>>) = 1 /\ <<l>>[1] = l
           /\ File(<<>>) /\ Len(<<>>) = 0
BY DEF File

\* Two lines before x and two after it.
LEMMA Around ==
    ASSUME NEW l1, NEW l2, NEW s, NEW l3, NEW l4, NEW n \in Int, l1 \in LINES, l2 \in LINES,
           l3 \in LINES, l4 \in LINES, File(s), Len(s) = n
    PROVE  /\ File(<<l1, l2>> \o s \o <<l3, l4>>)
           /\ Len(<<l1, l2>> \o s \o <<l3, l4>>) = n + 4
           /\ (<<l1, l2>> \o s \o <<l3, l4>>)[1] = l1
           /\ (<<l1, l2>> \o s \o <<l3, l4>>)[2] = l2
           /\ \A k \in 3..(n + 2) : (<<l1, l2>> \o s \o <<l3, l4>>)[k] = s[k - 2]
           /\ (<<l1, l2>> \o s \o <<l3, l4>>)[n + 3] = l3
           /\ (<<l1, l2>> \o s \o <<l3, l4>>)[n + 4] = l4
<1>0. n \in Nat BY FileLen
<1>1. PICK a : a = <<l1, l2>> OBVIOUS
<1>2. PICK b : b = <<l3, l4>> OBVIOUS
<1>3. File(a) /\ Len(a) = 2 /\ a[1] = l1 /\ a[2] = l2 BY <1>1, Pair
<1>4. File(b) /\ Len(b) = 2 /\ b[1] = l3 /\ b[2] = l4 BY <1>2, Pair
<1>5. PICK p \in Int, q \in Int : p = 2 /\ q = n + 2 OBVIOUS
<1>6. PICK c : c = a \o s OBVIOUS
<1>7. /\ File(c) /\ Len(c) = p + n
      /\ \A k \in 1..p : c[k] = a[k]
      /\ \A k \in (p + 1)..(p + n) : c[k] = s[k - p]
  <2>1. Len(a) = p BY <1>3, <1>5
  <2>2. /\ File(a \o s) /\ Len(a \o s) = p + n
        /\ \A k \in 1..p : (a \o s)[k] = a[k]
        /\ \A k \in (p + 1)..(p + n) : (a \o s)[k] = s[k - p]
    BY <1>3, <2>1, Cat
  <2> QED BY <1>6, <2>2
<1>8. PICK d : d = c \o b OBVIOUS
<1>9. /\ File(d) /\ Len(d) = q + p
      /\ \A k \in 1..q : d[k] = c[k]
      /\ \A k \in (q + 1)..(q + p) : d[k] = b[k - q]
  <2>1. Len(b) = p /\ Len(c) = q BY <1>4, <1>5, <1>7
  <2>2. /\ File(c \o b) /\ Len(c \o b) = q + p
        /\ \A k \in 1..q : (c \o b)[k] = c[k]
        /\ \A k \in (q + 1)..(q + p) : (c \o b)[k] = b[k - q]
    BY <1>4, <1>7, <2>1, Cat
  <2> QED BY <1>8, <2>2
<1>10. d = <<l1, l2>> \o s \o <<l3, l4>> BY <1>1, <1>2, <1>6, <1>8
<1>11. Len(d) = n + 4 BY <1>5, <1>9
<1>12. d[1] = l1 /\ d[2] = l2 BY <1>0, <1>3, <1>5, <1>7, <1>9
<1>13. \A k \in 3..(n + 2) : d[k] = s[k - 2] BY <1>0, <1>5, <1>7, <1>9
<1>14. d[n + 3] = l3 /\ d[n + 4] = l4
  <2>1. d[n + 3] = b[n + 3 - q] /\ d[n + 4] = b[n + 4 - q] BY <1>0, <1>5, <1>9
  <2>2. n + 3 - q = 1 /\ n + 4 - q = 2 BY <1>5
  <2> QED BY <1>4, <2>1, <2>2
<1> QED BY <1>9, <1>10, <1>11, <1>12, <1>13, <1>14
-----------------------------------------------------------------------------
(* The block that a session begins with.                                   *)

\* The lines after p, up to q, are what may be inside of the block of z: children
\* that are the session's, or empty lines.
Inner(t, z, p, q) ==
    /\ Balanced(t, p, q)
    /\ \A k \in (p + 1)..q :
        k \in Own(t, z) => Depth(t, k - 1) = Depth(t, p) /\ t[k].role \in Inside
    /\ \A k \in (p + 1)..q :
        Depth(t, k - 1) = Depth(t, p) => k \in Own(t, z) \/ t[k].tag = "blank"

\* The two lines before them and the two after, of Wrapper.
Wrapped(x, t, z, p, q) ==
    LET w == IF x THEN p - 1 ELSE p
        start == IF x THEN p ELSE p - 1
        end == IF x THEN q + 1 ELSE q + 2
        v == IF x THEN q + 2 ELSE q + 1
    IN  /\ Is(t, w, "wrapper", z) /\ t[w].tag = "div"
        /\ Is(t, start, "start", z) /\ t[start].tag = "mark"
        /\ Is(t, end, "end", z) /\ t[end].tag = "mark"
        /\ t[v].tag = "/div" /\ t[v].role = "any"

LEMMA WrapperBlock ==
    ASSUME NEW x, NEW t, NEW z, NEW p \in Int, NEW q \in Int, File(t), x \in BOOLEAN,
           2 <= p, p <= q, q + 2 <= Len(t), Wrapped(x, t, z, p, q), Inner(t, z, p, q),
           \A k \in Own(t, z) : p - 1 <= k /\ k <= q + 2
    PROVE  Stands("open", x, t, z) /\ Balanced(t, p - 2, q + 2)
<1>0. Len(t) \in Nat /\ DOMAIN t = 1..Len(t) /\ \A k \in Own(t, z) : k \in Int
  BY FileIs DEF Own
<1>1. /\ Depth(t, q) = Depth(t, p) /\ \A k \in p..q : Depth(t, k) >= Depth(t, p)
      /\ \A k \in (p + 1)..q :
            k \in Own(t, z) => Depth(t, k - 1) = Depth(t, p) /\ t[k].role \in Inside
      /\ \A k \in (p + 1)..q :
            Depth(t, k - 1) = Depth(t, p) => k \in Own(t, z) \/ t[k].tag = "blank"
  BY DEF Inner, Balanced
<1>2. PICK p1 \in Int, p2 \in Int, q1 \in Int, q2 \in Int :
        p1 = p - 1 /\ p2 = p - 2 /\ q1 = q + 1 /\ q2 = q + 2
  OBVIOUS
<1>3. /\ Depth(t, p1) = Depth(t, p2) + Step(t[p1])
      /\ Depth(t, p) = Depth(t, p1) + Step(t[p])
      /\ Depth(t, q1) = Depth(t, q) + Step(t[q1])
      /\ Depth(t, q2) = Depth(t, q1) + Step(t[q2])
  <2>1. p1 \in Nat /\ p2 \in Nat /\ q \in Nat /\ q1 \in Nat BY <1>2
  <2>2. p2 + 1 = p1 /\ p1 + 1 = p /\ q + 1 = q1 /\ q1 + 1 = q2 BY <1>2
  <2>3. Depth(t, p2 + 1) = Depth(t, p2) + Step(t[p2 + 1]) BY <2>1, DepthNext
  <2>4. Depth(t, p1 + 1) = Depth(t, p1) + Step(t[p1 + 1]) BY <2>1, DepthNext
  <2>5. Depth(t, q + 1) = Depth(t, q) + Step(t[q + 1]) BY <2>1, DepthNext
  <2>6. Depth(t, q1 + 1) = Depth(t, q1) + Step(t[q1 + 1]) BY <2>1, DepthNext
  <2> QED BY <2>2, <2>3, <2>4, <2>5, <2>6
<1>4. /\ Depth(t, p) \in Int /\ Depth(t, p1) \in Int /\ Depth(t, p2) \in Int
      /\ Depth(t, q) \in Int /\ Depth(t, q1) \in Int /\ Depth(t, q2) \in Int
  BY DepthType
<1>5. p1 - 1 = p2 /\ p - 1 = p1 /\ q1 - 1 = q /\ q2 - 1 = q1 BY <1>2
<1>6. \A k \in p..q : Depth(t, k) \in Int /\ Depth(t, k) >= Depth(t, p)
  <2>1. ASSUME NEW k \in p..q PROVE Depth(t, k) \in Int /\ Depth(t, k) >= Depth(t, p)
    <3>1. k \in Int OBVIOUS
    <3> QED BY <1>1, <3>1, DepthType
  <2> QED BY <2>1
<1>7. CASE x
  <2>1. /\ Is(t, p1, "wrapper", z) /\ t[p1].tag = "div" /\ Is(t, p, "start", z)
        /\ t[p].tag = "mark" /\ Is(t, q1, "end", z) /\ t[q1].tag = "mark"
        /\ t[q2].tag = "/div" /\ t[q2].role = "any"
    BY <1>2, <1>7 DEF Wrapped
  <2>2. p1 \in Own(t, z) /\ p \in Own(t, z) /\ q1 \in Own(t, z) /\ q2 \notin Own(t, z)
    BY <2>1 DEF Is, Own, Scaffold
  <2>3. Step(t[p1]) = 1 /\ Step(t[p]) = 0 /\ Step(t[q1]) = 0 /\ Step(t[q2]) = -1
    BY <2>1 DEF Step
  <2>4. /\ Depth(t, p1) = Depth(t, p2) + 1 /\ Depth(t, p) = Depth(t, p1)
        /\ Depth(t, q) = Depth(t, p1) /\ Depth(t, q1) = Depth(t, p1)
        /\ Depth(t, q2) = Depth(t, p2)
    BY <1>1, <1>3, <1>4, <2>3
  <2>5. Elem(t, p1, q2)
    <3>1. \A k \in p1..(q2 - 1) : k = p1 \/ k \in p..q \/ k = q1 BY <1>2
    <3>2. \A k \in p1..(q2 - 1) : Depth(t, k) > Depth(t, p1 - 1) BY <1>4, <1>5, <1>6, <2>4, <3>1
    <3> QED BY <1>0, <1>2, <1>5, <2>1, <2>4, <3>2 DEF Elem
  <2>6. Frame(t, z, p1, p1, q2, q2, TRUE)
    <3>1. p1 \in 1..p1 /\ q2 \in q2..Len(t) BY <1>0, <1>2
    <3>2. \A k \in Own(t, z) : k = p1 \/ k = p \/ k \in (p + 1)..q \/ k = q1
      BY <1>0, <1>2, <2>2
    <3>3. ASSUME NEW k \in Own(t, z), k # p1
          PROVE  k \in (p1 + 1)..(q2 - 1) /\ Depth(t, k - 1) = Depth(t, p1)
      BY <1>1, <1>2, <1>5, <2>4, <3>2, <3>3
    <3>4. \A k \in Own(t, z) : k \in p1..p1 \/
             (k \in (p1 + 1)..(q2 - 1) /\ Depth(t, k - 1) = Depth(t, p1))
      BY <3>3
    <3>5. ASSUME NEW k \in (p1 + 1)..(q2 - 1), Depth(t, k - 1) = Depth(t, p1)
          PROVE  k \in Own(t, z) \/ t[k].tag = "blank"
      <4>1. k = p \/ k = q1 \/ k \in (p + 1)..q BY <1>2
      <4> QED BY <1>1, <2>2, <2>4, <3>5, <4>1
    <3>6. \A k \in p1..(p1 - 1) : FALSE OBVIOUS
    <3>7. \A k \in (q2 + 1)..q2 : FALSE OBVIOUS
    <3>8. t[p1].tag # "style" BY <2>1
    <3> QED BY <2>2, <2>5, <3>1, <3>4, <3>5, <3>6, <3>7, <3>8 DEF Frame
  <2>7. BlockLines(t, z, p1, p, q1)
    <3>1. \A k \in Own(t, z) : k = p1 \/ k = p \/ k \in (p + 1)..q \/ k = q1
      BY <1>0, <1>2, <2>2
    <3>2. \A k \in Own(t, z) : k \in {p1, p, q1} \/ t[k].role \in Inside BY <1>1, <3>1
    <3> QED BY <2>1, <3>2 DEF BlockLines
  <2>8. p1 + 1 = p /\ q2 - 1 = q1 BY <1>2
  <2>9. BlockLines(t, z, p1, p1 + 1, q2 - 1) BY <2>7, <2>8
  <2>10. BlockAt(x, t, z, p1, q2) BY <1>7, <2>6, <2>9 DEF BlockAt
  <2>11. Stands("open", x, t, z) BY <2>10, BlockStands
  <2>12. \A k \in p2..q2 : k = p2 \/ k = p1 \/ k \in p..q \/ k = q1 \/ k = q2 BY <1>2
  <2>13. ASSUME NEW k \in p2..q2 PROVE Depth(t, k) >= Depth(t, p2)
    <3>1. CASE k \in p..q
      <4>1. Depth(t, k) \in Int /\ Depth(t, k) >= Depth(t, p) BY <1>6, <3>1
      <4> QED BY <1>4, <2>4, <4>1
    <3>2. CASE k = p2 \/ k = p1 \/ k = q1 \/ k = q2 BY <1>4, <2>4, <3>2
    <3> QED BY <2>12, <3>1, <3>2
  <2>14. Balanced(t, p2, q2) BY <2>4, <2>13 DEF Balanced
  <2> QED BY <1>2, <2>11, <2>14
<1>8. CASE ~x
  <2>1. /\ Is(t, p, "wrapper", z) /\ t[p].tag = "div" /\ Is(t, p1, "start", z)
        /\ t[p1].tag = "mark" /\ Is(t, q2, "end", z) /\ t[q2].tag = "mark"
        /\ t[q1].tag = "/div" /\ t[q1].role = "any"
    BY <1>2, <1>8 DEF Wrapped
  <2>2. p1 \in Own(t, z) /\ p \in Own(t, z) /\ q2 \in Own(t, z) /\ q1 \notin Own(t, z)
    BY <2>1 DEF Is, Own, Scaffold
  <2>3. Step(t[p]) = 1 /\ Step(t[p1]) = 0 /\ Step(t[q2]) = 0 /\ Step(t[q1]) = -1
    BY <2>1 DEF Step
  <2>4. /\ Depth(t, p) = Depth(t, p1) + 1 /\ Depth(t, p1) = Depth(t, p2)
        /\ Depth(t, q) = Depth(t, p) /\ Depth(t, q1) = Depth(t, p1)
        /\ Depth(t, q2) = Depth(t, p1)
    BY <1>1, <1>3, <1>4, <2>3
  <2>5. Elem(t, p, q1)
    <3>1. \A k \in p..(q1 - 1) : k \in p..q BY <1>2
    <3>2. \A k \in p..(q1 - 1) : Depth(t, k) > Depth(t, p - 1) BY <1>4, <1>5, <1>6, <2>4, <3>1
    <3> QED BY <1>0, <1>2, <1>5, <2>1, <2>4, <3>2 DEF Elem
  <2>6. Frame(t, z, p1, p, q1, q2, TRUE)
    <3>1. p1 \in 1..p /\ q2 \in q1..Len(t) BY <1>0, <1>2
    <3>2. \A k \in Own(t, z) : k = p1 \/ k = p \/ k \in (p + 1)..q \/ k = q2
      BY <1>0, <1>2, <2>2
    <3>3. \A k \in Own(t, z) : k \in p1..p \/ k \in (q1 + 1)..q2
             \/ (k \in (p + 1)..(q1 - 1) /\ Depth(t, k - 1) = Depth(t, p))
      BY <1>1, <1>2, <3>2
    <3>5. \A k \in (p + 1)..(q1 - 1) :
             Depth(t, k - 1) = Depth(t, p) => k \in Own(t, z) \/ t[k].tag = "blank"
      BY <1>1, <1>2
    <3>6. \A k \in p1..(p - 1) : t[k].tag \in {"mark", "style", "blank"} /\ k \in Own(t, z)
      BY <1>2, <2>1, <2>2
    <3>7. \A k \in (q1 + 1)..q2 : t[k].tag = "mark" /\ k \in Own(t, z)
      BY <1>2, <2>1, <2>2
    <3>8. t[p1].tag # "style" BY <2>1
    <3> QED BY <2>2, <2>5, <3>1, <3>3, <3>5, <3>6, <3>7, <3>8 DEF Frame
  <2>7. BlockLines(t, z, p, p1, q2)
    <3>1. \A k \in Own(t, z) : k = p1 \/ k = p \/ k \in (p + 1)..q \/ k = q2
      BY <1>0, <1>2, <2>2
    <3>2. \A k \in Own(t, z) : k \in {p, p1, q2} \/ t[k].role \in Inside BY <1>1, <3>1
    <3> QED BY <2>1, <3>2 DEF BlockLines
  <2>8. p - 1 = p1 /\ q1 + 1 = q2 BY <1>2
  <2>10. BlockAt(x, t, z, p, q1)
    <3>1. BlockAt(x, t, z, p, q1)
            = (Frame(t, z, p - 1, p, q1, q1 + 1, TRUE) /\ BlockLines(t, z, p, p - 1, q1 + 1))
      BY <1>8 DEF BlockAt
    <3> QED BY <2>6, <2>7, <2>8, <3>1
  <2>11. Stands("open", x, t, z) BY <2>10, BlockStands
  <2>12. \A k \in p2..q2 : k = p2 \/ k = p1 \/ k \in p..q \/ k = q1 \/ k = q2 BY <1>2
  <2>13. ASSUME NEW k \in p2..q2 PROVE Depth(t, k) >= Depth(t, p2)
    <3>1. CASE k \in p..q
      <4>1. Depth(t, k) \in Int /\ Depth(t, k) >= Depth(t, p) BY <1>6, <3>1
      <4> QED BY <1>4, <2>4, <4>1
    <3>2. CASE k = p2 \/ k = p1 \/ k = q1 \/ k = q2 BY <1>4, <2>4, <3>2
    <3> QED BY <2>12, <3>1, <3>2
  <2>14. Balanced(t, p2, q2) BY <2>4, <2>13 DEF Balanced
  <2> QED BY <1>2, <2>11, <2>14
<1> QED BY <1>7, <1>8
\* The lines are balanced wherever they are copied to.
LEMMA BalancedCopy ==
    ASSUME NEW s, NEW t, NEW i \in Int, NEW j \in Int, NEW e \in Int, 0 <= i, i <= j, 0 <= i + e,
           Alike(s, t, i, j, e), Balanced(s, i, j)
    PROVE  Balanced(t, i + e, j + e)
<1>0. i \in Nat /\ j \in Nat OBVIOUS
<1>1. \A k \in i..j : Depth(t, k + e) - Depth(t, i + e) = Depth(s, k) - Depth(s, i)
  BY <1>0, DepthShifts
<1>2. ASSUME NEW k \in Int, k \in i..j
      PROVE  /\ Depth(t, k + e) >= Depth(t, i + e)
             /\ Depth(s, k) = Depth(s, i) => Depth(t, k + e) = Depth(t, i + e)
  <2>1. Depth(t, k + e) - Depth(t, i + e) = Depth(s, k) - Depth(s, i) BY <1>1, <1>2
  <2>2. Depth(s, k) >= Depth(s, i) BY <1>2 DEF Balanced
  <2>3. k + e \in Int /\ i + e \in Int BY <1>2
  <2>4. /\ Depth(t, k + e) \in Int /\ Depth(t, i + e) \in Int /\ Depth(s, k) \in Int
        /\ Depth(s, i) \in Int
    BY <2>3, DepthType
  <2> QED BY <2>1, <2>2, <2>4
<1>3. ASSUME NEW m \in Int, m \in (i + e)..(j + e) PROVE Depth(t, m) >= Depth(t, i + e)
  <2>1. PICK k \in Int : k \in i..j /\ k + e = m
    <3>1. m - e \in i..j /\ m - e + e = m BY <1>3
    <3> QED BY <3>1
  <2> QED BY <1>2, <2>1
<1>4. Depth(t, j + e) = Depth(t, i + e)
  <2>1. Depth(s, j) = Depth(s, i) BY DEF Balanced
  <2> QED BY <1>2, <2>1
<1> QED BY <1>3, <1>4 DEF Balanced

LEMMA BalancedOne ==
    ASSUME NEW s, NEW i \in Int, 1 <= i, Step(s[i]) = 0
    PROVE  Balanced(s, i - 1, i)
<1>1. PICK h \in Int : h = i - 1 OBVIOUS
<1>2. h \in Nat /\ h + 1 = i BY <1>1
<1>3. Depth(s, h + 1) = Depth(s, h) + Step(s[h + 1]) BY <1>2, DepthNext
<1>4. Depth(s, h) \in Int BY DepthType
<1>5. Depth(s, i) = Depth(s, h) BY <1>2, <1>3, <1>4
<1>6. \A k \in h..i : k = h \/ k = i BY <1>1
<1>7. Balanced(s, h, i) BY <1>4, <1>5, <1>6 DEF Balanced
<1> QED BY <1>1, <1>7

LEMMA BalancedElem ==
    ASSUME NEW s, NEW w \in Int, NEW v \in Int, File(s), Elem(s, w, v)
    PROVE  Balanced(s, w - 1, v) /\ Balanced(s, w, v - 1) /\ 1 <= w /\ w < v /\ v <= Len(s)
<1>1. /\ w \in Nat \ {0} /\ v \in Nat \ {0} /\ v <= Len(s) /\ w < v
      /\ Depth(s, w - 1) \in Int
      /\ Depth(s, w) = Depth(s, w - 1) + 1
      /\ Depth(s, v - 1) = Depth(s, w)
      /\ \A k \in w..(v - 1) : Depth(s, k) >= Depth(s, w)
      /\ Depth(s, v) = Depth(s, w - 1)
  BY ElemDepths DEF Elem
<1>2. ASSUME NEW k \in (w - 1)..v PROVE Depth(s, k) >= Depth(s, w - 1)
  <2>1. CASE k \in w..(v - 1)
    <3>1. Depth(s, k) >= Depth(s, w) /\ Depth(s, k) \in Int BY <1>1, <2>1, DepthType
    <3> QED BY <1>1, <3>1
  <2>2. CASE k = w - 1 \/ k = v BY <1>1, <2>2
  <2> QED BY <1>1, <2>1, <2>2
<1>3. Balanced(s, w - 1, v) BY <1>1, <1>2 DEF Balanced
<1>4. Balanced(s, w, v - 1) BY <1>1 DEF Balanced
<1> QED BY <1>1, <1>3, <1>4

LEMMA PickIs ==
    ASSUME NEW s, NEW y \in Int, NEW e, File(s), Nested(s), y \in DOMAIN s, Pickable(s, y),
           e = Closing(s, y)
    PROVE  /\ e \in Int /\ 1 <= y /\ y <= e /\ e <= Len(s) /\ Balanced(s, y - 1, e)
           /\ \A z : Foreign(s, z, y, e)
<1>1. y \in 1..Len(s) /\ Len(s) \in Nat /\ LineOK(s[y]) BY FileIs
<1>2. \A z : y \notin Own(s, z) BY <1>1 DEF Pickable, Own, LineOK, Scaffold
<1>3. CASE s[y].tag = "text"
  <2>1. e = y BY <1>3 DEF Closing
  <2>2. Step(s[y]) = 0 BY <1>3 DEF Step
  <2>3. Balanced(s, y - 1, y) BY <1>1, <2>2, BalancedOne
  <2>4. \A z : Foreign(s, z, y, e) BY <1>2, <1>3, <2>1 DEF Foreign
  <2> QED BY <1>1, <2>1, <2>3, <2>4
<1>4. CASE s[y].tag = "div"
  <2>1. Elem(s, y, e) BY <1>4, ElemOf
  <2>2. e \in Int BY <1>1, <2>1 DEF Elem
  <2>3. Balanced(s, y - 1, e) /\ y < e /\ e <= Len(s) BY <2>1, <2>2, BalancedElem
  <2>4. \A z : Foreign(s, z, y, e) BY <1>2, <1>4, <2>1 DEF Foreign
  <2> QED BY <1>1, <2>2, <2>3, <2>4
<1> QED BY <1>3, <1>4 DEF Pickable

\* Inside of the block of a session that wraps: the original.
LEMMA OriginalInner ==
    ASSUME NEW t, NEW z, NEW p \in Int, NEW q \in Int, File(t), 0 <= p, p + 2 <= q, q + 2 <= Len(t),
           Is(t, p + 1, "original", z), t[p + 1].tag = "mark",
           Is(t, p + 2, "original", z), t[p + 2].tag = "div",
           Balanced(t, p + 2, q), \A k \in (p + 3)..q : k \notin Own(t, z),
           t[q + 1].tag = "/div", t[q + 1].role = "any",
           Is(t, q + 2, "insert", z), t[q + 2].tag = "mark"
    PROVE  Inner(t, z, p, q + 2)
<1>1. PICK p1 \in Int, p2 \in Int, q1 \in Int, q2 \in Int :
        p1 = p + 1 /\ p2 = p + 2 /\ q1 = q + 1 /\ q2 = q + 2
  OBVIOUS
<1>2. /\ Is(t, p1, "original", z) /\ t[p1].tag = "mark"
      /\ Is(t, p2, "original", z) /\ t[p2].tag = "div"
      /\ t[q1].tag = "/div" /\ t[q1].role = "any"
      /\ Is(t, q2, "insert", z) /\ t[q2].tag = "mark"
  BY <1>1
<1>3. p1 \in Own(t, z) /\ p2 \in Own(t, z) /\ q2 \in Own(t, z) /\ q1 \notin Own(t, z)
  BY <1>2 DEF Is, Own, Scaffold
<1>4. /\ Depth(t, p1) = Depth(t, p) + Step(t[p1])
      /\ Depth(t, p2) = Depth(t, p1) + Step(t[p2])
      /\ Depth(t, q1) = Depth(t, q) + Step(t[q1])
      /\ Depth(t, q2) = Depth(t, q1) + Step(t[q2])
  <2>1. p \in Nat /\ p1 \in Nat /\ q \in Nat /\ q1 \in Nat BY <1>1
  <2>2. p + 1 = p1 /\ p1 + 1 = p2 /\ q + 1 = q1 /\ q1 + 1 = q2 BY <1>1
  <2>3. Depth(t, p + 1) = Depth(t, p) + Step(t[p + 1]) BY <2>1, DepthNext
  <2>4. Depth(t, p1 + 1) = Depth(t, p1) + Step(t[p1 + 1]) BY <2>1, DepthNext
  <2>5. Depth(t, q + 1) = Depth(t, q) + Step(t[q + 1]) BY <2>1, DepthNext
  <2>6. Depth(t, q1 + 1) = Depth(t, q1) + Step(t[q1 + 1]) BY <2>1, DepthNext
  <2> QED BY <2>2, <2>3, <2>4, <2>5, <2>6
<1>5. Step(t[p1]) = 0 /\ Step(t[p2]) = 1 /\ Step(t[q1]) = -1 /\ Step(t[q2]) = 0
  BY <1>2 DEF Step
<1>6. /\ Depth(t, p) \in Int /\ Depth(t, p1) \in Int /\ Depth(t, p2) \in Int
      /\ Depth(t, q) \in Int /\ Depth(t, q1) \in Int /\ Depth(t, q2) \in Int
  BY DepthType
<1>7. \A k \in p2..q : Depth(t, k) >= Depth(t, p2) BY <1>1 DEF Balanced
<1>14. Depth(t, q) = Depth(t, p2) BY <1>1 DEF Balanced
<1>8. /\ Depth(t, p1) = Depth(t, p) /\ Depth(t, p2) = Depth(t, p) + 1
      /\ Depth(t, q) = Depth(t, p) + 1 /\ Depth(t, q1) = Depth(t, p)
      /\ Depth(t, q2) = Depth(t, p)
  <2>1. Depth(t, p1) = Depth(t, p) BY <1>4, <1>5, <1>6
  <2>2. Depth(t, p2) = Depth(t, p) + 1 BY <1>4, <1>5, <1>6, <2>1
  <2>3. Depth(t, q) = Depth(t, p) + 1 BY <1>14, <2>2
  <2>4. Depth(t, q1) = Depth(t, p) BY <1>4, <1>5, <1>6, <2>3
  <2> QED BY <1>4, <1>5, <1>6, <2>1, <2>2, <2>3, <2>4
<1>9. ASSUME NEW k \in Int, k \in p2..q PROVE Depth(t, k) > Depth(t, p)
  <2>1. Depth(t, k) >= Depth(t, p2) /\ Depth(t, k) \in Int BY <1>7, <1>9, DepthType
  <2> QED BY <1>6, <1>8, <2>1
<1>10. \A k \in p..q2 : k = p \/ k = p1 \/ k \in p2..q \/ k = q1 \/ k = q2 BY <1>1
<1>11. ASSUME NEW k \in p..q2 PROVE Depth(t, k) >= Depth(t, p)
  <2>1. CASE k \in p2..q
    <3>1. Depth(t, k) > Depth(t, p) /\ Depth(t, k) \in Int BY <1>9, <2>1, DepthType
    <3> QED BY <1>6, <3>1
  <2>2. CASE k = p \/ k = p1 \/ k = q1 \/ k = q2
    <3>1. Depth(t, k) = Depth(t, p) BY <1>8, <2>2
    <3> QED BY <1>6, <3>1
  <2> QED BY <1>10, <2>1, <2>2
<1>12. Balanced(t, p, q2) BY <1>8, <1>11 DEF Balanced
<1>13. ASSUME NEW k \in (p + 1)..q2
       PROVE  /\ k \in Own(t, z) => Depth(t, k - 1) = Depth(t, p) /\ t[k].role \in Inside
              /\ Depth(t, k - 1) = Depth(t, p) => k \in Own(t, z) \/ t[k].tag = "blank"
  <2>1. k = p1 \/ k = p2 \/ k \in (p + 3)..q \/ k = q1 \/ k = q2 BY <1>1
  <2>2. CASE k = p1
    <3>1. k - 1 = p BY <1>1, <2>2
    <3> QED BY <1>2, <1>3, <2>2, <3>1 DEF Is, Inside
  <2>3. CASE k = p2
    <3>1. k - 1 = p1 BY <1>1, <2>3
    <3> QED BY <1>2, <1>3, <1>8, <2>3, <3>1 DEF Is, Inside
  <2>4. CASE k \in (p + 3)..q
    <3>1. k - 1 \in p2..q /\ k - 1 \in Int BY <1>1, <2>4
    <3>2. Depth(t, k - 1) > Depth(t, p) /\ Depth(t, k - 1) \in Int BY <1>9, <3>1, DepthType
    <3>3. Depth(t, k - 1) # Depth(t, p) BY <1>6, <3>2
    <3> QED BY <2>4, <3>3
  <2>5. CASE k = q1
    <3>1. k - 1 = q /\ q \in p2..q BY <1>1, <2>5
    <3>2. Depth(t, q) # Depth(t, p) BY <1>6, <1>8
    <3> QED BY <1>3, <2>5, <3>1, <3>2
  <2>6. CASE k = q2
    <3>1. k - 1 = q1 BY <1>1, <2>6
    <3> QED BY <1>2, <1>3, <1>8, <2>6, <3>1 DEF Is, Inside
  <2> QED BY <2>1, <2>2, <2>3, <2>4, <2>5, <2>6
<1>15. Inner(t, z, p, q2) BY <1>12, <1>13 DEF Inner
<1> QED BY <1>1, <1>15

\* Inside of the block of a session that inserts.
LEMMA InsertInner ==
    ASSUME NEW t, NEW z, NEW p \in Int, File(t), 0 <= p, p + 1 <= Len(t),
           Is(t, p + 1, "insert", z), t[p + 1].tag = "mark"
    PROVE  Inner(t, z, p, p + 1)
<1>1. PICK q \in Int : q = p + 1 OBVIOUS
<1>2. Is(t, q, "insert", z) /\ t[q].tag = "mark" /\ 1 <= q BY <1>1
<1>3. Step(t[q]) = 0 BY <1>2 DEF Step
<1>4. Balanced(t, q - 1, q) BY <1>2, <1>3, BalancedOne
<1>5. q - 1 = p /\ \A k \in (p + 1)..q : k = q BY <1>1
<1>6. q \in Own(t, z) BY <1>2 DEF Is, Own, Scaffold
<1>7. t[q].role \in Inside BY <1>2 DEF Is, Inside
<1>8. Inner(t, z, p, q) BY <1>4, <1>5, <1>6, <1>7 DEF Inner
<1> QED BY <1>1, <1>8

LEMMA WrapperIs ==
    ASSUME NEW z, NEW inner, NEW ind, NEW n \in Int, z \in Sessions, File(inner), Len(inner) = n,
           ind \in Nat
    PROVE  /\ File(Wrapper(z, inner, ind)) /\ Len(Wrapper(z, inner, ind)) = n + 4
           /\ \A k \in 3..(n + 2) : Wrapper(z, inner, ind)[k] = inner[k - 2]
           /\ jsx => /\ Wrapper(z, inner, ind)[1] = Open("wrapper", z, 0, ind)
                     /\ Wrapper(z, inner, ind)[2] = Mark("start", z, ind + 2)
                     /\ Wrapper(z, inner, ind)[n + 3] = Mark("end", z, ind + 2)
                     /\ Wrapper(z, inner, ind)[n + 4] = Shut(ind)
           /\ ~jsx => /\ Wrapper(z, inner, ind)[1] = Mark("start", z, ind)
                      /\ Wrapper(z, inner, ind)[2] = Open("wrapper", z, 0, ind)
                      /\ Wrapper(z, inner, ind)[n + 3] = Shut(ind)
                      /\ Wrapper(z, inner, ind)[n + 4] = Mark("end", z, ind)
<1>1. z \in Ids /\ 0 \in Nat BY DEF Ids
<1>2. PICK d : d \in Nat /\ d = ind + 2 OBVIOUS
<1>3. CASE jsx
  <2>1. /\ Open("wrapper", z, 0, ind) \in LINES /\ Mark("start", z, d) \in LINES
        /\ Mark("end", z, d) \in LINES /\ Shut(ind) \in LINES
    BY <1>1, <1>2, LineIs
  <2>2. PICK l1, l2, l3, l4 : /\ l1 = Open("wrapper", z, 0, ind) /\ l2 = Mark("start", z, d)
                              /\ l3 = Mark("end", z, d) /\ l4 = Shut(ind)
    OBVIOUS
  <2>3. Wrapper(z, inner, ind) = <<l1, l2>> \o inner \o <<l3, l4>>
    BY <1>2, <1>3, <2>2 DEF Wrapper
  <2>4. l1 \in LINES /\ l2 \in LINES /\ l3 \in LINES /\ l4 \in LINES BY <2>1, <2>2
  <2>5. /\ File(<<l1, l2>> \o inner \o <<l3, l4>>)
        /\ Len(<<l1, l2>> \o inner \o <<l3, l4>>) = n + 4
        /\ (<<l1, l2>> \o inner \o <<l3, l4>>)[1] = l1
        /\ (<<l1, l2>> \o inner \o <<l3, l4>>)[2] = l2
        /\ \A k \in 3..(n + 2) : (<<l1, l2>> \o inner \o <<l3, l4>>)[k] = inner[k - 2]
        /\ (<<l1, l2>> \o inner \o <<l3, l4>>)[n + 3] = l3
        /\ (<<l1, l2>> \o inner \o <<l3, l4>>)[n + 4] = l4
    BY <2>4, Around
  <2> QED BY <1>2, <1>3, <2>2, <2>3, <2>5
<1>4. CASE ~jsx
  <2>1. /\ Open("wrapper", z, 0, ind) \in LINES /\ Mark("start", z, ind) \in LINES
        /\ Mark("end", z, ind) \in LINES /\ Shut(ind) \in LINES
    BY <1>1, LineIs
  <2>2. PICK l1, l2, l3, l4 : /\ l2 = Open("wrapper", z, 0, ind) /\ l1 = Mark("start", z, ind)
                              /\ l4 = Mark("end", z, ind) /\ l3 = Shut(ind)
    OBVIOUS
  <2>3. Wrapper(z, inner, ind) = <<l1, l2>> \o inner \o <<l3, l4>>
    BY <1>4, <2>2 DEF Wrapper
  <2>4. l1 \in LINES /\ l2 \in LINES /\ l3 \in LINES /\ l4 \in LINES BY <2>1, <2>2
  <2>5. /\ File(<<l1, l2>> \o inner \o <<l3, l4>>)
        /\ Len(<<l1, l2>> \o inner \o <<l3, l4>>) = n + 4
        /\ (<<l1, l2>> \o inner \o <<l3, l4>>)[1] = l1
        /\ (<<l1, l2>> \o inner \o <<l3, l4>>)[2] = l2
        /\ \A k \in 3..(n + 2) : (<<l1, l2>> \o inner \o <<l3, l4>>)[k] = inner[k - 2]
        /\ (<<l1, l2>> \o inner \o <<l3, l4>>)[n + 3] = l3
        /\ (<<l1, l2>> \o inner \o <<l3, l4>>)[n + 4] = l4
    BY <2>4, Around
  <2> QED BY <1>4, <2>2, <2>3, <2>5
<1> QED BY <1>3, <1>4

\* t is s with the block of z, around "inner", for its lines after i up to j.
Placed(s, t, i, j, z, inner, n) ==
    /\ File(t) /\ Len(t) = Len(s) + (n + 4 + i - j)
    /\ \A k \in 1..i : t[k] = s[k]
    /\ \A k \in (j + 1)..Len(s) : t[k + (n + 4 + i - j)] = s[k]
    /\ \A k \in (i + 3)..(i + 2 + n) : t[k] = inner[k - (i + 2)]
    /\ Wrapped(jsx, t, z, i + 2, i + 2 + n)
    /\ \A k \in Own(t, z) : i + 1 <= k /\ k <= i + 4 + n
    /\ \A k \in {i + 1, i + 2, i + n + 3, i + n + 4} : t[k].role \in Scaffold => t[k].id = z

LEMMA PlacedIs ==
    ASSUME NEW s, NEW i \in Int, NEW j \in Int, NEW z, NEW inner, NEW ind, NEW n \in Int,
           File(s), 0 <= i, i <= j, j <= Len(s), z \in Sessions, File(inner), Len(inner) = n,
           ind \in Nat, jsx \in BOOLEAN, Own(s, z) = {}
    PROVE  Placed(s, Splice(s, i + 1, j, Wrapper(z, inner, ind)), i, j, z, inner, n)
<1>1. PICK b : b = Wrapper(z, inner, ind) OBVIOUS
<1>2. /\ File(b) /\ Len(b) = n + 4
      /\ \A k \in 3..(n + 2) : b[k] = inner[k - 2]
      /\ jsx => /\ b[1] = Open("wrapper", z, 0, ind) /\ b[2] = Mark("start", z, ind + 2)
                /\ b[n + 3] = Mark("end", z, ind + 2) /\ b[n + 4] = Shut(ind)
      /\ ~jsx => /\ b[1] = Mark("start", z, ind) /\ b[2] = Open("wrapper", z, 0, ind)
                 /\ b[n + 3] = Shut(ind) /\ b[n + 4] = Mark("end", z, ind)
  BY <1>1, WrapperIs
<1>3. PICK i1 \in Int, n4 \in Int : i1 = i + 1 /\ n4 = n + 4 OBVIOUS
<1>4. PICK t : t = Splice(s, i1, j, b) OBVIOUS
<1>5. /\ File(t) /\ Len(t) = Len(s) + (n4 + i1 - 1 - j)
      /\ \A k \in 1..(i1 - 1) : t[k] = s[k]
      /\ \A k \in (j + 1)..Len(s) : t[k + (n4 + i1 - 1 - j)] = s[k]
      /\ \A k \in i1..(i1 - 1 + n4) : t[k] = b[k - (i1 - 1)]
  <2>1. 1 <= i1 /\ i1 <= j + 1 /\ Len(b) = n4 BY <1>2, <1>3
  <2>2. /\ File(Splice(s, i1, j, b))
        /\ Len(Splice(s, i1, j, b)) = Len(s) + (n4 + i1 - 1 - j)
        /\ \A k \in 1..(i1 - 1) : Splice(s, i1, j, b)[k] = s[k]
        /\ \A k \in (j + 1)..Len(s) : Splice(s, i1, j, b)[k + (n4 + i1 - 1 - j)] = s[k]
        /\ \A k \in i1..(i1 - 1 + n4) : Splice(s, i1, j, b)[k] = b[k - (i1 - 1)]
    BY <1>2, <2>1, SpliceIs
  <2> QED BY <1>4, <2>2
<1>6. n \in Nat /\ Len(s) \in Nat /\ DOMAIN s = 1..Len(s) /\ DOMAIN t = 1..Len(t) /\ Len(t) \in Nat
  BY <1>5, FileLen, FileIs
<1>7. i1 - 1 = i /\ n4 + i1 - 1 - j = n + 4 + i - j /\ i1 - 1 + n4 = i + 4 + n BY <1>3
<1>8. \A k \in 1..i : t[k] = s[k] BY <1>5, <1>7
<1>9. \A k \in (j + 1)..Len(s) : t[k + (n + 4 + i - j)] = s[k] BY <1>5, <1>7
<1>10. \A k \in (i + 1)..(i + 4 + n) : t[k] = b[k - i] BY <1>3, <1>5, <1>7
<1>11. Len(t) = Len(s) + (n + 4 + i - j) BY <1>5, <1>7
<1>12. ASSUME NEW k \in Int, k \in (i + 3)..(i + 2 + n) PROVE t[k] = inner[k - (i + 2)]
  <2>1. PICK m \in Int : m = k - i OBVIOUS
  <2>2. m \in 3..(n + 2) /\ k \in (i + 1)..(i + 4 + n) /\ m - 2 = k - (i + 2)
    BY <1>6, <1>12, <2>1
  <2> QED BY <1>2, <1>10, <2>1, <2>2
<1>13. PICK p1 \in Int, p \in Int, q \in Int, q1 \in Int, q2 \in Int :
         p1 = i + 1 /\ p = i + 2 /\ q = i + 2 + n /\ q1 = i + n + 3 /\ q2 = i + n + 4
  OBVIOUS
<1>14. t[p1] = b[1] /\ t[p] = b[2] /\ t[q1] = b[n + 3] /\ t[q2] = b[n + 4]
  <2>1. t[p1] = b[p1 - i] /\ t[p] = b[p - i] /\ t[q1] = b[q1 - i] /\ t[q2] = b[q2 - i]
    BY <1>6, <1>10, <1>13
  <2>2. p1 - i = 1 /\ p - i = 2 /\ q1 - i = n + 3 /\ q2 - i = n + 4 BY <1>13
  <2> QED BY <2>1, <2>2
<1>15. p1 \in DOMAIN t /\ p \in DOMAIN t /\ q1 \in DOMAIN t /\ q2 \in DOMAIN t
  BY <1>6, <1>11, <1>13
<1>16. p - 1 = p1 /\ q + 1 = q1 /\ q + 2 = q2 BY <1>13
<1>17. /\ Wrapped(jsx, t, z, p, q)
       /\ \A k \in {p1, p, q1, q2} : t[k].role \in Scaffold => t[k].id = z
  <2>1. CASE jsx
    <3>1. /\ t[p1] = Open("wrapper", z, 0, ind) /\ t[p] = Mark("start", z, ind + 2)
          /\ t[q1] = Mark("end", z, ind + 2) /\ t[q2] = Shut(ind)
      BY <1>2, <1>14, <2>1
    <3>2. /\ Is(t, p1, "wrapper", z) /\ t[p1].tag = "div" /\ Is(t, p, "start", z)
          /\ t[p].tag = "mark" /\ Is(t, q1, "end", z) /\ t[q1].tag = "mark"
          /\ t[q2].tag = "/div" /\ t[q2].role = "any"
      BY <1>15, <3>1 DEF Is, Open, Mark, Shut, Line
    <3>3. Wrapped(jsx, t, z, p, q) BY <1>16, <2>1, <3>2 DEF Wrapped
    <3> QED BY <3>2, <3>3 DEF Is, Scaffold
  <2>2. CASE ~jsx
    <3>1. /\ t[p1] = Mark("start", z, ind) /\ t[p] = Open("wrapper", z, 0, ind)
          /\ t[q1] = Shut(ind) /\ t[q2] = Mark("end", z, ind)
      BY <1>2, <1>14, <2>2
    <3>2. /\ Is(t, p, "wrapper", z) /\ t[p].tag = "div" /\ Is(t, p1, "start", z)
          /\ t[p1].tag = "mark" /\ Is(t, q2, "end", z) /\ t[q2].tag = "mark"
          /\ t[q1].tag = "/div" /\ t[q1].role = "any"
      BY <1>15, <3>1 DEF Is, Open, Mark, Shut, Line
    <3>3. Wrapped(jsx, t, z, p, q) BY <1>16, <2>2, <3>2 DEF Wrapped
    <3> QED BY <3>2, <3>3 DEF Is, Scaffold
  <2> QED BY <2>1, <2>2
<1>18. ASSUME NEW k \in Int, k \in Own(t, z) PROVE i + 1 <= k /\ k <= i + 4 + n
  <2>1. k \in 1..Len(t) /\ t[k].role \in Scaffold /\ t[k].id = z BY <1>6, <1>18 DEF Own
  <2>2. \A m \in 1..Len(s) : ~(s[m].role \in Scaffold /\ s[m].id = z) BY <1>6 DEF Own
  <2>3. ASSUME k <= i PROVE FALSE
    <3>1. k \in 1..i /\ k \in 1..Len(s) BY <1>6, <2>1, <2>3
    <3> QED BY <1>8, <2>1, <2>2, <3>1
  <2>4. ASSUME k > i + 4 + n PROVE FALSE
    <3>1. PICK m \in Int : m = k - (n + 4 + i - j) OBVIOUS
    <3>2. m \in (j + 1)..Len(s) /\ m \in 1..Len(s) /\ m + (n + 4 + i - j) = k
      BY <1>6, <1>11, <2>1, <2>4, <3>1
    <3>3. t[k] = s[m] BY <1>9, <3>2
    <3> QED BY <2>1, <2>2, <3>2, <3>3
  <2> QED BY <2>3, <2>4
<1>19. \A k \in Own(t, z) : k \in Int BY <1>6 DEF Own
<1>20. Placed(s, t, i, j, z, inner, n)
  <2>1. \A k \in (i + 3)..(i + 2 + n) : t[k] = inner[k - (i + 2)] BY <1>12
  <2>2. \A k \in Own(t, z) : i + 1 <= k /\ k <= i + 4 + n BY <1>18, <1>19
  <2>3. Wrapped(jsx, t, z, i + 2, i + 2 + n) BY <1>13, <1>17
  <2>4. \A k \in {i + 1, i + 2, i + n + 3, i + n + 4} : t[k].role \in Scaffold => t[k].id = z
    BY <1>13, <1>17
  <2> QED BY <1>5, <1>8, <1>9, <1>11, <2>1, <2>2, <2>3, <2>4 DEF Placed
<1> QED BY <1>1, <1>3, <1>4, <1>20

LEMMA BlockBegun ==
    ASSUME NEW s, NEW t, NEW i \in Int, NEW j \in Int, NEW z, NEW inner, NEW n \in Int,
           0 <= i, i <= j, j <= Len(s), 0 <= n, File(s), jsx \in BOOLEAN,
           Placed(s, t, i, j, z, inner, n), Inner(t, z, i + 2, i + 2 + n)
    PROVE  Stands("open", jsx, t, z) /\ Balanced(t, i, i + 4 + n)
<1>1. /\ File(t) /\ Len(t) = Len(s) + (n + 4 + i - j)
      /\ Wrapped(jsx, t, z, i + 2, i + 2 + n)
      /\ \A k \in Own(t, z) : i + 1 <= k /\ k <= i + 4 + n
  BY DEF Placed
<1>2. Len(s) \in Nat BY FileLen
<1>3. PICK p \in Int, q \in Int : p = i + 2 /\ q = i + 2 + n OBVIOUS
<1>4. Wrapped(jsx, t, z, p, q) /\ Inner(t, z, p, q) BY <1>1, <1>3
<1>5. 2 <= p /\ p <= q /\ q + 2 <= Len(t) BY <1>1, <1>2, <1>3
<1>6. \A k \in Own(t, z) : p - 1 <= k /\ k <= q + 2 BY <1>1, <1>3
<1>7. Stands("open", jsx, t, z) /\ Balanced(t, p - 2, q + 2)
  BY <1>1, <1>4, <1>5, <1>6, WrapperBlock
<1>8. p - 2 = i /\ q + 2 = i + 4 + n BY <1>3
<1> QED BY <1>7, <1>8

\* r is the lines after i, up to j, of s.
Copies(s, i, j, r) ==
    File(r) /\ Len(r) = j - i /\ \A k \in 1..(j - i) : Like(s[i + k], r[k])

\* r is what the lines after i, up to j, become in the original of a block.
Original(s, i, j, z, ind, r) ==
    OriginalLines(z, SubSeq(s, i + 1, j), ind)
        = <<Mark("original", z, ind + 2), Open("original", z, 0, ind + 2)>> \o r
            \o <<Shut(ind + 2), Mark("insert", z, ind + 2)>>

LEMMA OriginalIs ==
    ASSUME NEW s, NEW i \in Int, NEW j \in Int, NEW z, NEW ind, File(s), 0 <= i, i <= j,
           j <= Len(s), z \in Sessions, ind \in Nat
    PROVE  \E r : Copies(s, i, j, r) /\ Original(s, i, j, z, ind, r)
<1>1. PICK i1 \in Int, n \in Int : i1 = i + 1 /\ n = j - i OBVIOUS
<1>2. PICK x : x = SubSeq(s, i1, j) OBVIOUS
<1>3. File(x) /\ Len(x) = n /\ \A k \in 1..n : x[k] = s[i + k]
  <2>1. 1 <= i1 /\ i1 <= j + 1 BY <1>1
  <2>2. /\ File(SubSeq(s, i1, j)) /\ Len(SubSeq(s, i1, j)) = j + 1 - i1
        /\ \A k \in 1..(j + 1 - i1) : SubSeq(s, i1, j)[k] = s[i1 - 1 + k]
    BY <2>1, Part
  <2>3. j + 1 - i1 = n /\ i1 - 1 = i BY <1>1
  <2> QED BY <1>2, <2>2, <2>3
<1>4. PICK y : y = WithEdits(x) OBVIOUS
<1>5. File(y) /\ Len(y) = n /\ \A k \in 1..n : Like(x[k], y[k])
  <2>1. /\ File(WithEdits(x)) /\ Len(WithEdits(x)) = Len(x)
        /\ \A k \in 1..Len(x) : Like(x[k], WithEdits(x)[k])
    BY <1>3, WithEditsIs
  <2> QED BY <1>3, <1>4, <2>1
<1>6. PICK d : d \in Nat /\ d = ind + 4 OBVIOUS
<1>7. PICK r : r = Reindent(y, d) OBVIOUS
<1>8. File(r) /\ Len(r) = n /\ \A k \in 1..n : Like(y[k], r[k])
  <2>1. /\ File(Reindent(y, d)) /\ Len(Reindent(y, d)) = Len(y)
        /\ \A k \in 1..Len(y) : Like(y[k], Reindent(y, d)[k])
    BY <1>5, <1>6, ReindentIs
  <2> QED BY <1>5, <1>7, <2>1
<1>9. \A k \in 1..n : Like(s[i + k], r[k])
  <2> SUFFICES ASSUME NEW k \in 1..n PROVE Like(s[i + k], r[k]) OBVIOUS
  <2>1. Like(x[k], y[k]) /\ Like(y[k], r[k]) /\ x[k] = s[i + k] BY <1>3, <1>5, <1>8
  <2>2. Like(x[k], r[k]) BY <2>1, LikeTrans
  <2> QED BY <2>1, <2>2
<1>10. Copies(s, i, j, r) BY <1>1, <1>8, <1>9 DEF Copies
<1>11. r = Reindent(WithEdits(SubSeq(s, i + 1, j)), ind + 4) BY <1>1, <1>2, <1>4, <1>6, <1>7
<1>12. OriginalLines(z, SubSeq(s, i + 1, j), ind)
         = <<Mark("original", z, ind + 2), Open("original", z, 0, ind + 2)>> \o r
             \o <<Shut(ind + 2), Mark("insert", z, ind + 2)>>
  BY <1>11 DEF OriginalLines
<1> QED BY <1>10, <1>12 DEF Original

LEMMA WrapStep ==
    ASSUME NEW s, NEW t, NEW i \in Int, NEW j \in Int, NEW z, NEW ind, File(s), 0 <= i, i <= j,
           j <= Len(s), z \in Sessions, ind \in Nat, jsx \in BOOLEAN, Own(s, z) = {},
           Balanced(s, i, j),
           t = Splice(s, i + 1, j, Wrapper(z, OriginalLines(z, SubSeq(s, i + 1, j), ind), ind))
    PROVE  /\ File(t) /\ Stands("open", jsx, t, z)
           /\ Edit(s, t, i, j, 8, i, j, 4, z)
<1>0. Len(s) \in Nat /\ DOMAIN s = 1..Len(s) BY FileIs
<1>1. PICK r : Copies(s, i, j, r) /\ Original(s, i, j, z, ind, r)
  <2>1. \E r : Copies(s, i, j, r) /\ Original(s, i, j, z, ind, r) BY OriginalIs
  <2> QED BY <2>1
<1>2. PICK m \in Int : m = j - i OBVIOUS
<1>3. File(r) /\ Len(r) = m /\ \A k \in 1..m : Like(s[i + k], r[k])
  BY <1>1, <1>2 DEF Copies
<1>4. PICK d : d \in Nat /\ d = ind + 2 OBVIOUS
<1>5. PICK l1, l2, l3, l4 :
        /\ l1 = Mark("original", z, d) /\ l2 = Open("original", z, 0, d)
        /\ l3 = Shut(d) /\ l4 = Mark("insert", z, d)
  OBVIOUS
<1>6. l1 \in LINES /\ l2 \in LINES /\ l3 \in LINES /\ l4 \in LINES
  <2>1. z \in Ids /\ 0 \in Nat BY DEF Ids
  <2>2. /\ Mark("original", z, d) \in LINES /\ Mark("insert", z, d) \in LINES
        /\ Open("original", z, 0, d) \in LINES /\ Shut(d) \in LINES
    BY <1>4, <2>1, LineIs
  <2> QED BY <1>5, <2>2
<1>7. PICK inner : inner = <<l1, l2>> \o r \o <<l3, l4>> OBVIOUS
<1>8. PICK n \in Int : n = m + 4 OBVIOUS
<1>9. /\ File(inner) /\ Len(inner) = n /\ inner[1] = l1 /\ inner[2] = l2
      /\ \A k \in 3..(m + 2) : inner[k] = r[k - 2]
      /\ inner[m + 3] = l3 /\ inner[m + 4] = l4
  <2>1. /\ File(<<l1, l2>> \o r \o <<l3, l4>>)
        /\ Len(<<l1, l2>> \o r \o <<l3, l4>>) = m + 4
        /\ (<<l1, l2>> \o r \o <<l3, l4>>)[1] = l1
        /\ (<<l1, l2>> \o r \o <<l3, l4>>)[2] = l2
        /\ \A k \in 3..(m + 2) : (<<l1, l2>> \o r \o <<l3, l4>>)[k] = r[k - 2]
        /\ (<<l1, l2>> \o r \o <<l3, l4>>)[m + 3] = l3
        /\ (<<l1, l2>> \o r \o <<l3, l4>>)[m + 4] = l4
    BY <1>3, <1>6, Around
  <2> QED BY <1>7, <1>8, <2>1
<1>10. t = Splice(s, i + 1, j, Wrapper(z, inner, ind))
  BY <1>1, <1>4, <1>5, <1>7 DEF Original
<1>11. Placed(s, t, i, j, z, inner, n)
  <2>1. Placed(s, Splice(s, i + 1, j, Wrapper(z, inner, ind)), i, j, z, inner, n)
    BY <1>9, PlacedIs
  <2> QED BY <1>10, <2>1
<1>12. /\ File(t) /\ Len(t) = Len(s) + 8
       /\ \A k \in 1..i : t[k] = s[k]
       /\ \A k \in (j + 1)..Len(s) : t[k + 8] = s[k]
       /\ \A k \in (i + 3)..(j + 6) : t[k] = inner[k - (i + 2)]
       /\ \A k \in Own(t, z) : i + 1 <= k /\ k <= j + 8
       /\ \A k \in {i + 1, i + 2, j + 7, j + 8} : t[k].role \in Scaffold => t[k].id = z
  <2>1. n + 4 + i - j = 8 /\ i + 2 + n = j + 6 /\ i + 4 + n = j + 8 /\ i + n + 3 = j + 7
        /\ i + n + 4 = j + 8
    BY <1>2, <1>8
  <2> QED BY <1>11, <2>1 DEF Placed
<1>13. Len(t) \in Nat /\ DOMAIN t = 1..Len(t) BY <1>12, FileIs
<1>14. PICK p \in Int, q \in Int : p = i + 2 /\ q = j + 4 OBVIOUS
<1>15. t[p + 1] = l1 /\ t[p + 2] = l2 /\ t[q + 1] = l3 /\ t[q + 2] = l4
  <2>1. /\ t[p + 1] = inner[p + 1 - (i + 2)] /\ t[p + 2] = inner[p + 2 - (i + 2)]
        /\ t[q + 1] = inner[q + 1 - (i + 2)] /\ t[q + 2] = inner[q + 2 - (i + 2)]
    BY <1>12, <1>14
  <2>2. /\ p + 1 - (i + 2) = 1 /\ p + 2 - (i + 2) = 2 /\ q + 1 - (i + 2) = m + 3
        /\ q + 2 - (i + 2) = m + 4
    BY <1>2, <1>14
  <2> QED BY <1>9, <2>1, <2>2
<1>16. ASSUME NEW k \in Int, k \in (i + 1)..j PROVE Like(s[k], t[k + 4])
  <2>1. PICK a \in Int, b \in Int, c \in Int : a = k - i /\ b = k + 4 /\ c = a + 2 OBVIOUS
  <2>2. b \in (i + 3)..(j + 6) /\ b - (i + 2) = c /\ c \in 3..(m + 2) /\ c - 2 = a
        /\ a \in 1..m /\ i + a = k
    BY <1>2, <1>16, <2>1
  <2>3. t[b] = inner[c] BY <1>12, <2>2
  <2>4. inner[c] = r[a] BY <1>9, <2>2
  <2>5. Like(s[k], r[a]) BY <1>3, <2>2
  <2> QED BY <2>1, <2>3, <2>4, <2>5
<1>17. ASSUME NEW k \in Int, k \in (p + 3)..q PROVE k \notin Own(t, z)
  <2>1. PICK a \in Int : a = k - 4 OBVIOUS
  <2>2. a \in (i + 1)..j /\ a + 4 = k BY <1>14, <1>17, <2>1
  <2>3. Like(s[a], t[k]) BY <1>16, <2>2
  <2>4. a \in DOMAIN s BY <1>0, <2>2
  <2>5. k \in DOMAIN t BY <1>0, <1>12, <1>13, <1>14, <1>17
  <2>6. /\ t[k].role \in Scaffold => s[a].role = t[k].role /\ s[a].id = t[k].id
    BY <2>3 DEF Like, Scaffold
  <2>7. k \in Own(t, z) => a \in Own(s, z) BY <2>4, <2>6 DEF Own
  <2> QED BY <2>7
<1>18. Balanced(t, p + 2, q)
  <2>1. Alike(s, t, i, j, 4)
    <3>1. \A k \in (i + 1)..j : Like(s[k], t[k + 4]) BY <1>16
    <3> QED BY <3>1, LikeStep DEF Alike
  <2>2. PICK e \in Int : e = 4 OBVIOUS
  <2>3. 0 <= i + e /\ Alike(s, t, i, j, e) BY <2>1, <2>2
  <2>4. Balanced(t, i + e, j + e) BY <2>3, BalancedCopy
  <2>5. i + e = p + 2 /\ j + e = q BY <1>14, <2>2
  <2> QED BY <2>4, <2>5
<1>19. Inner(t, z, p, q + 2)
  <2>0. Len(t) = Len(s) + 8 BY <1>12
  <2>1. 0 <= p /\ p + 2 <= q /\ q + 2 <= Len(t) BY <1>0, <1>14, <2>0
  <2>2. /\ Is(t, p + 1, "original", z) /\ t[p + 1].tag = "mark"
        /\ Is(t, p + 2, "original", z) /\ t[p + 2].tag = "div"
        /\ t[q + 1].tag = "/div" /\ t[q + 1].role = "any"
        /\ Is(t, q + 2, "insert", z) /\ t[q + 2].tag = "mark"
    <3>1. p + 1 \in DOMAIN t /\ p + 2 \in DOMAIN t /\ q + 2 \in DOMAIN t
      BY <1>13, <2>1
    <3> QED BY <1>5, <1>15, <3>1 DEF Is, Mark, Open, Shut, Line
  <2>3. \A k \in (p + 3)..q : k \notin Own(t, z) BY <1>17
  <2> QED BY <1>12, <1>18, <2>1, <2>2, <2>3, OriginalInner
<1>20. Stands("open", jsx, t, z) /\ Balanced(t, i, j + 8)
  <2>1. i + 2 + n = q + 2 /\ i + 2 = p /\ i + 4 + n = j + 8 BY <1>2, <1>8, <1>14
  <2>2. Inner(t, z, i + 2, i + 2 + n) /\ 0 <= n BY <1>2, <1>8, <1>19, <2>1
  <2>3. Stands("open", jsx, t, z) /\ Balanced(t, i, i + 4 + n) BY <1>11, <2>2, BlockBegun
  <2> QED BY <2>1, <2>3
<1>21. ASSUME NEW k \in Int, k \in (i + 1)..(j + 8), t[k].role \in Scaffold,
              ~(i + 4 < k /\ k <= j + 4)
       PROVE  t[k].id = z
  <2>1. \/ k \in {i + 1, i + 2, j + 7, j + 8} \/ k = p + 1 \/ k = p + 2 \/ k = q + 1 \/ k = q + 2
    BY <1>14, <1>21
  <2>2. CASE k \in {i + 1, i + 2, j + 7, j + 8} BY <1>12, <1>21, <2>2
  <2>3. CASE k = p + 1 \/ k = p + 2 \/ k = q + 1 \/ k = q + 2
    <3>1. t[k] = l1 \/ t[k] = l2 \/ t[k] = l3 \/ t[k] = l4 BY <1>15, <2>3
    <3>2. l1.id = z /\ l2.id = z /\ l3.role = "any" /\ l4.id = z
      BY <1>5 DEF Mark, Open, Shut, Line
    <3> QED BY <1>21, <3>1, <3>2 DEF Scaffold
  <2> QED BY <2>1, <2>2, <2>3
<1>22. Edit(s, t, i, j, 8, i, j, 4, z)
  <2>1. \A k \in (i + 1)..j : Like(s[k], t[k + 4]) BY <1>16
  <2>2. \A k \in (i + 1)..(j + 8) :
            t[k].role \in Scaffold /\ ~(i + 4 < k /\ k <= j + 4) => t[k].id = z
    BY <1>21
  <2>3. i <= j + 8 /\ i <= i + 4 /\ j + 4 <= j + 8 BY <1>0
  <2> QED BY <1>12, <1>20, <2>1, <2>2, <2>3 DEF Edit
<1> QED BY <1>12, <1>20, <1>22
LEMMA BalancedNone == ASSUME NEW s, NEW i \in Int PROVE Balanced(s, i, i)
<1>1. Depth(s, i) \in Int BY DepthType
<1>2. \A k \in i..i : k = i OBVIOUS
<1> QED BY <1>1, <1>2 DEF Balanced

LEMMA InsertStep ==
    ASSUME NEW s, NEW t, NEW i \in Int, NEW z, NEW ind, File(s), 0 <= i, i <= Len(s),
           z \in Sessions, ind \in Nat, jsx \in BOOLEAN, Own(s, z) = {},
           t = Splice(s, i + 1, i, Wrapper(z, <<Mark("insert", z, ind + 2)>>, ind))
    PROVE  /\ File(t) /\ Stands("open", jsx, t, z)
           /\ Edit(s, t, i, i, 5, i, i, 0, z)
<1>0. Len(s) \in Nat /\ DOMAIN s = 1..Len(s) BY FileIs
<1>1. PICK n \in Int : n = 1 OBVIOUS
<1>2. PICK d : d \in Nat /\ d = ind + 2 OBVIOUS
<1>3. PICK l : l = Mark("insert", z, d) OBVIOUS
<1>4. l \in LINES
  <2>1. z \in Ids /\ 0 \in Nat BY DEF Ids
  <2>2. Mark("insert", z, d) \in LINES BY <1>2, <2>1, LineIs
  <2> QED BY <1>3, <2>2
<1>5. PICK inner : inner = <<l>> OBVIOUS
<1>6. File(inner) /\ Len(inner) = n /\ inner[1] = l
  <2>1. File(<<l>>) /\ Len(<<l>>) = 1 /\ <<l>>[1] = l BY <1>4, Pair
  <2> QED BY <1>1, <1>5, <2>1
<1>7. Placed(s, t, i, i, z, inner, n)
  <2>1. i <= i OBVIOUS
  <2>2. Placed(s, Splice(s, i + 1, i, Wrapper(z, inner, ind)), i, i, z, inner, n)
    BY <1>6, <2>1, PlacedIs
  <2> QED BY <1>2, <1>3, <1>5, <2>2
<1>8. /\ File(t) /\ Len(t) = Len(s) + 5
      /\ \A k \in 1..i : t[k] = s[k]
      /\ \A k \in (i + 1)..Len(s) : t[k + 5] = s[k]
      /\ \A k \in (i + 3)..(i + 3) : t[k] = inner[k - (i + 2)]
      /\ \A k \in {i + 1, i + 2, i + 4, i + 5} : t[k].role \in Scaffold => t[k].id = z
  <2>1. n + 4 + i - i = 5 /\ i + 2 + n = i + 3 /\ i + n + 3 = i + 4 /\ i + n + 4 = i + 5
    BY <1>1
  <2> QED BY <1>7, <2>1 DEF Placed
<1>9. Len(t) \in Nat /\ DOMAIN t = 1..Len(t) BY <1>8, FileIs
<1>10. PICK p \in Int, q \in Int : p = i + 2 /\ q = i + 3 OBVIOUS
<1>11. t[q] = l
  <2>1. q \in (i + 3)..(i + 3) /\ q - (i + 2) = 1 BY <1>10
  <2> QED BY <1>6, <1>8, <2>1
<1>12. 0 <= p /\ q <= Len(t) /\ p + 1 = q /\ q \in DOMAIN t
  <2>1. Len(t) = Len(s) + 5 BY <1>8
  <2> QED BY <1>0, <1>9, <1>10, <2>1
<1>13. t[q].tag = "mark" /\ t[q].role = "insert" /\ t[q].id = z
  BY <1>3, <1>11 DEF Mark, Line
<1>14. Inner(t, z, p, q)
  <2>1. Is(t, p + 1, "insert", z) /\ t[p + 1].tag = "mark" /\ p + 1 <= Len(t)
    BY <1>12, <1>13 DEF Is
  <2>2. Inner(t, z, p, p + 1) BY <1>8, <1>12, <2>1, InsertInner
  <2> QED BY <1>12, <2>2
<1>15. Stands("open", jsx, t, z) /\ Balanced(t, i, i + 5)
  <2>1. i + 2 + n = q /\ i + 2 = p /\ i + 4 + n = i + 5 BY <1>1, <1>10
  <2>2. Inner(t, z, i + 2, i + 2 + n) /\ 0 <= n BY <1>1, <1>14, <2>1
  <2>3. i <= i OBVIOUS
  <2>4. Stands("open", jsx, t, z) /\ Balanced(t, i, i + 4 + n)
    BY <1>7, <2>2, <2>3, BlockBegun
  <2> QED BY <2>1, <2>4
<1>16. ASSUME NEW k \in Int, k \in (i + 1)..(i + 5), t[k].role \in Scaffold PROVE t[k].id = z
  <2>1. k \in {i + 1, i + 2, i + 4, i + 5} \/ k = q BY <1>10, <1>16
  <2> QED BY <1>8, <1>13, <1>16, <2>1
<1>17. Edit(s, t, i, i, 5, i, i, 0, z)
  <2>1. \A k \in (i + 1)..i : Like(s[k], t[k + 0]) OBVIOUS
  <2>2. \A k \in (i + 1)..(i + 5) :
            t[k].role \in Scaffold /\ ~(i + 0 < k /\ k <= i + 0) => t[k].id = z
    BY <1>16
  <2>3. i <= i + 5 /\ i <= i + 0 /\ i + 0 <= i + 5 /\ i <= i OBVIOUS
  <2>4. Balanced(s, i, i) BY BalancedNone
  <2> QED BY <1>8, <1>15, <2>1, <2>2, <2>3, <2>4 DEF Edit
<1> QED BY <1>8, <1>15, <1>17
-----------------------------------------------------------------------------
(* The variants.                                                           *)

\* The lines after p, up to q, are of session z or of none, and may be inside of
\* its block.
Grown(t, z, p, q) ==
    /\ Inner(t, z, p, q)
    /\ \A k \in (p + 1)..q : t[k].role \in Scaffold => t[k].id = z

LEMMA GrownNone == ASSUME NEW t, NEW z, NEW p \in Int PROVE Grown(t, z, p, p)
<1>1. Balanced(t, p, p) BY BalancedNone
<1>2. \A k \in (p + 1)..p : FALSE OBVIOUS
<1> QED BY <1>1, <1>2 DEF Grown, Inner

LEMMA GrownCat ==
    ASSUME NEW t, NEW z, NEW p \in Int, NEW q \in Int, NEW r \in Int, p <= q, q <= r,
           Grown(t, z, p, q), Grown(t, z, q, r)
    PROVE  Grown(t, z, p, r)
<1>1. /\ Depth(t, q) = Depth(t, p) /\ \A k \in p..q : Depth(t, k) >= Depth(t, p)
      /\ Depth(t, r) = Depth(t, q) /\ \A k \in q..r : Depth(t, k) >= Depth(t, q)
  BY DEF Grown, Inner, Balanced
<1>2. /\ Depth(t, r) = Depth(t, p)
      /\ \A k \in p..r : Depth(t, k) >= Depth(t, p)
  <2>1. \A k \in p..r : k \in p..q \/ k \in q..r OBVIOUS
  <2> QED BY <1>1, <2>1
<1>3. Balanced(t, p, r) BY <1>2 DEF Balanced
<1>4. \A k \in (p + 1)..r : k \in (p + 1)..q \/ k \in (q + 1)..r OBVIOUS
<1>5. ASSUME NEW k \in (p + 1)..r
      PROVE  /\ k \in Own(t, z) => Depth(t, k - 1) = Depth(t, p) /\ t[k].role \in Inside
             /\ Depth(t, k - 1) = Depth(t, p) => k \in Own(t, z) \/ t[k].tag = "blank"
             /\ t[k].role \in Scaffold => t[k].id = z
  <2>1. CASE k \in (p + 1)..q BY <2>1 DEF Grown, Inner
  <2>2. CASE k \in (q + 1)..r BY <1>1, <2>2 DEF Grown, Inner
  <2> QED BY <1>4, <2>1, <2>2
<1> QED BY <1>3, <1>5 DEF Grown, Inner

\* A line of CSS.
LEMMA GrownCss ==
    ASSUME NEW t, NEW z, NEW p \in Int, File(t), 0 <= p, p + 1 <= Len(t),
           Is(t, p + 1, "css", z), t[p + 1].tag = "style"
    PROVE  Grown(t, z, p, p + 1)
<1>1. PICK q \in Int : q = p + 1 OBVIOUS
<1>2. Is(t, q, "css", z) /\ t[q].tag = "style" /\ 1 <= q BY <1>1
<1>3. Step(t[q]) = 0 BY <1>2 DEF Step
<1>4. Balanced(t, q - 1, q) BY <1>2, <1>3, BalancedOne
<1>5. q - 1 = p /\ \A k \in (p + 1)..q : k = q BY <1>1
<1>6. q \in Own(t, z) BY <1>2 DEF Is, Own, Scaffold
<1>7. t[q].role \in Inside /\ t[q].id = z BY <1>2 DEF Is, Inside
<1>8. Grown(t, z, p, q) BY <1>4, <1>5, <1>6, <1>7 DEF Grown, Inner
<1> QED BY <1>1, <1>8

\* The five lines after p are a variant.
VariantAt(t, z, p) ==
    /\ t[p + 1].tag = "div" /\ t[p + 1].role = "variant" /\ t[p + 1].id = z
    /\ t[p + 2].tag = "div" /\ t[p + 2].role = "user"
    /\ t[p + 3].tag = "text" /\ t[p + 3].role = "user"
    /\ t[p + 4].tag = "/div" /\ t[p + 4].role = "any"
    /\ t[p + 5].tag = "/div" /\ t[p + 5].role = "any"

LEMMA GrownVariant ==
    ASSUME NEW t, NEW z, NEW p \in Int, File(t), 0 <= p, p + 5 <= Len(t), VariantAt(t, z, p)
    PROVE  Grown(t, z, p, p + 5)
<1>1. PICK a \in Int, b \in Int, c \in Int, d \in Int, e \in Int :
        a = p + 1 /\ b = p + 2 /\ c = p + 3 /\ d = p + 4 /\ e = p + 5
  OBVIOUS
<1>2. /\ t[a].tag = "div" /\ t[a].role = "variant" /\ t[a].id = z
      /\ t[b].tag = "div" /\ t[b].role = "user"
      /\ t[c].tag = "text" /\ t[c].role = "user"
      /\ t[d].tag = "/div" /\ t[d].role = "any"
      /\ t[e].tag = "/div" /\ t[e].role = "any"
  BY <1>1 DEF VariantAt
<1>3. /\ Depth(t, a) = Depth(t, p) + Step(t[a]) /\ Depth(t, b) = Depth(t, a) + Step(t[b])
      /\ Depth(t, c) = Depth(t, b) + Step(t[c]) /\ Depth(t, d) = Depth(t, c) + Step(t[d])
      /\ Depth(t, e) = Depth(t, d) + Step(t[e])
  <2>1. p \in Nat /\ a \in Nat /\ b \in Nat /\ c \in Nat /\ d \in Nat BY <1>1
  <2>2. p + 1 = a /\ a + 1 = b /\ b + 1 = c /\ c + 1 = d /\ d + 1 = e BY <1>1
  <2>3. Depth(t, p + 1) = Depth(t, p) + Step(t[p + 1]) BY <2>1, DepthNext
  <2>4. Depth(t, a + 1) = Depth(t, a) + Step(t[a + 1]) BY <2>1, DepthNext
  <2>5. Depth(t, b + 1) = Depth(t, b) + Step(t[b + 1]) BY <2>1, DepthNext
  <2>6. Depth(t, c + 1) = Depth(t, c) + Step(t[c + 1]) BY <2>1, DepthNext
  <2>7. Depth(t, d + 1) = Depth(t, d) + Step(t[d + 1]) BY <2>1, DepthNext
  <2> QED BY <2>2, <2>3, <2>4, <2>5, <2>6, <2>7
<1>4. Step(t[a]) = 1 /\ Step(t[b]) = 1 /\ Step(t[c]) = 0 /\ Step(t[d]) = -1 /\ Step(t[e]) = -1
  BY <1>2 DEF Step
<1>5. Depth(t, p) \in Int BY DepthType
<1>6. /\ Depth(t, a) = Depth(t, p) + 1 /\ Depth(t, b) = Depth(t, p) + 2
      /\ Depth(t, c) = Depth(t, p) + 2 /\ Depth(t, d) = Depth(t, p) + 1
      /\ Depth(t, e) = Depth(t, p)
  <2>1. Depth(t, a) = Depth(t, p) + 1 BY <1>3, <1>4
  <2>2. Depth(t, b) = Depth(t, p) + 2 BY <1>3, <1>4, <1>5, <2>1
  <2>3. Depth(t, c) = Depth(t, p) + 2 BY <1>3, <1>4, <1>5, <2>2
  <2>4. Depth(t, d) = Depth(t, p) + 1 BY <1>3, <1>4, <1>5, <2>3
  <2>5. Depth(t, e) = Depth(t, p) BY <1>3, <1>4, <1>5, <2>4
  <2> QED BY <2>1, <2>2, <2>3, <2>4, <2>5
<1>7. \A k \in p..e : k = p \/ k = a \/ k = b \/ k = c \/ k = d \/ k = e BY <1>1
<1>8. ASSUME NEW k \in p..e PROVE Depth(t, k) >= Depth(t, p)
  <2>1. \/ Depth(t, k) = Depth(t, p) \/ Depth(t, k) = Depth(t, p) + 1
        \/ Depth(t, k) = Depth(t, p) + 2
    BY <1>6, <1>7
  <2> QED BY <1>5, <2>1
<1>9. Balanced(t, p, e) BY <1>6, <1>8 DEF Balanced
<1>10. a \in Own(t, z) /\ t[a].role \in Inside
  <2>1. Len(t) \in Nat /\ DOMAIN t = 1..Len(t) BY FileIs
  <2>2. a \in DOMAIN t BY <1>1, <2>1
  <2> QED BY <1>2, <2>2 DEF Own, Scaffold, Inside
<1>11. b \notin Own(t, z) /\ c \notin Own(t, z) /\ d \notin Own(t, z) /\ e \notin Own(t, z)
  BY <1>2 DEF Own, Scaffold
<1>12. ASSUME NEW k \in (p + 1)..e
       PROVE  /\ k \in Own(t, z) => Depth(t, k - 1) = Depth(t, p) /\ t[k].role \in Inside
              /\ Depth(t, k - 1) = Depth(t, p) => k \in Own(t, z) \/ t[k].tag = "blank"
              /\ t[k].role \in Scaffold => t[k].id = z
  <2>1. \/ k = a /\ k - 1 = p
        \/ k = b /\ k - 1 = a
        \/ k = c /\ k - 1 = b
        \/ k = d /\ k - 1 = c
        \/ k = e /\ k - 1 = d
    BY <1>1
  <2>2. CASE k = a /\ k - 1 = p BY <1>2, <1>10, <2>2
  <2>3. ASSUME k = b \/ k = c \/ k = d \/ k = e, Depth(t, k - 1) # Depth(t, p)
        PROVE  /\ k \in Own(t, z) => Depth(t, k - 1) = Depth(t, p) /\ t[k].role \in Inside
               /\ Depth(t, k - 1) = Depth(t, p) => k \in Own(t, z) \/ t[k].tag = "blank"
               /\ t[k].role \in Scaffold => t[k].id = z
    <3>1. k \notin Own(t, z) BY <1>11, <2>3
    <3>2. t[k].role \notin Scaffold BY <1>2, <2>3 DEF Scaffold
    <3> QED BY <2>3, <3>1, <3>2
  <2>4. /\ Depth(t, a) # Depth(t, p) /\ Depth(t, b) # Depth(t, p) /\ Depth(t, c) # Depth(t, p)
        /\ Depth(t, d) # Depth(t, p)
    BY <1>5, <1>6
  <2> QED BY <2>1, <2>2, <2>3, <2>4
<1>13. Grown(t, z, p, e) BY <1>9, <1>12 DEF Grown, Inner
<1> QED BY <1>1, <1>13

LEMMA GrownVariants ==
    ASSUME NEW t, NEW z, NEW p \in Int, NEW n \in Int, File(t), 0 <= p, 0 <= n, p + 5 * n <= Len(t),
           \A c \in 0..(n - 1) : VariantAt(t, z, p + 5 * c)
    PROVE  Grown(t, z, p, p + 5 * n)
<1> DEFINE S == {c \in Nat : Grown(t, z, p, p + 5 * c)}
<1>1. 0 \in S
  <2>1. Grown(t, z, p, p) BY GrownNone
  <2>2. p + 5 * 0 = p OBVIOUS
  <2> QED BY <2>1, <2>2
<1>2. ASSUME NEW c \in Int, c \in 0..(n - 1), c \in S PROVE c + 1 \in S
  <2>1. PICK q \in Int : q = p + 5 * c OBVIOUS
  <2>2. Grown(t, z, p, q) /\ VariantAt(t, z, q) BY <1>2, <2>1
  <2>3. 0 <= q /\ q + 5 <= Len(t) /\ p <= q
    <3>1. Len(t) \in Nat BY FileLen
    <3>2. 5 * c + 5 <= 5 * n BY <1>2
    <3>3. 0 <= c BY <1>2
    <3> HIDE DEF S
    <3> QED BY <2>1, <3>1, <3>2, <3>3
  <2>4. Grown(t, z, q, q + 5) BY <2>2, <2>3, GrownVariant
  <2>5. PICK r \in Int : r = q + 5 OBVIOUS
  <2>6. Grown(t, z, q, r) /\ q <= r BY <2>4, <2>5
  <2>7. Grown(t, z, p, r) BY <2>2, <2>3, <2>6, GrownCat
  <2>8. r = p + 5 * (c + 1) /\ c + 1 \in Nat BY <1>2, <2>1, <2>5
  <2> QED BY <2>7, <2>8
<1>3. 0 \in Nat /\ n \in Nat OBVIOUS
<1>4. \A c \in 0..(n - 1) : c \in S => c + 1 \in S BY <1>2
<1>5. \A c \in 0..n : c \in S
  <2> HIDE DEF S
  <2> QED BY <1>1, <1>3, <1>4, Upward
<1>6. n \in S BY <1>3, <1>5
<1> QED BY <1>6
\* What the agent writes for the n-th one.
LEMMA VariantLinesIs ==
    ASSUME NEW z, NEW n, NEW ind, z \in Sessions, n \in 1..Count, ind \in Nat
    PROVE  /\ VariantLines(z, n, ind)[1] = Open("variant", z, n, ind)
           /\ VariantLines(z, n, ind)[2] = Open("user", NoId, 0, ind + 2)
           /\ VariantLines(z, n, ind)[3] = Text(<<z, n>>, ind + 4)
           /\ VariantLines(z, n, ind)[4] = Shut(ind + 2)
           /\ VariantLines(z, n, ind)[5] = Shut(ind)
           /\ VariantLines(z, n, ind)[1] \in LINES /\ VariantLines(z, n, ind)[2] \in LINES
           /\ VariantLines(z, n, ind)[3] \in LINES /\ VariantLines(z, n, ind)[4] \in LINES
           /\ VariantLines(z, n, ind)[5] \in LINES
<1>1. z \in Ids /\ NoId \in Ids /\ <<z, n>> \in Ids BY DEF Ids
<1>2. Count \in Nat BY MarkersAssumption
<1>3. PICK d, e : d \in Nat /\ e \in Nat /\ d = ind + 2 /\ e = ind + 4 OBVIOUS
<1>4. n \in Nat /\ 0 \in Nat BY <1>2
<1>5. Open("variant", z, n, ind) \in LINES /\ Shut(ind) \in LINES BY <1>1, <1>4, LineIs
<1>6. Open("user", NoId, 0, d) \in LINES /\ Shut(d) \in LINES BY <1>1, <1>3, <1>4, LineIs
<1>7. Text(<<z, n>>, e) \in LINES
  <2>1. PICK id : id = <<z, n>> OBVIOUS
  <2>2. Text(id, e) \in LINES BY <1>1, <1>3, <1>4, <2>1, LineIs
  <2> QED BY <2>1, <2>2
<1>8. /\ VariantLines(z, n, ind)[1] = Open("variant", z, n, ind)
      /\ VariantLines(z, n, ind)[2] = Open("user", NoId, 0, ind + 2)
      /\ VariantLines(z, n, ind)[3] = Text(<<z, n>>, ind + 4)
      /\ VariantLines(z, n, ind)[4] = Shut(ind + 2)
      /\ VariantLines(z, n, ind)[5] = Shut(ind)
  BY DEF VariantLines
<1> QED BY <1>3, <1>5, <1>6, <1>7, <1>8

LEMMA Fives ==
    /\ \A c \in Nat, r \in 0..4 : (5 * c + r) \div 5 = c /\ (5 * c + r) % 5 = r
    /\ \A k \in Nat, n \in Nat :
          k < 5 * n => k \div 5 \in Nat /\ k \div 5 < n /\ k % 5 \in 0..4
<1>1. ASSUME NEW c \in Nat, NEW r \in 0..4 PROVE (5 * c + r) \div 5 = c /\ (5 * c + r) % 5 = r
  OBVIOUS
<1>2. ASSUME NEW k \in Nat, NEW n \in Nat, k < 5 * n
      PROVE  k \div 5 \in Nat /\ k \div 5 < n /\ k % 5 \in 0..4
  <2>1. k \div 5 \in Nat OBVIOUS
  <2>2. k % 5 \in 0..4 OBVIOUS
  <2>3. k \div 5 < n BY <1>2
  <2> QED BY <2>1, <2>2, <2>3
<1> QED BY <1>1, <1>2

LEMMA AllVariantsIs ==
    ASSUME NEW z, NEW ind, z \in Sessions, ind \in Nat
    PROVE  /\ File(AllVariants(z, ind)) /\ Len(AllVariants(z, ind)) = 5 * Count
           /\ \A c \in 0..(Count - 1) : VariantAt(AllVariants(z, ind), z, 5 * c)
<1>0. Count \in Nat BY MarkersAssumption
<1>1. PICK r : r = AllVariants(z, ind) OBVIOUS
<1>2. r = [k \in 1..(5 * Count) |->
             VariantLines(z, 1 + ((k - 1) \div 5), ind)[1 + ((k - 1) % 5)]]
  BY <1>1 DEF AllVariants
<1>3. ASSUME NEW k \in 1..(5 * Count) PROVE r[k] \in LINES
  <2>1. PICK c \in Int, m \in Int : c = 1 + ((k - 1) \div 5) /\ m = 1 + ((k - 1) % 5)
    <3>1. k - 1 \in Nat /\ k - 1 < 5 * Count BY <1>0
    <3>2. (k - 1) \div 5 \in Nat /\ (k - 1) % 5 \in 0..4 BY <1>0, <3>1, Fives
    <3> QED BY <3>2
  <2>2. c \in 1..Count /\ m \in 1..5
    <3>1. k - 1 \in Nat /\ k - 1 < 5 * Count BY <1>0
    <3>2. (k - 1) \div 5 \in Nat /\ (k - 1) \div 5 < Count /\ (k - 1) % 5 \in 0..4
      BY <1>0, <3>1, Fives
    <3> QED BY <1>0, <2>1, <3>2
  <2>3. r[k] = VariantLines(z, c, ind)[m] BY <1>2, <2>1
  <2>4. /\ VariantLines(z, c, ind)[1] \in LINES /\ VariantLines(z, c, ind)[2] \in LINES
        /\ VariantLines(z, c, ind)[3] \in LINES /\ VariantLines(z, c, ind)[4] \in LINES
        /\ VariantLines(z, c, ind)[5] \in LINES
    BY <2>2, VariantLinesIs
  <2>5. m = 1 \/ m = 2 \/ m = 3 \/ m = 4 \/ m = 5 BY <2>2
  <2> QED BY <2>3, <2>4, <2>5
<1>4. PICK n \in Int : n = 5 * Count BY <1>0
<1>5. 0 <= n /\ Lists(r, n) BY <1>0, <1>2, <1>4 DEF Lists
<1>6. \A k \in 1..n : r[k] \in LINES BY <1>3, <1>4
<1>7. File(r) /\ Len(r) = n BY <1>5, <1>6, FunFile
<1>8. ASSUME NEW c \in 0..(Count - 1) PROVE VariantAt(r, z, 5 * c)
  <2>1. ASSUME NEW m \in 1..5 PROVE r[5 * c + m] = VariantLines(z, 1 + c, ind)[m]
    <3>1. PICK k \in Int, d \in Int : k = 5 * c + m /\ d = m - 1 BY <1>0
    <3>2. k \in 1..(5 * Count) BY <1>0, <3>1
    <3>3. k - 1 = 5 * c + d /\ c \in Nat /\ d \in 0..4 BY <1>0, <3>1
    <3>4. (5 * c + d) \div 5 = c /\ (5 * c + d) % 5 = d BY <3>3, Fives
    <3>5. r[k] = VariantLines(z, 1 + ((k - 1) \div 5), ind)[1 + ((k - 1) % 5)] BY <1>2, <3>2
    <3>6. 1 + d = m BY <3>1
    <3> QED BY <3>1, <3>3, <3>4, <3>5, <3>6
  <2>2. PICK n0 : n0 = 1 + c /\ n0 \in 1..Count BY <1>0
  <2>3. /\ VariantLines(z, n0, ind)[1] = Open("variant", z, n0, ind)
        /\ VariantLines(z, n0, ind)[2] = Open("user", NoId, 0, ind + 2)
        /\ VariantLines(z, n0, ind)[3] = Text(<<z, n0>>, ind + 4)
        /\ VariantLines(z, n0, ind)[4] = Shut(ind + 2)
        /\ VariantLines(z, n0, ind)[5] = Shut(ind)
    BY <2>2, VariantLinesIs
  <2>4. /\ r[5 * c + 1] = Open("variant", z, n0, ind)
        /\ r[5 * c + 2] = Open("user", NoId, 0, ind + 2)
        /\ r[5 * c + 3] = Text(<<z, n0>>, ind + 4)
        /\ r[5 * c + 4] = Shut(ind + 2)
        /\ r[5 * c + 5] = Shut(ind)
    BY <2>1, <2>2, <2>3
  <2>5. /\ Open("variant", z, n0, ind).tag = "div" /\ Open("variant", z, n0, ind).role = "variant"
        /\ Open("variant", z, n0, ind).id = z
        /\ Open("user", NoId, 0, ind + 2).tag = "div" /\ Open("user", NoId, 0, ind + 2).role = "user"
        /\ Text(<<z, n0>>, ind + 4).tag = "text" /\ Text(<<z, n0>>, ind + 4).role = "user"
        /\ Shut(ind + 2).tag = "/div" /\ Shut(ind + 2).role = "any"
        /\ Shut(ind).tag = "/div" /\ Shut(ind).role = "any"
    BY DEF Open, Text, Shut, Line
  <2> QED BY <2>4, <2>5 DEF VariantAt
<1> QED BY <1>1, <1>4, <1>7, <1>8

\* With CSS before them, x0 = 1, or without.
NewVariants(new, z, x0) ==
    /\ File(new) /\ x0 \in {0, 1} /\ Len(new) = x0 + 5 * Count
    /\ x0 = 1 => new[1].tag = "style" /\ new[1].role = "css" /\ new[1].id = z
    /\ \A c \in 0..(Count - 1) : VariantAt(new, z, x0 + 5 * c)

LEMMA NewVariantsAre ==
    ASSUME NEW z, NEW ind, NEW css, z \in Sessions, ind \in Nat, css \in BOOLEAN
    PROVE  \E x0 \in Int :
             NewVariants((IF css THEN <<Css(z, ind)>> ELSE <<>>) \o AllVariants(z, ind), z, x0)
<1>0. Count \in Nat BY MarkersAssumption
<1>1. PICK r : r = AllVariants(z, ind) OBVIOUS
<1>2. PICK n \in Int : n = 5 * Count BY <1>0
<1>3. File(r) /\ Len(r) = n /\ \A c \in 0..(Count - 1) : VariantAt(r, z, 5 * c)
  <2>1. /\ File(AllVariants(z, ind)) /\ Len(AllVariants(z, ind)) = 5 * Count
        /\ \A c \in 0..(Count - 1) : VariantAt(AllVariants(z, ind), z, 5 * c)
    BY AllVariantsIs
  <2> QED BY <1>1, <1>2, <2>1
<1>4. PICK l : l = Css(z, ind) OBVIOUS
<1>5. l \in LINES
  <2>1. z \in Ids /\ 0 \in Nat BY DEF Ids
  <2>2. Css(z, ind) \in LINES BY <2>1, LineIs
  <2> QED BY <1>4, <2>2
<1>6. PICK y : y = IF css THEN <<l>> ELSE <<>> OBVIOUS
<1>7. PICK x0 \in Int : x0 = IF css THEN 1 ELSE 0 OBVIOUS
<1>8. File(y) /\ Len(y) = x0 /\ (x0 = 1 => y[1] = l) /\ x0 \in {0, 1}
  <2>1. File(<<l>>) /\ Len(<<l>>) = 1 /\ <<l>>[1] = l /\ File(<<>>) /\ Len(<<>>) = 0
    BY <1>5, Pair
  <2>2. CASE css BY <1>6, <1>7, <2>1, <2>2
  <2>3. CASE ~css
    <3>1. y = <<>> /\ x0 = 0 BY <1>6, <1>7, <2>3
    <3> QED BY <2>1, <3>1
  <2> QED BY <2>2, <2>3
<1>9. PICK new : new = y \o r OBVIOUS
<1>10. /\ File(new) /\ Len(new) = x0 + n
       /\ \A k \in 1..x0 : new[k] = y[k]
       /\ \A k \in (x0 + 1)..(x0 + n) : new[k] = r[k - x0]
  <2>1. /\ File(y \o r) /\ Len(y \o r) = x0 + n
        /\ \A k \in 1..x0 : (y \o r)[k] = y[k]
        /\ \A k \in (x0 + 1)..(x0 + n) : (y \o r)[k] = r[k - x0]
    BY <1>3, <1>8, Cat
  <2> QED BY <1>9, <2>1
<1>11. ASSUME x0 = 1 PROVE new[1].tag = "style" /\ new[1].role = "css" /\ new[1].id = z
  <2>1. 1 \in 1..x0 BY <1>11
  <2>2. new[1] = l BY <1>8, <1>10, <1>11, <2>1
  <2> QED BY <1>4, <2>2 DEF Css, Line
<1>12. ASSUME NEW c \in 0..(Count - 1) PROVE VariantAt(new, z, x0 + 5 * c)
  <2>1. ASSUME NEW m \in 1..5 PROVE new[x0 + 5 * c + m] = r[5 * c + m]
    <3>1. PICK k \in Int, d \in Int : k = x0 + 5 * c + m /\ d = 5 * c + m BY <1>0
    <3>2. k \in (x0 + 1)..(x0 + n) /\ k - x0 = d
      <4>1. 5 * c + 5 <= n /\ c >= 0 BY <1>0, <1>2
      <4> QED BY <3>1, <4>1
    <3>3. new[k] = r[d] BY <1>10, <3>2
    <3> QED BY <3>1, <3>3
  <2>2. VariantAt(r, z, 5 * c) BY <1>3
  <2> QED BY <2>1, <2>2 DEF VariantAt
<1>13. NewVariants(new, z, x0)
  BY <1>2, <1>8, <1>10, <1>11, <1>12 DEF NewVariants
<1>14. new = (IF css THEN <<Css(z, ind)>> ELSE <<>>) \o AllVariants(z, ind)
  BY <1>1, <1>4, <1>6, <1>9
<1> QED BY <1>13, <1>14
LEMMA WrittenIs ==
    ASSUME NEW s, NEW k \in Int, NEW z, NEW new, NEW x0 \in Int, NEW m \in Int, File(s),
           0 <= k, k <= Len(s), NewVariants(new, z, x0), Len(new) = m
    PROVE  /\ File(Splice(s, k + 1, k, new)) /\ Len(Splice(s, k + 1, k, new)) = Len(s) + m
           /\ \A r \in 1..k : Splice(s, k + 1, k, new)[r] = s[r]
           /\ \A r \in (k + 1)..Len(s) : Splice(s, k + 1, k, new)[r + m] = s[r]
           /\ Grown(Splice(s, k + 1, k, new), z, k, k + m) /\ 0 <= m
<1>0. Count \in Nat /\ Len(s) \in Nat BY MarkersAssumption, FileLen
<1>1. /\ File(new) /\ x0 \in {0, 1} /\ m = x0 + 5 * Count
      /\ x0 = 1 => new[1].tag = "style" /\ new[1].role = "css" /\ new[1].id = z
      /\ \A c \in 0..(Count - 1) : VariantAt(new, z, x0 + 5 * c)
  BY DEF NewVariants
<1>2. PICK k1 \in Int : k1 = k + 1 OBVIOUS
<1>3. PICK t : t = Splice(s, k1, k, new) OBVIOUS
<1>4. /\ File(t) /\ Len(t) = Len(s) + (m + k1 - 1 - k)
      /\ \A r \in 1..(k1 - 1) : t[r] = s[r]
      /\ \A r \in (k + 1)..Len(s) : t[r + (m + k1 - 1 - k)] = s[r]
      /\ \A r \in k1..(k1 - 1 + m) : t[r] = new[r - (k1 - 1)]
  <2>1. 1 <= k1 /\ k1 <= k + 1 BY <1>2
  <2>2. /\ File(Splice(s, k1, k, new))
        /\ Len(Splice(s, k1, k, new)) = Len(s) + (m + k1 - 1 - k)
        /\ \A r \in 1..(k1 - 1) : Splice(s, k1, k, new)[r] = s[r]
        /\ \A r \in (k + 1)..Len(s) : Splice(s, k1, k, new)[r + (m + k1 - 1 - k)] = s[r]
        /\ \A r \in k1..(k1 - 1 + m) : Splice(s, k1, k, new)[r] = new[r - (k1 - 1)]
    <3>1. PICK n \in Int : n = m OBVIOUS
    <3>2. File(new) /\ Len(new) = n BY <1>1, <3>1
    <3>3. /\ File(Splice(s, k1, k, new))
          /\ Len(Splice(s, k1, k, new)) = Len(s) + (n + k1 - 1 - k)
          /\ \A r \in 1..(k1 - 1) : Splice(s, k1, k, new)[r] = s[r]
          /\ \A r \in (k + 1)..Len(s) : Splice(s, k1, k, new)[r + (n + k1 - 1 - k)] = s[r]
          /\ \A r \in k1..(k1 - 1 + n) : Splice(s, k1, k, new)[r] = new[r - (k1 - 1)]
      BY <2>1, <3>2, SpliceIs
    <3> QED BY <3>1, <3>3
  <2> QED BY <1>3, <2>2
<1>5. k1 - 1 = k /\ m + k1 - 1 - k = m BY <1>2
<1>6. Len(t) = Len(s) + m BY <1>4, <1>5
<1>7. \A r \in 1..k : t[r] = s[r] BY <1>4, <1>5
<1>8. \A r \in (k + 1)..Len(s) : t[r + m] = s[r] BY <1>4, <1>5
<1>9. ASSUME NEW r \in 1..m PROVE t[k + r] = new[r]
  <2>1. PICK a \in Int : a = k + r OBVIOUS
  <2>2. a \in k1..(k1 - 1 + m) /\ a - (k1 - 1) = r BY <1>2, <2>1
  <2> QED BY <1>4, <2>1, <2>2
<1>10. 0 <= 5 * Count /\ 0 <= m BY <1>0, <1>1
<1>11. PICK p \in Int : p = k + x0 OBVIOUS
<1>12. ASSUME NEW c \in 0..(Count - 1) PROVE VariantAt(t, z, p + 5 * c)
  <2>1. ASSUME NEW r \in 1..5 PROVE t[p + 5 * c + r] = new[x0 + 5 * c + r]
    <3>1. PICK a \in Int : a = x0 + 5 * c + r BY <1>0
    <3>2. a \in 1..m /\ k + a = p + 5 * c + r
      <4>1. 5 * c + 5 <= 5 * Count /\ c >= 0 BY <1>0
      <4>2. m = x0 + 5 * Count /\ x0 >= 0 BY <1>1
      <4> QED BY <1>0, <1>11, <3>1, <4>1, <4>2
    <3> QED BY <1>9, <3>1, <3>2
  <2>2. VariantAt(new, z, x0 + 5 * c) BY <1>1
  <2>3. PICK a : a = p + 5 * c OBVIOUS
  <2>4. PICK b : b = x0 + 5 * c OBVIOUS
  <2>5. \A r \in 1..5 : t[a + r] = new[b + r] BY <2>1, <2>3, <2>4
  <2>6. /\ t[a + 1] = new[b + 1] /\ t[a + 2] = new[b + 2] /\ t[a + 3] = new[b + 3]
        /\ t[a + 4] = new[b + 4] /\ t[a + 5] = new[b + 5]
    BY <2>5
  <2>7. VariantAt(new, z, b) BY <2>2, <2>4
  <2>8. VariantAt(t, z, a) BY <2>6, <2>7 DEF VariantAt
  <2> QED BY <2>3, <2>8
<1>13. p + 5 * Count = k + m /\ p + 5 * Count <= Len(t) /\ 0 <= p
  BY <1>0, <1>1, <1>6, <1>11
<1>14. Grown(t, z, p, k + m)
  <2>1. PICK n \in Int : n = Count BY <1>0
  <2>2. 0 <= n /\ p + 5 * n <= Len(t) /\ \A c \in 0..(n - 1) : VariantAt(t, z, p + 5 * c)
    BY <1>0, <1>12, <1>13, <2>1
  <2>3. Grown(t, z, p, p + 5 * n) BY <1>4, <1>13, <2>2, GrownVariants
  <2> QED BY <1>13, <2>1, <2>3
<1>15. Grown(t, z, k, k + m)
  <2>1. CASE x0 = 0
    <3>1. p = k BY <1>11, <2>1
    <3> QED BY <1>14, <3>1
  <2>2. CASE x0 = 1
    <3>1. p = k + 1 /\ k + 1 <= Len(t) /\ 1 \in 1..m
      BY <1>0, <1>1, <1>6, <1>10, <1>11, <2>2
    <3>2. t[k + 1] = new[1] BY <1>9, <3>1
    <3>3. k + 1 \in DOMAIN t
      <4>1. Len(t) \in Nat /\ DOMAIN t = 1..Len(t) BY <1>4, FileIs
      <4> QED BY <3>1, <4>1
    <3>4. Is(t, k + 1, "css", z) /\ t[k + 1].tag = "style" BY <1>1, <2>2, <3>2, <3>3 DEF Is
    <3>5. Grown(t, z, k, k + 1) BY <1>4, <3>1, <3>4, GrownCss
    <3>6. PICK r \in Int : r = k + m OBVIOUS
    <3>7. Grown(t, z, k, p) /\ Grown(t, z, p, r) /\ k <= p /\ p <= r
      BY <1>1, <1>0, <1>14, <2>2, <3>1, <3>5, <3>6
    <3>8. Grown(t, z, k, r) BY <3>7, GrownCat
    <3> QED BY <3>6, <3>8
  <2> QED BY <1>1, <2>1, <2>2
<1> QED BY <1>2, <1>3, <1>4, <1>6, <1>7, <1>8, <1>10, <1>15

\* What the open block of session z has: its <div>, and from h to g the lines that
\* are replaced when it ends.
Block(x, s, z, h, w, v, g) ==
    /\ BlockAt(x, s, z, w, v)
    /\ x => h = w /\ g = v
    /\ ~x => h = w - 1 /\ g = v + 1

LEMMA BlockIs ==
    ASSUME NEW x, NEW s, NEW z, NEW h \in Int, NEW w \in Int, NEW v \in Int, NEW g \in Int,
           File(s), x \in BOOLEAN, Block(x, s, z, h, w, v, g)
    PROVE  /\ Frame(s, z, h, w, v, g, TRUE)
           /\ x => BlockLines(s, z, w, w + 1, v - 1) /\ h = w /\ g = v
           /\ ~x => BlockLines(s, z, w, w - 1, v + 1) /\ h = w - 1 /\ g = v + 1
           /\ Elem(s, w, v) /\ 1 <= h /\ h <= w /\ w < v /\ v <= g /\ g <= Len(s)
           /\ \A k \in Own(s, z) : k \in Int /\ h <= k /\ k <= g
<1>1. /\ Frame(s, z, h, w, v, g, TRUE)
      /\ x => BlockLines(s, z, w, w + 1, v - 1) /\ h = w /\ g = v
      /\ ~x => BlockLines(s, z, w, w - 1, v + 1) /\ h = w - 1 /\ g = v + 1
  <2>1. CASE x BY <2>1 DEF Block, BlockAt
  <2>2. CASE ~x
    <3>1. BlockAt(x, s, z, w, v) = (Frame(s, z, w - 1, w, v, v + 1, TRUE) /\ BlockLines(s, z, w, w - 1, v + 1))
      BY <2>2 DEF BlockAt
    <3>2. BlockAt(x, s, z, w, v) /\ h = w - 1 /\ g = v + 1 BY <2>2 DEF Block
    <3> QED BY <2>2, <3>1, <3>2
  <2> QED BY <2>1, <2>2
<1>2. /\ Elem(s, w, v) /\ 1 <= h /\ h <= w /\ w < v /\ v <= g /\ g <= Len(s)
      /\ \A k \in Own(s, z) : k \in Int /\ h <= k /\ k <= g
  BY <1>1, FrameHull
<1> QED BY <1>1, <1>2

\* A line of the block that is not of its rim is a child of its <div>.
LEMMA BlockChild ==
    ASSUME NEW x, NEW s, NEW z, NEW h \in Int, NEW w \in Int, NEW v \in Int, NEW g \in Int,
           NEW k \in Int, File(s), x \in BOOLEAN, Block(x, s, z, h, w, v, g),
           k \in Own(s, z), s[k].role \in Inside
    PROVE  /\ w < k /\ k < v /\ Depth(s, k - 1) = Depth(s, w)
           /\ x => w + 1 < k /\ k < v - 1
<1>1. /\ Frame(s, z, h, w, v, g, TRUE)
      /\ x => BlockLines(s, z, w, w + 1, v - 1) /\ h = w /\ g = v
      /\ ~x => BlockLines(s, z, w, w - 1, v + 1) /\ h = w - 1 /\ g = v + 1
      /\ Elem(s, w, v) /\ 1 <= h /\ h <= w /\ w < v /\ v <= g /\ g <= Len(s)
      /\ \A r \in Own(s, z) : r \in Int /\ h <= r /\ r <= g
  BY BlockIs
<1>2. \/ k \in h..w \/ k \in (v + 1)..g
      \/ k \in (w + 1)..(v - 1) /\ Depth(s, k - 1) = Depth(s, w)
  BY <1>1 DEF Frame
<1>3. k # w
  <2>1. Is(s, w, "wrapper", z) BY <1>1 DEF BlockLines
  <2> QED BY <2>1 DEF Is, Inside
<1>4. x => k # w + 1 /\ k # v - 1
  <2>1. x => Is(s, w + 1, "start", z) /\ Is(s, v - 1, "end", z) BY <1>1 DEF BlockLines
  <2> QED BY <2>1 DEF Is, Inside
<1>5. ~x => k # w - 1 /\ k # v + 1
  <2>1. ~x => Is(s, w - 1, "start", z) /\ Is(s, v + 1, "end", z) BY <1>1 DEF BlockLines
  <2> QED BY <2>1 DEF Is, Inside
<1>6. k \in (w + 1)..(v - 1) /\ Depth(s, k - 1) = Depth(s, w)
  <2>1. CASE x BY <1>1, <1>2, <1>3, <2>1
  <2>2. CASE ~x
    <3>1. h = w - 1 /\ g = v + 1 /\ k # w - 1 /\ k # v + 1 BY <1>1, <1>5, <2>2
    <3> QED BY <1>1, <1>2, <1>3, <3>1
  <2> QED BY <2>1, <2>2
<1> QED BY <1>4, <1>6

\* t is s with m lines of session z after line k.
Grows(s, t, z, k, m) ==
    /\ 0 <= m /\ Len(t) = Len(s) + m
    /\ \A r \in 1..k : t[r] = s[r]
    /\ \A r \in (k + 1)..Len(s) : t[r + m] = s[r]
    /\ Grown(t, z, k, k + m)

LEMMA WriteStep ==
    ASSUME NEW x, NEW s, NEW t, NEW z, NEW h \in Int, NEW w \in Int, NEW v \in Int, NEW g \in Int,
           NEW k \in Int, NEW m \in Int, File(s), File(t), x \in BOOLEAN,
           Block(x, s, z, h, w, v, g), Is(s, k, "insert", z), Grows(s, t, z, k, m)
    PROVE  Stands("open", x, t, z) /\ Edit(s, t, k, k, m, k, k, 0, z)
<1>a. /\ 0 <= m /\ Len(t) = Len(s) + m
      /\ \A r \in 1..k : t[r] = s[r]
      /\ \A r \in (k + 1)..Len(s) : t[r + m] = s[r]
      /\ Grown(t, z, k, k + m)
  BY DEF Grows
<1>0. Len(s) \in Nat /\ DOMAIN s = 1..Len(s) /\ Len(t) \in Nat /\ DOMAIN t = 1..Len(t)
  BY FileIs
<1>1. /\ Frame(s, z, h, w, v, g, TRUE)
      /\ Elem(s, w, v) /\ 1 <= h /\ h <= w /\ w < v /\ v <= g /\ g <= Len(s)
      /\ \A r \in Own(s, z) : r \in Int /\ h <= r /\ r <= g
  <2>1. /\ Frame(s, z, h, w, v, g, TRUE)
        /\ x => BlockLines(s, z, w, w + 1, v - 1) /\ h = w /\ g = v
        /\ ~x => BlockLines(s, z, w, w - 1, v + 1) /\ h = w - 1 /\ g = v + 1
        /\ Elem(s, w, v) /\ 1 <= h /\ h <= w /\ w < v /\ v <= g /\ g <= Len(s)
        /\ \A k0 \in Own(s, z) : k0 \in Int /\ h <= k0 /\ k0 <= g
    BY BlockIs
  <2> QED BY <2>1
<1>2. k \in 1..Len(s) /\ s[k].role = "insert" /\ k \in Own(s, z)
  BY <1>0 DEF Is, Own, Scaffold
<1>3. /\ w < k /\ k < v /\ Depth(s, k - 1) = Depth(s, w)
      /\ x => w + 1 < k /\ k < v - 1
  BY <1>2, BlockChild DEF Inside
<1>4. Depth(s, k) = Depth(s, w)
  <2>1. LineOK(s[k]) BY <1>2, FileIs
  <2>2. s[k].tag = "mark" BY <1>2, <2>1 DEF LineOK
  <2>3. Step(s[k]) = 0 BY <2>2 DEF Step
  <2>4. k \in Nat \ {0} BY <1>2
  <2>5. Depth(s, k) = Depth(s, k - 1) + Step(s[k]) BY <2>4, DepthIs
  <2>6. Depth(s, w) \in Int BY DepthType
  <2> QED BY <1>3, <2>3, <2>5, <2>6
<1>5. /\ Balanced(t, k, k + m)
      /\ \A r \in (k + 1)..(k + m) :
            r \in Own(t, z) => Depth(t, r - 1) = Depth(t, k) /\ t[r].role \in Inside
      /\ \A r \in (k + 1)..(k + m) :
            Depth(t, r - 1) = Depth(t, k) => r \in Own(t, z) \/ t[r].tag = "blank"
      /\ \A r \in (k + 1)..(k + m) : t[r].role \in Scaffold => t[r].id = z
  BY <1>a DEF Grown, Inner
<1>6. Edit(s, t, k, k, m, k, k, 0, z)
  <2>1. \A r \in (k + 1)..k : Like(s[r], t[r + 0]) OBVIOUS
  <2>2. \A r \in (k + 1)..(k + m) :
            t[r].role \in Scaffold /\ ~(k + 0 < r /\ r <= k + 0) => t[r].id = z
    BY <1>5
  <2>0. 0 <= m /\ Len(t) = Len(s) + m BY <1>a
  <2>3. k <= k + m /\ k <= k + 0 /\ k + 0 <= k + m /\ k <= k /\ k <= Len(s)
    BY <1>2, <2>0
  <2>4. Balanced(s, k, k) BY BalancedNone
  <2> QED BY <1>a, <1>5, <2>1, <2>2, <2>3, <2>4 DEF Edit
<1>7. /\ \A r \in 0..k : Depth(t, r) = Depth(s, r)
      /\ \A r \in k..Len(s) : Depth(t, r + m) = Depth(s, r)
      /\ \A r \in k..(k + m) : Depth(t, r) >= Depth(s, k)
  <2>1. k \in Nat BY <1>2
  <2>2. PICK f \in Int : f = 0 OBVIOUS
  <2>3. Edit(s, t, k, k, m, k, k, f, z) BY <1>6, <2>2
  <2>4. /\ \A r \in 0..k : Depth(t, r) = Depth(s, r)
        /\ \A r \in k..Len(s) : Depth(t, r + m) = Depth(s, r)
        /\ \A r \in k..(k + m) : Depth(t, r) >= Depth(s, k)
        /\ \A r \in k..k : Depth(t, r + f) - Depth(t, k + f) = Depth(s, r) - Depth(s, k)
    BY <2>1, <2>3, EditDepths
  <2> QED BY <2>4
<1>8. ASSUME NEW r \in Int, r \in Own(t, z) PROVE h <= r /\ r <= g + m
  <2>1. r \in 1..Len(t) BY <1>0, <1>8 DEF Own
  <2>2. CASE r <= k
    <3>1. r \in 1..k /\ r \in 1..Len(s) BY <1>2, <2>1, <2>2
    <3>2. t[r] = s[r] BY <1>a, <3>1
    <3>3. r \in Own(s, z) BY <1>0, <1>8, <3>1, <3>2 DEF Own
    <3>4. h <= r /\ r <= g BY <1>1, <3>3
    <3>5. 0 <= m BY <1>a
    <3> QED BY <3>4, <3>5
  <2>3. CASE r > k + m
    <3>1. PICK a \in Int : a = r - m OBVIOUS
    <3>2. a \in (k + 1)..Len(s) /\ a \in 1..Len(s) /\ a + m = r
      <4>1. 0 <= m /\ Len(t) = Len(s) + m BY <1>a
      <4> QED BY <1>0, <1>2, <2>1, <2>3, <3>1, <4>1
    <3>3. t[r] = s[a] BY <1>a, <3>2
    <3>4. a \in Own(s, z) BY <1>0, <1>8, <3>2, <3>3 DEF Own
    <3>5. h <= a /\ a <= g BY <1>1, <3>4
    <3>6. a + m = r /\ 0 <= m BY <1>a, <3>2
    <3> QED BY <3>5, <3>6
  <2>4. CASE k < r /\ r <= k + m
    <3>1. 0 <= m /\ h <= w /\ v <= g BY <1>a, <1>1
    <3> QED BY <1>3, <2>4, <3>1
  <2> QED BY <1>2, <2>1, <2>2, <2>3, <2>4
<1>9. PICK e1 \in Int, d \in Int : e1 = 0 /\ d = 0 OBVIOUS
<1>10. Depth(t, k) = Depth(s, w) /\ Depth(s, w) \in Int
  <2>1. k \in 0..k BY <1>2
  <2> QED BY <1>4, <1>7, <2>1, DepthType
<1>11. Carry(s, t, z, h, w, v, g, TRUE, k, k, e1, m, d)
  <2>0. 0 <= m /\ Len(t) = Len(s) + m BY <1>a
  <2>1. w <= k /\ k <= k /\ k < v /\ h + e1 >= 1 /\ k + e1 <= k + m
    BY <1>1, <1>3, <1>9, <2>0
  <2>2. g + m <= Len(t) BY <1>0, <1>1, <2>0
  <2>3. ASSUME NEW r \in h..k PROVE Like(s[r], t[r + e1])
    <3>1. r \in 1..k /\ r + e1 = r BY <1>1, <1>9
    <3>2. t[r] = s[r] BY <1>a, <3>1
    <3> QED BY <3>1, <3>2, LikeItself
  <2>4. ASSUME NEW r \in (k + 1)..g PROVE Like(s[r], t[r + m])
    <3>1. r \in (k + 1)..Len(s) BY <1>1, <1>0
    <3>2. t[r + m] = s[r] BY <1>a, <3>1
    <3> QED BY <3>2, LikeItself
  <2>5. ASSUME NEW r \in (h - 1)..k PROVE Depth(t, r + e1) = Depth(s, r) + d
    <3>1. r \in 0..k /\ r + e1 = r BY <1>1, <1>9
    <3>2. Depth(t, r) = Depth(s, r) BY <1>7, <3>1
    <3>3. Depth(s, r) \in Int BY <3>1, DepthType
    <3> QED BY <1>9, <3>1, <3>2, <3>3
  <2>6. ASSUME NEW r \in k..g PROVE Depth(t, r + m) = Depth(s, r) + d
    <3>1. r \in k..Len(s) /\ r \in Int BY <1>0, <1>1
    <3>2. Depth(t, r + m) = Depth(s, r) BY <1>7, <3>1
    <3>3. Depth(s, r) \in Int BY <3>1, DepthType
    <3> QED BY <1>9, <3>2, <3>3
  <2>7. \A r \in (k + 1)..k : r \notin Own(s, z) OBVIOUS
  <2>8. \A r \in Own(t, z) : h + e1 <= r /\ r <= g + m
    <3>1. \A r \in Own(t, z) : r \in Int BY <1>0 DEF Own
    <3>2. h + e1 = h BY <1>9
    <3> QED BY <1>8, <3>1, <3>2
  <2>9. ASSUME NEW r \in (k + e1)..(k + m) PROVE Depth(t, r) >= Depth(s, w) + d
    <3>1. r \in k..(k + m) BY <1>9
    <3>2. Depth(t, r) >= Depth(s, k) BY <1>7, <3>1
    <3>3. Depth(s, w) + d = Depth(s, w) BY <1>9, <1>10
    <3> QED BY <1>4, <3>2, <3>3
  <2>10. ASSUME NEW r \in (k + e1 + 1)..(k + m)
         PROVE  /\ r \in Own(t, z) => TRUE /\ Depth(t, r - 1) = Depth(s, w) + d
                /\ TRUE /\ Depth(t, r - 1) = Depth(s, w) + d
                     => r \in Own(t, z) \/ t[r].tag = "blank"
    <3>1. r \in (k + 1)..(k + m) BY <1>9
    <3>3. Depth(s, w) + d = Depth(t, k) BY <1>9, <1>10
    <3> QED BY <1>5, <3>1, <3>3
  <2> QED BY <2>1, <2>2, <2>3, <2>4, <2>5, <2>6, <2>7, <2>8, <2>9, <2>10 DEF Carry
<1>12. BlockAt(x, t, z, w + e1, v + m)
  <2>1. /\ BlockAt(x, s, z, w, v)
        /\ x => h = w /\ g = v
        /\ ~x => h = w - 1 /\ g = v + 1
    BY DEF Block
  <2>2. (e1 = m /\ k = k) \/ (x => w + 1 <= k /\ k <= v - 2) BY <1>3
  <2>3. ASSUME NEW r \in (k + e1 + 1)..(k + m), r \in Own(t, z) PROVE t[r].role \in Inside
    <3>1. r \in (k + 1)..(k + m) BY <1>9
    <3> QED BY <1>5, <2>3, <3>1
  <2> QED BY <1>11, <2>1, <2>2, <2>3, BlockCarried
<1>13. Stands("open", x, t, z)
  <2>1. PICK w1 \in Int, v1 \in Int : w1 = w + e1 /\ v1 = v + m OBVIOUS
  <2>2. BlockAt(x, t, z, w1, v1) BY <1>12, <2>1
  <2> QED BY <2>2, BlockStands
<1> QED BY <1>6, <1>13
-----------------------------------------------------------------------------
(* What live-accept.mjs finds.                                             *)

LEMMA FinalIs ==
    ASSUME NEW S, NEW n \in Int, S \subseteq 1..n
    PROVE  /\ S = {} => Final(S) = 0
           /\ S # {} => Final(S) \in S /\ \A i \in S : i <= Final(S)
<1>1. CASE S = {} BY <1>1 DEF Final
<1>2. CASE S # {}
  <2> DEFINE T == {n - k : k \in S}
  <2>0. ASSUME NEW k \in S PROVE n - k \in Nat OBVIOUS
  <2>1. T \subseteq Nat /\ T # {} BY <1>2, <2>0
  <2>2. PICK m \in T : \A k \in T : m <= k
    <3> HIDE DEF T
    <3> QED BY <2>1, Least
  <2>3. PICK i \in S : m = n - i OBVIOUS
  <2>4. ASSUME NEW j \in S PROVE j <= i
    <3>1. n - j \in T OBVIOUS
    <3>2. n - i <= n - j BY <2>2, <2>3, <3>1
    <3> QED BY <3>2
  <2>5. \E k \in S : \A j \in S : j <= k BY <2>4
  <2> QED BY <1>2, <2>5 DEF Final
<1> QED BY <1>1, <1>2

LEMMA OnlyOne ==
    ASSUME NEW k \in Int, 1 <= k
    PROVE  First({k}) = k /\ Final({k}) = k
<1>1. {k} \subseteq Nat /\ {k} # {} /\ {k} \subseteq 1..k OBVIOUS
<1>2. First({k}) \in {k} BY <1>1, FirstIs
<1>3. Final({k}) \in {k} BY <1>1, FinalIs
<1> QED BY <1>2, <1>3

\* Lines b0 and b1 are the block to live-accept.mjs, and h to g what it replaces.
Found(z, h, g, b0, b1) ==
    /\ FindMarkerBlock(z) = [start |-> b0, end |-> b1]
    /\ ExpandReplaceRange([start |-> b0, end |-> b1], z) = [start |-> h, end |-> g]

LEMMA RimOnly ==
    ASSUME NEW z, NEW w \in Int, NEW b0 \in Int, NEW b1 \in Int, File(file),
           BlockLines(file, z, w, b0, b1)
    PROVE  At("start", z) = {b0} /\ At("end", z) = {b1} /\ At("wrapper", z) = {w}
<1>1. /\ Is(file, w, "wrapper", z) /\ Is(file, b0, "start", z) /\ Is(file, b1, "end", z)
      /\ \A k \in Own(file, z) : k \in {w, b0, b1} \/ file[k].role \in Inside
  BY DEF BlockLines
<1>2. ASSUME NEW k, NEW role \in {"start", "end", "wrapper"}, k \in At(role, z)
      PROVE  k \in {w, b0, b1} /\ file[k].role = role
  <2>1. k \in DOMAIN file /\ file[k].role = role /\ file[k].id = z BY <1>2 DEF At
  <2>2. k \in Own(file, z) BY <2>1 DEF Own, Scaffold
  <2>3. role \notin Inside BY DEF Inside
  <2> QED BY <1>1, <2>1, <2>2, <2>3
<1>3. /\ file[w].role = "wrapper" /\ file[b0].role = "start" /\ file[b1].role = "end"
      /\ b0 \in At("start", z) /\ b1 \in At("end", z) /\ w \in At("wrapper", z)
  BY <1>1 DEF Is, At
<1>4. ASSUME NEW k PROVE k \in At("start", z) <=> k = b0 BY <1>2, <1>3
<1>5. ASSUME NEW k PROVE k \in At("end", z) <=> k = b1 BY <1>2, <1>3
<1>6. ASSUME NEW k PROVE k \in At("wrapper", z) <=> k = w BY <1>2, <1>3
<1> QED BY <1>4, <1>5, <1>6

LEMMA BlockFound ==
    ASSUME NEW z, NEW h \in Int, NEW w \in Int, NEW v \in Int, NEW g \in Int,
           File(file), jsx \in BOOLEAN, Block(jsx, file, z, h, w, v, g)
    PROVE  \E b0, b1 \in Int :
             /\ Found(z, h, g, b0, b1) /\ h <= b0 /\ b0 <= b1 /\ b1 <= g
             /\ \/ b0 = w + 1 /\ b1 = v - 1
                \/ /\ b0 = w - 1 /\ b1 = v + 1
                   /\ file[b0].tag # "div" /\ file[b1].tag # "div"
<1>1. /\ Frame(file, z, h, w, v, g, TRUE)
      /\ jsx => BlockLines(file, z, w, w + 1, v - 1) /\ h = w /\ g = v
      /\ ~jsx => BlockLines(file, z, w, w - 1, v + 1) /\ h = w - 1 /\ g = v + 1
      /\ Elem(file, w, v) /\ 1 <= h /\ h <= w /\ w < v /\ v <= g /\ g <= Len(file)
      /\ \A k \in Own(file, z) : k \in Int /\ h <= k /\ k <= g
  BY BlockIs
<1>2. ASSUME NEW b0 \in Int, NEW b1 \in Int, BlockLines(file, z, w, b0, b1)
      PROVE  /\ FindMarkerBlock(z) = [start |-> b0, end |-> b1] /\ 1 <= b0 /\ 1 <= b1
             /\ At("wrapper", z) = {w}
             /\ file[b0].tag = "mark" /\ file[b1].tag = "mark"
  <2>1. At("start", z) = {b0} /\ At("end", z) = {b1} /\ At("wrapper", z) = {w}
    BY <1>2, RimOnly
  <2>2. Is(file, b0, "start", z) /\ Is(file, b1, "end", z) BY <1>2 DEF BlockLines
  <2>3. 1 <= b0 /\ 1 <= b1 /\ file[b0].tag = "mark" /\ file[b1].tag = "mark"
    <3>1. b0 \in 1..Len(file) /\ b1 \in 1..Len(file) BY <2>2, FileIs DEF Is
    <3>2. LineOK(file[b0]) /\ LineOK(file[b1]) BY <3>1, FileIs
    <3> QED BY <2>2, <3>1, <3>2 DEF Is, LineOK
  <2>4. First({b0}) = b0 /\ First({b1}) = b1 BY <2>3, OnlyOne
  <2>5. b0 # 0 /\ b1 # 0 BY <2>3
  <2>6. FindMarkerBlock(z) = [start |-> b0, end |-> b1] BY <2>1, <2>4, <2>5 DEF FindMarkerBlock
  <2> QED BY <2>1, <2>3, <2>6
<1>3. CASE jsx
  <2>1. PICK b0 \in Int, b1 \in Int : b0 = w + 1 /\ b1 = v - 1 OBVIOUS
  <2>2. BlockLines(file, z, w, b0, b1) /\ h = w /\ g = v BY <1>1, <1>3, <2>1
  <2>3. /\ FindMarkerBlock(z) = [start |-> b0, end |-> b1] /\ 1 <= b0 /\ 1 <= b1
        /\ At("wrapper", z) = {w}
        /\ file[b0].tag = "mark" /\ file[b1].tag = "mark"
    BY <1>2, <2>2
  <2>4. {i \in At("wrapper", z) : i < b0} = {w} BY <2>1, <2>3
  <2>5. First({w}) = w /\ Final({w}) = w
    <3>1. 1 <= w BY <1>1
    <3> QED BY <3>1, OnlyOne
  <2>6. Closing(file, w) = v BY <1>1, ClosingIs
  <2>7. ExpandReplaceRange([start |-> b0, end |-> b1], z) = [start |-> h, end |-> g]
    BY <1>3, <2>2, <2>4, <2>5, <2>6 DEF ExpandReplaceRange
  <2>8. v # w + 1
    <3>1. file[v].tag = "/div" BY <1>1 DEF Elem
    <3> QED BY <2>1, <2>3, <3>1
  <2>9. h <= b0 /\ b0 <= b1 /\ b1 <= g
    <3>1. w < v BY <1>1
    <3>2. v # w + 2
      <4>1. Is(file, b0, "start", z) /\ Is(file, b1, "end", z) BY <2>2 DEF BlockLines
      <4>2. b0 # b1 BY <4>1 DEF Is
      <4> QED BY <2>1, <4>2
    <3> QED BY <2>1, <2>2, <2>8, <3>1, <3>2
  <2> QED BY <2>1, <2>3, <2>7, <2>9 DEF Found
<1>4. CASE ~jsx
  <2>1. PICK b0 \in Int, b1 \in Int : b0 = w - 1 /\ b1 = v + 1 OBVIOUS
  <2>2. BlockLines(file, z, w, b0, b1) /\ h = b0 /\ g = b1 BY <1>1, <1>4, <2>1
  <2>3. /\ FindMarkerBlock(z) = [start |-> b0, end |-> b1] /\ 1 <= b0 /\ 1 <= b1
        /\ At("wrapper", z) = {w}
        /\ file[b0].tag = "mark" /\ file[b1].tag = "mark"
    BY <1>2, <2>2
  <2>7. ExpandReplaceRange([start |-> b0, end |-> b1], z) = [start |-> h, end |-> g]
    BY <1>4, <2>2 DEF ExpandReplaceRange
  <2>9. h <= b0 /\ b0 <= b1 /\ b1 <= g BY <1>1, <2>1, <2>2
  <2> QED BY <2>1, <2>3, <2>7, <2>9 DEF Found
<1> QED BY <1>3, <1>4
\* L is what the scripts read of s from line b0 to line b1.
Read(s, b0, b1, L) ==
    /\ File(L) /\ Len(L) = b1 - b0 + 1
    /\ \A k \in 1..(b1 - b0 + 1) :
        IF s[b0 - 1 + k].tag = "style" THEN L[k] = Blank ELSE L[k] = s[b0 - 1 + k]

LEMMA LinesAre ==
    ASSUME NEW b0 \in Int, NEW b1 \in Int, File(file), 1 <= b0, b0 <= b1, b1 <= Len(file)
    PROVE  Read(file, b0, b1, Lines([start |-> b0, end |-> b1]))
<1>1. PICK n \in Int : n = b1 - b0 + 1 OBVIOUS
<1>2. PICK L : L = Lines([start |-> b0, end |-> b1]) OBVIOUS
<1>3. L = [k \in 1..n |-> IF file[b0 + k - 1].tag = "style" THEN Blank ELSE file[b0 + k - 1]]
  BY <1>1, <1>2 DEF Lines
<1>4. ASSUME NEW k \in Int, k \in 1..n
      PROVE  /\ IF file[b0 - 1 + k].tag = "style" THEN L[k] = Blank ELSE L[k] = file[b0 - 1 + k]
             /\ L[k] \in LINES
  <2>1. PICK a \in Int : a = b0 + k - 1 OBVIOUS
  <2>2. L[k] = IF file[a].tag = "style" THEN Blank ELSE file[a] BY <1>3, <1>4, <2>1
  <2>3. a = b0 - 1 + k BY <2>1
  <2>4. 1 <= a /\ a <= Len(file)
    <3>1. Len(file) \in Nat BY FileLen
    <3> QED BY <1>1, <1>4, <2>1, <3>1
  <2>5. file[a] \in LINES BY <2>4, FileLine
  <2>6. Blank \in LINES
    <3>1. NoId \in Ids /\ 0 \in Nat BY DEF Ids
    <3> QED BY <3>1, LineIs
  <2>7. CASE file[a].tag = "style" BY <2>2, <2>3, <2>6, <2>7
  <2>8. CASE file[a].tag # "style" BY <2>2, <2>3, <2>5, <2>8
  <2> QED BY <2>7, <2>8
<1>5. Lists(L, n) /\ 0 <= n BY <1>1, <1>3 DEF Lists
<1>6. File(L) /\ Len(L) = n
  <2>1. \A k \in 1..n : L[k] \in LINES BY <1>4
  <2> QED BY <1>5, <2>1, FunFile
<1>7. Read(file, b0, b1, L) BY <1>1, <1>4, <1>6 DEF Read
<1> QED BY <1>2, <1>7

\* A <div> of the block that the scripts look into: it ends where the file says.
LEMMA LooksInto ==
    ASSUME NEW s, NEW L, NEW b0 \in Int, NEW b1 \in Int, NEW i \in Int, NEW w \in Int,
           NEW v \in Int, File(s), Nested(s), 1 <= b0, b0 <= b1, b1 <= Len(s),
           Read(s, b0, b1, L), Elem(s, w, v), s[w].role = "wrapper",
           \/ b0 = w + 1 /\ b1 = v - 1
           \/ b0 = w - 1 /\ b1 = v + 1 /\ s[b0].tag # "div" /\ s[b1].tag # "div",
           i \in DOMAIN L, L[i].tag = "div", L[i].role \in {"original", "variant"}
    PROVE  \E p, q \in Int :
             /\ p = b0 - 1 + i /\ w < p /\ q < v /\ b0 <= p /\ q <= b1 /\ Elem(s, p, q)
             /\ s[p].role = L[i].role /\ s[p].id = L[i].id /\ s[p].n = L[i].n
             /\ Closing(L, i) = q - b0 + 1
<1>0. Len(s) \in Nat /\ DOMAIN s = 1..Len(s) BY FileIs
<1>1. PICK n \in Int : n = b1 - b0 + 1 OBVIOUS
<1>2. /\ File(L) /\ Len(L) = n
      /\ \A k \in 1..n :
            IF s[b0 - 1 + k].tag = "style" THEN L[k] = Blank ELSE L[k] = s[b0 - 1 + k]
  BY <1>1 DEF Read
<1>3. i \in 1..n BY <1>2, FileIs
<1>4. PICK p \in Int : p = b0 - 1 + i OBVIOUS
<1>5. L[i] = s[p] /\ s[p].tag = "div"
  <2>1. IF s[p].tag = "style" THEN L[i] = Blank ELSE L[i] = s[p] BY <1>2, <1>3, <1>4
  <2>2. L[i] # Blank BY DEF Blank, Line
  <2> QED BY <2>1, <2>2
<1>6. b0 <= p /\ p <= b1 /\ p \in DOMAIN s BY <1>0, <1>1, <1>3, <1>4
<1>7. PICK q \in Int : q = Closing(s, p) /\ Elem(s, p, q)
  <2>1. Elem(s, p, Closing(s, p)) BY <1>5, <1>6, ElemOf
  <2>2. Closing(s, p) \in DOMAIN s BY <2>1 DEF Elem
  <2>3. Closing(s, p) \in Int BY <1>0, <2>2
  <2> QED BY <2>1, <2>3
<1>8. w \in Nat /\ v \in Nat /\ p \in Nat /\ q \in Nat /\ w < v /\ p < q /\ s[v].tag = "/div"
      /\ w \in 1..Len(s) /\ v \in 1..Len(s) /\ q \in 1..Len(s)
  BY <1>0, <1>7 DEF Elem
<1>9. p # w /\ p # v
  <2>1. s[p].role \in {"original", "variant"} BY <1>5
  <2> QED BY <1>5, <1>8, <2>1
<1>10. w < p /\ p < v BY <1>4, <1>5, <1>6, <1>8, <1>9
<1>11. q < w \/ v < p \/ (p < w /\ v < q) \/ (w < p /\ q < v) BY <1>7, <1>8, <1>9, Laminar
<1>12. q < v BY <1>8, <1>10, <1>11
<1>13. q <= b1 BY <1>12
<1>14. PICK d \in Int, j \in Int : d = 1 - b0 /\ j = q + d OBVIOUS
<1>15. ASSUME NEW k \in Int, b0 <= k, k <= b1 PROVE Step(L[k + d]) = Step(s[k])
  <2>1. PICK m \in Int : m = k + d OBVIOUS
  <2>2. m \in 1..n /\ b0 - 1 + m = k BY <1>1, <1>14, <1>15, <2>1
  <2>3. IF s[k].tag = "style" THEN L[m] = Blank ELSE L[m] = s[k] BY <1>2, <2>2
  <2> QED BY <2>1, <2>3 DEF Step, Blank, Line
<1>16. PICK o \in Int : o = b0 - 1 OBVIOUS
<1>17. \A k \in o..b1 : Depth(L, k + d) - Depth(L, o + d) = Depth(s, k) - Depth(s, o)
  <2>1. ASSUME NEW k \in (o + 1)..b1 PROVE Step(L[k + d]) = Step(s[k])
    <3>1. b0 <= k /\ k <= b1 /\ k \in Int BY <1>16
    <3> QED BY <1>15, <3>1
  <2>2. Alike(s, L, o, b1, d) BY <2>1 DEF Alike
  <2>3. o \in Nat /\ b1 \in Nat /\ o + d >= 0 BY <1>14, <1>16
  <2> QED BY <2>2, <2>3, DepthShifts
<1>18. ASSUME NEW k \in Int, NEW m \in Int, o <= k, k <= b1, o <= m, m <= b1
       PROVE  /\ Depth(s, k) = Depth(s, m) => Depth(L, k + d) = Depth(L, m + d)
              /\ Depth(s, k) > Depth(s, m) => Depth(L, k + d) > Depth(L, m + d)
  <2>1. k \in o..b1 /\ m \in o..b1 BY <1>18
  <2>2. /\ Depth(L, k + d) - Depth(L, o + d) = Depth(s, k) - Depth(s, o)
        /\ Depth(L, m + d) - Depth(L, o + d) = Depth(s, m) - Depth(s, o)
    BY <1>17, <2>1
  <2>3. k + d \in Int /\ m + d \in Int /\ o + d \in Int OBVIOUS
  <2>4. /\ Depth(L, k + d) \in Int /\ Depth(L, o + d) \in Int /\ Depth(L, m + d) \in Int
        /\ Depth(s, k) \in Int /\ Depth(s, m) \in Int /\ Depth(s, o) \in Int
    BY <2>3, DepthType
  <2>5. PICK x1 \in Int, x2 \in Int, x0 \in Int, y1 \in Int, y2 \in Int, y0 \in Int :
          /\ x1 = Depth(L, k + d) /\ x2 = Depth(L, m + d) /\ x0 = Depth(L, o + d)
          /\ y1 = Depth(s, k) /\ y2 = Depth(s, m) /\ y0 = Depth(s, o)
    BY <2>4
  <2>6. x1 - x0 = y1 - y0 /\ x2 - x0 = y2 - y0 BY <2>2, <2>5
  <2>7. (y1 = y2 => x1 = x2) /\ (y1 > y2 => x1 > x2) BY <2>6
  <2> QED BY <2>5, <2>7
<1>19. i = p + d /\ 1 <= i /\ j <= n BY <1>1, <1>3, <1>4, <1>13, <1>14
<1>20. Elem(L, i, j)
  <2>1. i < j /\ j \in DOMAIN L /\ i \in DOMAIN L
    <3>1. DOMAIN L = 1..n BY <1>2, FileIs
    <3> QED BY <1>8, <1>14, <1>19, <3>1
  <2>2. L[j].tag = "/div"
    <3>1. s[q].tag = "/div" BY <1>7 DEF Elem
    <3>2. j \in 1..n /\ b0 - 1 + j = q BY <1>8, <1>14, <1>19
    <3>3. IF s[q].tag = "style" THEN L[j] = Blank ELSE L[j] = s[q] BY <1>2, <3>2
    <3> QED BY <3>1, <3>3
  <2>3. Depth(s, q) = Depth(s, p - 1) /\ \A k \in p..(q - 1) : Depth(s, k) > Depth(s, p - 1)
    BY <1>7 DEF Elem
  <2>4. PICK p1 \in Int : p1 = p - 1 OBVIOUS
  <2>5. o <= p1 /\ p1 <= b1 /\ o <= q /\ q <= b1 BY <1>6, <1>8, <1>13, <1>16, <2>4
  <2>6. Depth(L, j) = Depth(L, i - 1)
    <3>1. Depth(L, q + d) = Depth(L, p1 + d) BY <1>18, <2>3, <2>4, <2>5
    <3>2. q + d = j /\ p1 + d = i - 1 BY <1>14, <1>19, <2>4
    <3> QED BY <3>1, <3>2
  <2>7. ASSUME NEW m \in Int, m \in i..(j - 1) PROVE Depth(L, m) > Depth(L, i - 1)
    <3>1. PICK k \in Int : k = m - d OBVIOUS
    <3>2. k \in p..(q - 1) /\ o <= k /\ k <= b1 /\ k + d = m
      BY <1>6, <1>13, <1>14, <1>16, <1>19, <2>7, <3>1
    <3>3. Depth(s, k) > Depth(s, p1) BY <2>3, <2>4, <3>2
    <3>4. Depth(L, k + d) > Depth(L, p1 + d) BY <1>18, <2>5, <3>2, <3>3
    <3>5. p1 + d = i - 1 BY <1>19, <2>4
    <3> QED BY <3>2, <3>4, <3>5
  <2> QED BY <1>3, <2>1, <2>2, <2>6, <2>7 DEF Elem
<1>21. Closing(L, i) = j BY <1>2, <1>20, ClosingIs
<1>22. Closing(L, i) = q - b0 + 1 BY <1>14, <1>21
<1> QED BY <1>4, <1>5, <1>6, <1>7, <1>10, <1>12, <1>13, <1>22
\* r is the lines after a, up to b, of s after u empty lines and before others.
Taken(s, r, a, b, u) ==
    /\ File(r) /\ 0 <= u /\ u + (b - a) <= Len(r)
    /\ \A k \in (a + 1)..b : Like(s[k], r[k - a + u])
    /\ \A k \in 1..Len(r) : k <= u \/ u + (b - a) < k => r[k].tag = "blank"

InnerAt(L, i, b0, p, q) == p = b0 - 1 + i /\ Closing(L, i) = q - b0 + 1

LEMMA InnerIs ==
    ASSUME NEW s, NEW L, NEW b0 \in Int, NEW b1 \in Int, NEW i \in Int, NEW p \in Int,
           NEW q \in Int, File(s), 1 <= b0, b1 <= Len(s), Read(s, b0, b1, L),
           1 <= i, InnerAt(L, i, b0, p, q), p < q, q <= b1
    PROVE  /\ Taken(s, InnerByAttr(L, i), p, q - 1, 1)
           /\ Len(InnerByAttr(L, i)) = q - p + 1
           /\ \A k \in (p + 1)..(q - 1) :
                s[k].tag \in {"blank", "style"} => InnerByAttr(L, i)[k - p + 1].tag = "blank"
           /\ \A k \in (p + 1)..(q - 1) :
                InnerByAttr(L, i)[k - p + 1].tag = "blank" => s[k].tag \in {"blank", "style"}
<1>0. PICK n \in Int, i1 \in Int, j1 \in Int, x \in Int :
        n = b1 - b0 + 1 /\ i1 = i + 1 /\ j1 = q - b0 /\ x = q - 1 - p
  OBVIOUS
<1> USE DEF InnerAt
<1>1. /\ File(L) /\ Len(L) = n
      /\ \A k \in 1..n :
            IF s[b0 - 1 + k].tag = "style" THEN L[k] = Blank ELSE L[k] = s[b0 - 1 + k]
  BY <1>0 DEF Read
<1>2. PICK y : y = SubSeq(L, i1, j1) OBVIOUS
<1>3. File(y) /\ Len(y) = x /\ \A k \in 1..x : y[k] = L[i + k]
  <2>1. 1 <= i1 /\ i1 <= j1 + 1 /\ j1 <= Len(L)
    <3>1. Len(L) = n BY <1>1
    <3> QED BY <1>0, <3>1
  <2>2. /\ File(SubSeq(L, i1, j1)) /\ Len(SubSeq(L, i1, j1)) = j1 + 1 - i1
        /\ \A k \in 1..(j1 + 1 - i1) : SubSeq(L, i1, j1)[k] = L[i1 - 1 + k]
    <3>1. File(L) BY <1>1
    <3> QED BY <2>1, <3>1, Part
  <2>3. j1 + 1 - i1 = x /\ i1 - 1 = i BY <1>0
  <2> QED BY <1>2, <2>2, <2>3
<1>4. ASSUME NEW k \in Int, k \in 1..x
      PROVE  IF s[p + k].tag = "style" THEN y[k] = Blank ELSE y[k] = s[p + k]
  <2>1. PICK m \in Int : m = i + k OBVIOUS
  <2>2. m \in 1..n /\ b0 - 1 + m = p + k BY <1>0, <1>4, <2>1
  <2>3. y[k] = L[m] BY <1>3, <1>4, <2>1
  <2> QED BY <1>1, <2>2, <2>3
<1>5. PICK o : o = <<Blank>> OBVIOUS
<1>6. Blank \in LINES
  <2>1. NoId \in Ids /\ 0 \in Nat BY DEF Ids
  <2> QED BY <2>1, LineIs
<1>7. PICK one \in Int : one = 1 OBVIOUS
<1>8. File(o) /\ Len(o) = one /\ o[1] = Blank
  <2>1. File(<<Blank>>) /\ Len(<<Blank>>) = 1 /\ <<Blank>>[1] = Blank BY <1>6, Pair
  <2> QED BY <1>5, <1>7, <2>1
<1>9. PICK c : c = o \o y OBVIOUS
<1>10. /\ File(c) /\ Len(c) = one + x
       /\ \A k \in 1..one : c[k] = o[k]
       /\ \A k \in (one + 1)..(one + x) : c[k] = y[k - one]
  <2>0. File(y) /\ Len(y) = x /\ File(o) /\ Len(o) = one BY <1>3, <1>8
  <2>1. /\ File(o \o y) /\ Len(o \o y) = one + x
        /\ \A k \in 1..one : (o \o y)[k] = o[k]
        /\ \A k \in (one + 1)..(one + x) : (o \o y)[k] = y[k - one]
    BY <2>0, Cat
  <2> QED BY <1>9, <2>1
<1>11. PICK x1 \in Int : x1 = one + x OBVIOUS
<1>12. PICK r : r = c \o o OBVIOUS
<1>13. /\ File(r) /\ Len(r) = x1 + one
       /\ \A k \in 1..x1 : r[k] = c[k]
       /\ \A k \in (x1 + 1)..(x1 + one) : r[k] = o[k - x1]
  <2>0. File(c) /\ Len(c) = x1 BY <1>10, <1>11
  <2>1. /\ File(c \o o) /\ Len(c \o o) = x1 + one
        /\ \A k \in 1..x1 : (c \o o)[k] = c[k]
        /\ \A k \in (x1 + 1)..(x1 + one) : (c \o o)[k] = o[k - x1]
    BY <1>8, <2>0, Cat
  <2> QED BY <1>12, <2>1
<1>14. r = InnerByAttr(L, i)
  <2>1. InnerByAttr(L, i) = <<Blank>> \o SubSeq(L, i + 1, q - b0 + 1 - 1) \o <<Blank>>
    BY DEF InnerByAttr
  <2>2. q - b0 + 1 - 1 = j1 BY <1>0
  <2> QED BY <1>0, <1>2, <1>5, <1>9, <1>12, <2>1, <2>2
<1>15. 0 <= x /\ x1 = x + 1 /\ one = 1 BY <1>0, <1>7, <1>11
<1>16. ASSUME NEW k \in Int, k \in (p + 1)..(q - 1)
       PROVE  IF s[k].tag = "style" THEN r[k - p + 1] = Blank ELSE r[k - p + 1] = s[k]
  <2>1. PICK m \in Int, m1 \in Int : m = k - p /\ m1 = m + 1 OBVIOUS
  <2>2. m \in 1..x /\ p + m = k BY <1>0, <1>16, <2>1
  <2>3. m1 \in 1..x1 /\ m1 \in (one + 1)..(one + x) /\ m1 - one = m BY <1>15, <2>1, <2>2
  <2>4. r[m1] = c[m1] BY <1>13, <2>3
  <2>5. c[m1] = y[m] BY <1>10, <2>3
  <2>6. IF s[p + m].tag = "style" THEN y[m] = Blank ELSE y[m] = s[p + m] BY <1>4, <2>2
  <2>7. m1 = k - p + 1 BY <2>1
  <2> QED BY <2>2, <2>4, <2>5, <2>6, <2>7
<1>17. Blank.tag = "blank" /\ Blank.role = "any" BY DEF Blank, Line
<1>18. r[1] = Blank /\ r[x1 + 1] = Blank
  <2>1. 1 \in 1..one /\ 1 \in 1..x1 BY <1>15
  <2>2. r[1] = Blank BY <1>8, <1>10, <1>13, <2>1
  <2>3. x1 + 1 \in (x1 + 1)..(x1 + one) /\ x1 + 1 - x1 = 1 BY <1>15
  <2>4. r[x1 + 1] = Blank BY <1>8, <1>13, <2>3
  <2> QED BY <2>2, <2>4
<1>19. Len(r) = x1 + 1 /\ x1 + 1 = q - p + 1
  <2>1. Len(r) = x1 + one BY <1>13
  <2> QED BY <1>0, <1>15, <2>1
<1>20. Taken(s, r, p, q - 1, 1)
  <2>1. 0 <= 1 /\ 1 + (q - 1 - p) <= Len(r) BY <1>19
  <2>2. ASSUME NEW k \in (p + 1)..(q - 1) PROVE Like(s[k], r[k - p + 1])
    <3>1. k \in Int OBVIOUS
    <3>2. IF s[k].tag = "style" THEN r[k - p + 1] = Blank ELSE r[k - p + 1] = s[k]
      BY <1>16, <3>1
    <3> QED BY <1>17, <3>2 DEF Like
  <2>3. ASSUME NEW k \in 1..Len(r), k <= 1 \/ 1 + (q - 1 - p) < k PROVE r[k].tag = "blank"
    <3>1. k = 1 \/ k = x1 + 1 BY <1>0, <1>15, <1>19, <2>3
    <3> QED BY <1>17, <1>18, <3>1
  <2> QED BY <1>13, <2>1, <2>2, <2>3 DEF Taken
<1>21. \A k \in (p + 1)..(q - 1) :
          IF s[k].tag = "style" THEN r[k - p + 1] = Blank ELSE r[k - p + 1] = s[k]
  BY <1>16
<1>22. /\ \A k \in (p + 1)..(q - 1) :
            s[k].tag \in {"blank", "style"} => r[k - p + 1].tag = "blank"
       /\ \A k \in (p + 1)..(q - 1) :
            r[k - p + 1].tag = "blank" => s[k].tag \in {"blank", "style"}
  BY <1>17, <1>21
<1> QED BY <1>14, <1>19, <1>20, <1>22
\* r is of the lines inside of the <div> from line p to line q, without some of the
\* empty ones at both ends.
Excerpt(s, r, p, q, a, b, u) ==
    /\ Taken(s, r, a, b, u) /\ p <= a /\ a <= b /\ b < q
    /\ \A k \in (p + 1)..a : s[k].tag \in {"blank", "style"}
    /\ \A k \in (b + 1)..(q - 1) : s[k].tag \in {"blank", "style"}

\* y is r without empty lines at both ends.
TrimmedOf(s, y, p, q) ==
    /\ Taken(s, y, p, q - 1, 1) /\ Len(y) = q - p + 1
    /\ \A k \in (p + 1)..(q - 1) :
        s[k].tag \in {"blank", "style"} => y[k - p + 1].tag = "blank"
    /\ \A k \in (p + 1)..(q - 1) :
        y[k - p + 1].tag = "blank" => s[k].tag \in {"blank", "style"}

LEMMA TrimmedIs ==
    ASSUME NEW s, NEW y, NEW p \in Int, NEW q \in Int, File(s), 1 <= p, p < q,
           TrimmedOf(s, y, p, q)
    PROVE  \E a, b, u \in Int : Excerpt(s, Trimmed(y), p, q, a, b, u)
<1>1. /\ File(y) /\ Len(y) = q - p + 1
      /\ \A k \in (p + 1)..(q - 1) : Like(s[k], y[k - p + 1])
      /\ \A k \in 1..Len(y) : k <= 1 \/ 1 + (q - 1 - p) < k => y[k].tag = "blank"
      /\ \A k \in (p + 1)..(q - 1) :
            y[k - p + 1].tag = "blank" => s[k].tag \in {"blank", "style"}
  BY DEF TrimmedOf, Taken
<1>2. PICK n \in Int : n = q - p + 1 OBVIOUS
<1>3. Len(y) = n /\ DOMAIN y = 1..n BY <1>1, <1>2, FileIs
<1>4. PICK full : full = {i \in DOMAIN y : ~IsBlank(y[i])} OBVIOUS
<1>5. \A i : i \in full <=> i \in 1..n /\ y[i].tag # "blank" BY <1>3, <1>4 DEF IsBlank
<1>6. ASSUME NEW i \in Int, i \in full PROVE 2 <= i /\ i <= n - 1
  <2>1. i \in 1..n /\ y[i].tag # "blank" BY <1>5, <1>6
  <2>2. ~(i <= 1) /\ ~(1 + (q - 1 - p) < i) BY <1>1, <1>3, <2>1
  <2> QED BY <1>2, <2>1, <2>2
<1>7. ASSUME NEW k \in Int, k \in (p + 1)..(q - 1), k - p + 1 \notin full
      PROVE  s[k].tag \in {"blank", "style"}
  <2>1. PICK m \in Int : m = k - p + 1 OBVIOUS
  <2>2. m \in 1..n BY <1>2, <1>7, <2>1
  <2>3. y[m].tag = "blank" BY <1>5, <1>7, <2>1, <2>2
  <2> QED BY <1>1, <1>7, <2>1, <2>3
<1>8. CASE full = {}
  <2>1. Trimmed(y) = <<Blank>> BY <1>4, <1>8 DEF Trimmed
  <2>2. PICK r : r = <<Blank>> OBVIOUS
  <2>3. Blank \in LINES
    <3>1. NoId \in Ids /\ 0 \in Nat BY DEF Ids
    <3> QED BY <3>1, LineIs
  <2>4. File(r) /\ Len(r) = 1 /\ r[1] = Blank
    <3>1. File(<<Blank>>) /\ Len(<<Blank>>) = 1 /\ <<Blank>>[1] = Blank BY <2>3, Pair
    <3> QED BY <2>2, <3>1
  <2>5. Blank.tag = "blank" BY DEF Blank, Line
  <2>6. Taken(s, r, p, p, 1)
    <3>1. 0 <= 1 /\ 1 + (p - p) <= Len(r) BY <2>4
    <3>2. \A k \in (p + 1)..p : Like(s[k], r[k - p + 1]) OBVIOUS
    <3>3. \A k \in 1..Len(r) : k = 1 BY <2>4
    <3> QED BY <2>4, <2>5, <3>1, <3>2, <3>3 DEF Taken
  <2>7. \A k \in (p + 1)..(q - 1) : s[k].tag \in {"blank", "style"} BY <1>7, <1>8
  <2>8. \A k \in (p + 1)..p : s[k].tag \in {"blank", "style"} OBVIOUS
  <2>9. p <= p /\ p < q OBVIOUS
  <2>10. Excerpt(s, r, p, q, p, p, 1) BY <2>6, <2>7, <2>8, <2>9 DEF Excerpt
  <2> QED BY <2>1, <2>2, <2>10
<1>9. CASE full # {}
  <2>1. PICK i \in Int, j \in Int : /\ i = First(full) /\ j = Final(full) /\ i \in full /\ j \in full
                                    /\ \A k \in full : i <= k /\ k <= j
    <3>1. full \subseteq Nat /\ full \subseteq 1..n BY <1>5
    <3>2. First(full) \in full /\ \A k \in full : First(full) <= k BY <1>9, <3>1, FirstIs
    <3>3. Final(full) \in full /\ \A k \in full : k <= Final(full) BY <1>9, <3>1, FinalIs
    <3>6. \A k \in full : k \in Int BY <1>5
    <3>4. First(full) \in Int /\ Final(full) \in Int BY <3>2, <3>3, <3>6
    <3>5. \A k \in full : First(full) <= k /\ k <= Final(full) BY <3>2, <3>3
    <3> QED BY <3>2, <3>3, <3>4, <3>5
  <2>2. 2 <= i /\ i <= j /\ j <= n - 1 BY <1>6, <2>1
  <2>3. PICK r : r = SubSeq(y, i, j) OBVIOUS
  <2>4. Trimmed(y) = r BY <1>4, <1>9, <2>1, <2>3 DEF Trimmed
  <2>5. PICK m \in Int : m = j + 1 - i OBVIOUS
  <2>6. File(r) /\ Len(r) = m /\ \A k \in 1..m : r[k] = y[i - 1 + k]
    <3>1. 1 <= i /\ i <= j + 1 /\ j <= Len(y) BY <1>3, <2>2
    <3>2. /\ File(SubSeq(y, i, j)) /\ Len(SubSeq(y, i, j)) = j + 1 - i
          /\ \A k \in 1..(j + 1 - i) : SubSeq(y, i, j)[k] = y[i - 1 + k]
      <4>1. File(y) BY <1>1
      <4> QED BY <3>1, <4>1, Part
    <3> QED BY <2>3, <2>5, <3>2
  <2>7. PICK a \in Int, b \in Int : a = p + i - 2 /\ b = p + j - 1 OBVIOUS
  <2>8. p <= a /\ a <= b /\ b < q /\ b - a = m BY <1>2, <2>2, <2>5, <2>7
  <2>9. ASSUME NEW k \in Int, k \in (a + 1)..b PROVE Like(s[k], r[k - a + 0])
    <3>1. PICK c \in Int, d \in Int : c = k - a /\ d = k - p + 1 OBVIOUS
    <3>2. c \in 1..m /\ i - 1 + c = d /\ k \in (p + 1)..(q - 1) BY <2>7, <2>8, <2>9, <3>1
    <3>3. r[c] = y[d] BY <2>6, <3>2
    <3>4. Like(s[k], y[d]) BY <1>1, <3>1, <3>2
    <3>5. k - a + 0 = c BY <3>1
    <3> QED BY <3>3, <3>4, <3>5
  <2>10. Taken(s, r, a, b, 0)
    <3>1. 0 <= 0 /\ 0 + (b - a) <= Len(r) BY <2>6, <2>8
    <3>2. \A k \in 1..Len(r) : ~(k <= 0) /\ ~(0 + (b - a) < k) BY <2>6, <2>8
    <3> QED BY <2>6, <2>9, <3>1, <3>2 DEF Taken
  <2>11. ASSUME NEW k \in Int, k \in (p + 1)..a PROVE s[k].tag \in {"blank", "style"}
    <3>1. k - p + 1 < i /\ k \in (p + 1)..(q - 1) BY <2>7, <2>8, <2>11
    <3>2. k - p + 1 \notin full BY <2>1, <3>1
    <3> QED BY <1>7, <3>1, <3>2
  <2>12. ASSUME NEW k \in Int, k \in (b + 1)..(q - 1) PROVE s[k].tag \in {"blank", "style"}
    <3>1. j < k - p + 1 /\ k \in (p + 1)..(q - 1) BY <2>7, <2>8, <2>12
    <3>2. k - p + 1 \notin full BY <2>1, <3>1
    <3> QED BY <1>7, <3>1, <3>2
  <2>13. Excerpt(s, r, p, q, a, b, 0) BY <2>8, <2>10, <2>11, <2>12 DEF Excerpt
  <2> QED BY <2>4, <2>13
<1> QED BY <1>8, <1>9

\* New indentation does not change that.
LEMMA ReindentTaken ==
    ASSUME NEW s, NEW r, NEW a \in Int, NEW b \in Int, NEW u \in Int, NEW ind,
           Taken(s, r, a, b, u), a <= b, ind \in Nat
    PROVE  Taken(s, Reindent(r, ind), a, b, u) /\ Len(Reindent(r, ind)) = Len(r)
<1>1. /\ File(r) /\ 0 <= u /\ u + (b - a) <= Len(r)
      /\ \A k \in (a + 1)..b : Like(s[k], r[k - a + u])
      /\ \A k \in 1..Len(r) : k <= u \/ u + (b - a) < k => r[k].tag = "blank"
  BY DEF Taken
<1>2. PICK n \in Int : n = Len(r) /\ n \in Nat BY <1>1, FileLen
<1>3. PICK y : y = Reindent(r, ind) OBVIOUS
<1>4. File(y) /\ Len(y) = n /\ \A k \in 1..n : Like(r[k], y[k])
  <2>1. File(r) BY <1>1
  <2>2. /\ File(Reindent(r, ind)) /\ Len(Reindent(r, ind)) = Len(r)
        /\ \A k \in 1..Len(r) : Like(r[k], Reindent(r, ind)[k])
    BY <2>1, ReindentIs
  <2> QED BY <1>2, <1>3, <2>2
<1>5. ASSUME NEW k \in Int, k \in (a + 1)..b PROVE Like(s[k], y[k - a + u])
  <2>1. PICK m \in Int : m = k - a + u OBVIOUS
  <2>2. m \in 1..n
    <3>1. 0 <= u /\ u + (b - a) <= n BY <1>1, <1>2
    <3> QED BY <1>5, <2>1, <3>1
  <2>3. Like(s[k], r[m]) /\ Like(r[m], y[m]) BY <1>1, <1>4, <1>5, <2>1, <2>2
  <2>4. Like(s[k], y[m]) BY <2>3, LikeTrans
  <2> QED BY <2>1, <2>4
<1>6. ASSUME NEW k \in 1..n, k <= u \/ u + (b - a) < k PROVE y[k].tag = "blank"
  <2>1. r[k].tag = "blank" /\ Like(r[k], y[k]) BY <1>1, <1>2, <1>4, <1>6
  <2> QED BY <2>1 DEF Like
<1>7. Taken(s, y, a, b, u)
  <2>1. 0 <= u /\ u + (b - a) <= Len(y) BY <1>1, <1>2, <1>4
  <2> QED BY <1>4, <1>5, <1>6, <2>1 DEF Taken
<1> QED BY <1>2, <1>3, <1>4, <1>7
-----------------------------------------------------------------------------
(* What a session leaves in the place of its block.                        *)

LEMMA BalancedCat ==
    ASSUME NEW s, NEW i \in Int, NEW j \in Int, NEW k \in Int, i <= j, j <= k,
           Balanced(s, i, j), Balanced(s, j, k)
    PROVE  Balanced(s, i, k)
<1>1. /\ Depth(s, j) = Depth(s, i) /\ \A m \in i..j : Depth(s, m) >= Depth(s, i)
      /\ Depth(s, k) = Depth(s, j) /\ \A m \in j..k : Depth(s, m) >= Depth(s, j)
  BY DEF Balanced
<1>2. \A m \in i..k : m \in i..j \/ m \in j..k OBVIOUS
<1>3. \A m \in i..k : Depth(s, m) >= Depth(s, i) BY <1>1, <1>2
<1> QED BY <1>1, <1>3 DEF Balanced

\* Lines that open and close nothing.
LEMMA BalancedFlat ==
    ASSUME NEW s, NEW i \in Int, NEW j \in Int, 0 <= i, i <= j,
           \A k \in (i + 1)..j : Step(s[k]) = 0
    PROVE  Balanced(s, i, j) /\ \A k \in i..j : Depth(s, k) = Depth(s, i)
<1> DEFINE S == {k \in Nat : Depth(s, k) = Depth(s, i)}
<1>0. i \in Nat /\ j \in Nat OBVIOUS
<1>1. i \in S BY <1>0
<1>2. ASSUME NEW k \in Int, k \in i..(j - 1), k \in S PROVE k + 1 \in S
  <2>1. k \in Nat /\ k + 1 \in Nat /\ k + 1 \in (i + 1)..j BY <1>2
  <2>2. Depth(s, k + 1) = Depth(s, k) + Step(s[k + 1]) BY <2>1, DepthNext
  <2>3. Depth(s, k) \in Int /\ Step(s[k + 1]) = 0 BY <2>1, DepthType
  <2>4. Depth(s, k + 1) = Depth(s, k) BY <2>2, <2>3
  <2> QED BY <1>2, <2>1, <2>4
<1>3. \A k \in i..(j - 1) : k \in S => k + 1 \in S BY <1>2
<1>4. \A k \in i..j : k \in S
  <2> HIDE DEF S
  <2> QED BY <1>0, <1>1, <1>3, Upward
<1>5. \A k \in i..j : Depth(s, k) = Depth(s, i) BY <1>4
<1>6. \A k \in i..j : Depth(s, k) >= Depth(s, i)
  <2>1. Depth(s, i) \in Int BY DepthType
  <2> QED BY <1>5, <2>1
<1>7. j \in i..j OBVIOUS
<1> QED BY <1>5, <1>6, <1>7 DEF Balanced

\* A <div> around lines.
LEMMA BalancedWrap ==
    ASSUME NEW s, NEW i \in Int, NEW j \in Int, 0 <= i, i + 1 <= j, s[i + 1].tag = "div",
           Balanced(s, i + 1, j), s[j + 1].tag = "/div"
    PROVE  Balanced(s, i, j + 1)
<1>1. PICK i1 \in Int, j1 \in Int : i1 = i + 1 /\ j1 = j + 1 OBVIOUS
<1>2. Step(s[i1]) = 1 /\ Step(s[j1]) = -1 BY <1>1 DEF Step
<1>3. Depth(s, i1) = Depth(s, i) + Step(s[i1]) /\ Depth(s, j1) = Depth(s, j) + Step(s[j1])
  <2>1. i \in Nat /\ j \in Nat OBVIOUS
  <2>2. Depth(s, i + 1) = Depth(s, i) + Step(s[i + 1]) BY <2>1, DepthNext
  <2>3. Depth(s, j + 1) = Depth(s, j) + Step(s[j + 1]) BY <2>1, DepthNext
  <2> QED BY <1>1, <2>2, <2>3
<1>4. Depth(s, i) \in Int BY DepthType
<1>5. Depth(s, j) = Depth(s, i1) /\ \A m \in i1..j : Depth(s, m) >= Depth(s, i1)
  BY <1>1 DEF Balanced
<1>6. Depth(s, i1) = Depth(s, i) + 1 BY <1>2, <1>3
<1>7. Depth(s, j) = Depth(s, i) + 1 BY <1>5, <1>6
<1>8. Depth(s, j1) = Depth(s, i) BY <1>2, <1>3, <1>4, <1>7
<1>9. ASSUME NEW m \in Int, m \in i..j1 PROVE Depth(s, m) >= Depth(s, i)
  <2>1. CASE m \in i1..j
    <3>1. Depth(s, m) >= Depth(s, i1) /\ Depth(s, m) \in Int BY <1>5, <2>1, DepthType
    <3> QED BY <1>4, <1>6, <3>1
  <2>2. CASE m = i \/ m = j1
    <3>1. Depth(s, m) = Depth(s, i) BY <1>8, <2>2
    <3> QED BY <1>4, <3>1
  <2> QED BY <1>1, <1>9, <2>1, <2>2
<1>10. Balanced(s, i, j1) BY <1>8, <1>9 DEF Balanced
<1> QED BY <1>1, <1>10

LEMMA FrameBalanced ==
    ASSUME NEW s, NEW z, NEW h \in Int, NEW w \in Int, NEW v \in Int, NEW g \in Int,
           NEW strict, File(s), Frame(s, z, h, w, v, g, strict)
    PROVE  Balanced(s, h - 1, g)
<1>1. /\ Elem(s, w, v) /\ 1 <= h /\ h <= w /\ w < v /\ v <= g /\ g <= Len(s)
      /\ \A k \in Own(s, z) : k \in Int /\ h <= k /\ k <= g
  BY FrameHull
<1>2. /\ \A k \in h..(w - 1) : s[k].tag \in {"mark", "style", "blank"}
      /\ \A k \in (v + 1)..g : s[k].tag = "mark"
  BY DEF Frame
<1>3. PICK h1 \in Int, w1 \in Int : h1 = h - 1 /\ w1 = w - 1 OBVIOUS
<1>4. Balanced(s, h1, w1)
  <2>1. ASSUME NEW k \in (h1 + 1)..w1 PROVE Step(s[k]) = 0
    <3>1. k \in h..(w - 1) BY <1>3
    <3> QED BY <1>2, <3>1 DEF Step
  <2>2. 0 <= h1 /\ h1 <= w1 BY <1>1, <1>3
  <2>3. \A k \in (h1 + 1)..w1 : Step(s[k]) = 0 BY <2>1
  <2>4. Balanced(s, h1, w1) /\ \A k \in h1..w1 : Depth(s, k) = Depth(s, h1)
    BY <2>2, <2>3, BalancedFlat
  <2> QED BY <2>4
<1>5. Balanced(s, w1, v)
  <2>1. Balanced(s, w - 1, v) /\ Balanced(s, w, v - 1) /\ 1 <= w /\ w < v /\ v <= Len(s)
    BY <1>1, BalancedElem
  <2> QED BY <1>3, <2>1
<1>6. Balanced(s, v, g)
  <2>1. ASSUME NEW k \in (v + 1)..g PROVE Step(s[k]) = 0
    BY <1>2 DEF Step
  <2>2. 0 <= v /\ v <= g BY <1>1
  <2>3. \A k \in (v + 1)..g : Step(s[k]) = 0 BY <2>1
  <2>4. Balanced(s, v, g) /\ \A k \in v..g : Depth(s, k) = Depth(s, v)
    BY <2>2, <2>3, BalancedFlat
  <2> QED BY <2>4
<1>7. h1 <= w1 /\ w1 <= v /\ v <= g BY <1>1, <1>3
<1>8. Balanced(s, h1, v) BY <1>4, <1>5, <1>7, BalancedCat
<1>9. h1 <= v BY <1>7
<1>10. Balanced(s, h1, g) BY <1>6, <1>7, <1>8, <1>9, BalancedCat
<1> QED BY <1>3, <1>10

LEMMA ExcerptBalanced ==
    ASSUME NEW s, NEW r, NEW p \in Int, NEW q \in Int, NEW a \in Int, NEW b \in Int,
           NEW u \in Int, File(s), Elem(s, p, q), Excerpt(s, r, p, q, a, b, u)
    PROVE  Balanced(r, 0, Len(r))
<1>1. /\ Taken(s, r, a, b, u) /\ p <= a /\ a <= b /\ b < q
      /\ \A k \in (p + 1)..a : s[k].tag \in {"blank", "style"}
      /\ \A k \in (b + 1)..(q - 1) : s[k].tag \in {"blank", "style"}
  BY DEF Excerpt
<1>2. /\ File(r) /\ 0 <= u /\ u + (b - a) <= Len(r)
      /\ \A k \in (a + 1)..b : Like(s[k], r[k - a + u])
      /\ \A k \in 1..Len(r) : k <= u \/ u + (b - a) < k => r[k].tag = "blank"
  BY <1>1 DEF Taken
<1>3. Balanced(s, p - 1, q) /\ Balanced(s, p, q - 1) /\ 1 <= p /\ p < q /\ q <= Len(s)
  BY BalancedElem
<1>n. PICK n \in Int : n = Len(r)
  <2>1. Len(r) \in Int BY <1>2, FileLen
  <2> QED BY <2>1
<1>e. PICK q1 \in Int, e \in Int, c \in Int : q1 = q - 1 /\ e = u - a /\ c = b + (u - a)
  OBVIOUS
<1>4. q1 = q - 1 /\ e = u - a /\ n = Len(r) /\ c = b + e BY <1>n, <1>e
<1>5. 0 <= p /\ p <= a /\ a <= b /\ b <= q1 /\ 0 <= u /\ u <= c /\ c <= n /\ a + e = u
  <2>1. u + (b - a) <= n /\ 0 <= u BY <1>2, <1>4
  <2>2. p <= a /\ a <= b /\ b < q /\ 1 <= p BY <1>1, <1>3
  <2> QED BY <1>4, <2>1, <2>2
<1>6. Depth(s, a) = Depth(s, p)
  <2>1. \A k \in (p + 1)..a : Step(s[k]) = 0 BY <1>1 DEF Step
  <2>2. Balanced(s, p, a) /\ \A k \in p..a : Depth(s, k) = Depth(s, p)
    BY <1>5, <2>1, BalancedFlat
  <2>3. a \in p..a BY <1>5
  <2> QED BY <2>2, <2>3
<1>7. Depth(s, q1) = Depth(s, b)
  <2>1. \A k \in (b + 1)..q1 : Step(s[k]) = 0 BY <1>1, <1>4 DEF Step
  <2>2. 0 <= b BY <1>5
  <2>3. Balanced(s, b, q1) /\ \A k \in b..q1 : Depth(s, k) = Depth(s, b)
    BY <1>5, <2>1, <2>2, BalancedFlat
  <2>4. q1 \in b..q1 BY <1>5
  <2> QED BY <2>3, <2>4
<1>8. Balanced(s, a, b)
  <2>1. Depth(s, q1) = Depth(s, p) /\ \A k \in p..q1 : Depth(s, k) >= Depth(s, p)
    BY <1>3, <1>4 DEF Balanced
  <2>2. Depth(s, b) = Depth(s, a) BY <1>6, <1>7, <2>1
  <2>3. \A k \in a..b : k \in p..q1 BY <1>5
  <2>4. \A k \in a..b : Depth(s, k) >= Depth(s, a) BY <1>6, <2>1, <2>3
  <2> QED BY <2>2, <2>4 DEF Balanced
<1>9. Balanced(r, u, c)
  <2>1. ASSUME NEW k \in (a + 1)..b PROVE Step(r[k + e]) = Step(s[k])
    <3>1. k + e = k - a + u BY <1>4
    <3>2. Like(s[k], r[k + e]) BY <1>2, <3>1
    <3> QED BY <3>2, LikeStep
  <2>2. Alike(s, r, a, b, e) BY <2>1 DEF Alike
  <2>3. 0 <= a /\ 0 <= a + e BY <1>5
  <2>4. Balanced(r, a + e, b + e) BY <1>5, <1>8, <2>2, <2>3, BalancedCopy
  <2> QED BY <1>4, <1>5, <2>4
<1>10. Balanced(r, 0, u)
  <2>1. ASSUME NEW k \in (0 + 1)..u PROVE Step(r[k]) = 0
    <3>1. k \in 1..Len(r) /\ k <= u BY <1>4, <1>5
    <3>2. r[k].tag = "blank" BY <1>2, <3>1
    <3> QED BY <3>2 DEF Step
  <2>2. PICK o \in Int : o = 0 OBVIOUS
  <2>3. 0 <= o /\ o <= u /\ \A k \in (o + 1)..u : Step(r[k]) = 0 BY <1>5, <2>1, <2>2
  <2>4. Balanced(r, o, u) /\ \A k \in o..u : Depth(r, k) = Depth(r, o)
    BY <2>3, BalancedFlat
  <2> QED BY <2>2, <2>4
<1>11. Balanced(r, c, n)
  <2>1. ASSUME NEW k \in (c + 1)..n PROVE Step(r[k]) = 0
    <3>1. k \in 1..Len(r) /\ u + (b - a) < k BY <1>4, <1>5
    <3>2. r[k].tag = "blank" BY <1>2, <3>1
    <3> QED BY <3>2 DEF Step
  <2>2. 0 <= c /\ \A k \in (c + 1)..n : Step(r[k]) = 0 BY <1>5, <2>1
  <2>3. Balanced(r, c, n) /\ \A k \in c..n : Depth(r, k) = Depth(r, c)
    BY <1>5, <2>2, BalancedFlat
  <2> QED BY <2>3
<1>12. PICK o \in Int : o = 0 OBVIOUS
<1>13. Balanced(r, o, u) /\ o <= u /\ o <= c BY <1>5, <1>10, <1>12
<1>14. Balanced(r, o, c) BY <1>5, <1>9, <1>13, BalancedCat
<1>15. Balanced(r, o, n) BY <1>5, <1>11, <1>13, <1>14, BalancedCat
<1> QED BY <1>4, <1>12, <1>15
\* The new lines: those after a, up to b, of s after y others, and others.
NewLines(new, s, a, b, y, z0) ==
    /\ File(new) /\ Balanced(new, 0, Len(new)) /\ 0 <= y /\ y + (b - a) <= Len(new)
    /\ \A k \in (a + 1)..b : Like(s[k], new[k - a + y])
    /\ \A k \in 1..Len(new) :
        (k <= y \/ y + (b - a) < k) /\ new[k].role \in Scaffold => new[k].id = z0

LEMMA ExcerptNew ==
    ASSUME NEW s, NEW r, NEW p \in Int, NEW q \in Int, NEW a \in Int, NEW b \in Int,
           NEW u \in Int, NEW z0, File(s), Elem(s, p, q), Excerpt(s, r, p, q, a, b, u)
    PROVE  NewLines(r, s, a, b, u, z0)
<1>1. Balanced(r, 0, Len(r)) BY ExcerptBalanced
<1>2. /\ File(r) /\ 0 <= u /\ u + (b - a) <= Len(r)
      /\ \A k \in (a + 1)..b : Like(s[k], r[k - a + u])
      /\ \A k \in 1..Len(r) : k <= u \/ u + (b - a) < k => r[k].tag = "blank"
  BY DEF Excerpt, Taken
<1>3. ASSUME NEW k \in 1..Len(r), k <= u \/ u + (b - a) < k PROVE r[k].role \notin Scaffold
  <2>1. LineOK(r[k]) BY <1>2, FileIs
  <2> QED BY <1>2, <1>3, <2>1 DEF LineOK, Scaffold
<1> QED BY <1>1, <1>2, <1>3 DEF NewLines

\* t is s with the lines h to g replaced by "new".
Replaced(s, t, h, g, new, n) ==
    /\ File(t) /\ Len(new) = n /\ Len(t) = Len(s) + (n + h - 1 - g)
    /\ \A k \in 1..(h - 1) : t[k] = s[k]
    /\ \A k \in (g + 1)..Len(s) : t[k + (n + h - 1 - g)] = s[k]
    /\ \A k \in h..(h - 1 + n) : t[k] = new[k - (h - 1)]

LEMMA ReplacedIs ==
    ASSUME NEW s, NEW new, NEW h \in Int, NEW g \in Int, File(s), File(new), 1 <= h, h <= g + 1,
           g <= Len(s)
    PROVE  \E n \in Int : 0 <= n /\ Replaced(s, Splice(s, h, g, new), h, g, new, n)
<1>1. PICK n \in Int : Len(new) = n /\ 0 <= n
  <2>1. Len(new) \in Nat BY FileLen
  <2> QED BY <2>1
<1>2. /\ File(Splice(s, h, g, new))
      /\ Len(Splice(s, h, g, new)) = Len(s) + (n + h - 1 - g)
      /\ \A k \in 1..(h - 1) : Splice(s, h, g, new)[k] = s[k]
      /\ \A k \in (g + 1)..Len(s) : Splice(s, h, g, new)[k + (n + h - 1 - g)] = s[k]
      /\ \A k \in h..(h - 1 + n) : Splice(s, h, g, new)[k] = new[k - (h - 1)]
  BY <1>1, SpliceIs
<1> QED BY <1>1, <1>2 DEF Replaced

LEMMA ReplaceEdit ==
    ASSUME NEW s, NEW t, NEW new, NEW h \in Int, NEW g \in Int, NEW n \in Int, NEW a \in Int,
           NEW b \in Int, NEW y \in Int, NEW z0, File(s), 1 <= h, h <= g + 1, g <= Len(s),
           Balanced(s, h - 1, g), h - 1 <= a, a <= b, b <= g, Replaced(s, t, h, g, new, n),
           0 <= n, NewLines(new, s, a, b, y, z0)
    PROVE  /\ Edit(s, t, h - 1, g, n + h - 1 - g, a, b, h - 1 + y - a, z0)
           /\ Balanced(t, h - 1, h - 1 + n)
<1>0. Len(s) \in Nat BY FileLen
<1>1. /\ File(t) /\ Len(new) = n /\ Len(t) = Len(s) + (n + h - 1 - g)
      /\ \A k \in 1..(h - 1) : t[k] = s[k]
      /\ \A k \in (g + 1)..Len(s) : t[k + (n + h - 1 - g)] = s[k]
      /\ \A k \in h..(h - 1 + n) : t[k] = new[k - (h - 1)]
  BY DEF Replaced
<1>2. /\ File(new) /\ Balanced(new, 0, n) /\ 0 <= y /\ y + (b - a) <= n
      /\ \A k \in (a + 1)..b : Like(s[k], new[k - a + y])
      /\ \A k \in 1..n :
            (k <= y \/ y + (b - a) < k) /\ new[k].role \in Scaffold => new[k].id = z0
  BY <1>1 DEF NewLines
<1>3. PICK i \in Int, e \in Int, f \in Int, m \in Int :
        i = h - 1 /\ e = n + h - 1 - g /\ f = h - 1 + y - a /\ m = h - 1 + n
  OBVIOUS
<1>4. 0 <= y /\ y + (b - a) <= n BY <1>2
<1>5. ASSUME NEW k \in Int, k \in 1..n PROVE t[k + i] = new[k]
  <2>1. PICK c \in Int : c = k + i OBVIOUS
  <2>2. c \in h..(h - 1 + n) /\ c - (h - 1) = k BY <1>3, <1>5, <2>1
  <2> QED BY <1>1, <2>1, <2>2
<1>6. Balanced(t, i, m)
  <2>1. PICK o \in Int : o = 0 OBVIOUS
  <2>2. Balanced(new, o, n) /\ 0 <= o /\ o <= n /\ 0 <= o + i BY <1>2, <1>3, <2>1
  <2>3. ASSUME NEW k \in (o + 1)..n PROVE Step(t[k + i]) = Step(new[k])
    <3>1. k \in 1..n /\ k \in Int BY <2>1
    <3> QED BY <1>5, <3>1
  <2>4. Alike(new, t, o, n, i) BY <2>3 DEF Alike
  <2>5. Balanced(t, o + i, n + i) BY <2>2, <2>4, BalancedCopy
  <2>6. o + i = i /\ n + i = m BY <1>3, <2>1
  <2> QED BY <2>5, <2>6
<1>7. ASSUME NEW k \in Int, k \in (a + 1)..b PROVE Like(s[k], t[k + f])
  <2>1. PICK c \in Int : c = k - a + y OBVIOUS
  <2>2. c \in 1..n /\ c + i = k + f BY <1>3, <1>4, <1>7, <2>1
  <2>3. t[c + i] = new[c] BY <1>5, <2>2
  <2>4. Like(s[k], new[c]) BY <1>2, <1>7, <2>1
  <2> QED BY <2>2, <2>3, <2>4
<1>8. ASSUME NEW k \in Int, k \in (i + 1)..(g + e), t[k].role \in Scaffold,
             ~(a + f < k /\ k <= b + f)
      PROVE  t[k].id = z0
  <2>1. PICK c \in Int : c = k - i OBVIOUS
  <2>2. c \in 1..n /\ c + i = k BY <1>3, <1>8, <2>1
  <2>3. c <= y \/ y + (b - a) < c BY <1>3, <1>8, <2>1
  <2>4. t[k] = new[c] BY <1>5, <2>2
  <2> QED BY <1>2, <1>8, <2>2, <2>3, <2>4
<1>9. m = g + e /\ i <= g /\ i <= g + e /\ i <= a /\ i <= a + f /\ b + f <= g + e
  BY <1>3, <1>4
<1>10. Edit(s, t, i, g, e, a, b, f, z0)
  <2>1. \A k \in 1..i : t[k] = s[k] BY <1>1, <1>3
  <2>2. \A k \in (g + 1)..Len(s) : t[k + e] = s[k] BY <1>1, <1>3
  <2>3. \A k \in (a + 1)..b : Like(s[k], t[k + f]) BY <1>7
  <2>4. \A k \in (i + 1)..(g + e) :
            t[k].role \in Scaffold /\ ~(a + f < k /\ k <= b + f) => t[k].id = z0
    BY <1>8
  <2>5. Balanced(s, i, g) BY <1>3
  <2>6. Balanced(t, i, g + e) BY <1>6, <1>9
  <2>7. Len(t) = Len(s) + e BY <1>1, <1>3
  <2> QED BY <1>9, <2>1, <2>2, <2>3, <2>4, <2>5, <2>6, <2>7 DEF Edit
<1> QED BY <1>3, <1>6, <1>10

\* What is kept of the lines h to g: none, or some of those inside of a <div>
\* around an original or a variant, without empty lines at both ends.
Cut(s, h, g, a, b) ==
    /\ h - 1 <= a /\ a <= b /\ b <= g
    /\ \/ a = b
       \/ \E p, q \in Int :
            /\ Elem(s, p, q) /\ s[p].role \in {"original", "variant"}
            /\ h <= p /\ q <= g /\ p <= a /\ b < q
            /\ \A k \in (p + 1)..a : s[k].tag \in {"blank", "style"}
            /\ \A k \in (b + 1)..(q - 1) : s[k].tag \in {"blank", "style"}

Outer(s, w) == s[w].role \notin {"original", "variant"}

Strict(strict) == strict = TRUE

LEMMA StandingRole ==
    ASSUME NEW o, NEW x, NEW s, NEW z, NEW h \in Int, NEW w \in Int, NEW v \in Int,
           NEW g \in Int, NEW strict, x \in BOOLEAN, Standing(o, x, s, z, h, w, v, g, strict)
    PROVE  Strict(strict) => Outer(s, w)
<1> SUFFICES ASSUME strict = TRUE PROVE s[w].role \notin {"original", "variant"}
  BY DEF Outer, Strict
<1>1. CASE o = "open" /\ BlockAt(x, s, z, w, v)
  <2>1. CASE x
    <3>1. Is(s, w, "wrapper", z) BY <1>1, <2>1 DEF BlockAt, BlockLines
    <3> QED BY <3>1 DEF Is
  <2>2. CASE ~x
    <3>1. BlockAt(x, s, z, w, v) = (Frame(s, z, w - 1, w, v, v + 1, TRUE) /\ BlockLines(s, z, w, w - 1, v + 1))
      BY <2>2 DEF BlockAt
    <3>2. Is(s, w, "wrapper", z) BY <1>1, <3>1 DEF BlockLines
    <3> QED BY <3>2 DEF Is
  <2> QED BY <2>1, <2>2
<1>2. CASE strict = x /\ \E c \in Int : CarbonAt(x, s, z, c, w, v)
  <2>1. x BY <1>2
  <2>2. Is(s, w, "carbonize", z) BY <1>2, <2>1 DEF CarbonAt
  <2> QED BY <2>2 DEF Is
<1> QED BY <1>1, <1>2 DEF Standing

\* Where the lines of another session are then.
LEMMA CutSituated ==
    ASSUME NEW s, NEW z, NEW h \in Int, NEW w \in Int, NEW v \in Int, NEW g \in Int,
           NEW strict, NEW z0, NEW h0 \in Int, NEW w0 \in Int, NEW v0 \in Int,
           NEW g0 \in Int, NEW strict0, NEW a \in Int, NEW b \in Int, File(s),
           Frame(s, z, h, w, v, g, strict), Frame(s, z0, h0, w0, v0, g0, strict0), z0 # z,
           strict => s[w].role \notin {"original", "variant"},
           Cut(s, h0, g0, a, b)
    PROVE  Situated(s, h0 - 1, g0, a, b, z, h, w, v, g, strict)
<1>1. /\ Elem(s, w, v) /\ 1 <= h /\ h <= w /\ w < v /\ v <= g /\ g <= Len(s)
      /\ \A k \in Own(s, z) : k \in Int /\ h <= k /\ k <= g
  BY FrameHull
<1>2. /\ Elem(s, w0, v0) /\ 1 <= h0 /\ h0 <= w0 /\ w0 < v0 /\ v0 <= g0 /\ g0 <= Len(s)
      /\ \A k \in Own(s, z0) : k \in Int /\ h0 <= k /\ k <= g0
  BY FrameHull
<1>3. /\ h \in Nat /\ w \in Nat /\ v \in Nat /\ g \in Nat
      /\ h0 \in Nat /\ w0 \in Nat /\ v0 \in Nat /\ g0 \in Nat
  BY <1>1, <1>2
<1>4. \/ g0 < h
      \/ g < h0
      \/ h0 <= h /\ g <= g0
      \/ w < h0 /\ g0 < v /\ (strict => Depth(s, h0 - 1) > Depth(s, w))
  BY <1>3, FramesApart
<1>5. CASE g0 < h BY <1>5 DEF Situated
<1>6. CASE g < h0
  <2>1. g <= h0 - 1 BY <1>6
  <2> QED BY <2>1 DEF Situated
<1>7. CASE w < h0 /\ g0 < v /\ (strict => Depth(s, h0 - 1) > Depth(s, w))
  <2>1. w <= h0 - 1 BY <1>7
  <2> QED BY <1>7, <2>1 DEF Situated
<1>8. CASE h0 <= h /\ g <= g0
  <2>1. h0 - 1 < h BY <1>8
  <2>2. CASE a = b
    <3>1. \A k \in (a + 1)..b : k \notin Own(s, z) BY <2>2
    <3> QED BY <1>8, <2>1, <3>1 DEF Situated
  <2>3. CASE a # b
    <3>1. PICK p \in Int, q \in Int :
            /\ Elem(s, p, q) /\ s[p].role \in {"original", "variant"}
            /\ h0 <= p /\ q <= g0 /\ p <= a /\ b < q
            /\ \A k \in (p + 1)..a : s[k].tag \in {"blank", "style"}
            /\ \A k \in (b + 1)..(q - 1) : s[k].tag \in {"blank", "style"}
      BY <2>3 DEF Cut
    <3>2. p \in Nat /\ q \in Nat
      <4>1. p \in DOMAIN s /\ q \in DOMAIN s /\ DOMAIN s = 1..Len(s)
        BY <3>1, FileIs DEF Elem
      <4> QED BY <4>1
    <3>3. p = w => ~strict BY <3>1
    <3>4. \/ \A k \in (p + 1)..(q - 1) : k \notin Own(s, z)
          \/ p < h /\ g < q
      BY <1>3, <3>1, <3>2, <3>3, InteriorApart
    <3>5. CASE \A k \in (p + 1)..(q - 1) : k \notin Own(s, z)
      <4>1. p <= a /\ b < q BY <3>1
      <4>2. \A k \in (a + 1)..b : k \in (p + 1)..(q - 1) BY <4>1
      <4>3. \A k \in (a + 1)..b : k \notin Own(s, z) BY <3>5, <4>2
      <4> QED BY <1>8, <2>1, <4>3 DEF Situated
    <3>6. CASE p < h /\ g < q
      <4>1. h \in Own(s, z) /\ s[h].tag \notin {"blank", "style"}
        <5>1. h \in Own(s, z) /\ s[h].tag # "style" BY DEF Frame
        <5> QED BY <5>1, OwnNotBlank
      <4>2. s[g].tag \notin {"blank", "style"}
        <5>1. CASE g = v
          <6>1. s[v].tag = "/div" BY <1>1 DEF Elem
          <6> QED BY <5>1, <6>1
        <5>2. CASE g # v
          <6>1. g \in (v + 1)..g BY <1>1, <5>2
          <6>2. s[g].tag = "mark" BY <6>1 DEF Frame
          <6> QED BY <6>2
        <5> QED BY <5>1, <5>2
      <4>3. h \notin (p + 1)..a BY <3>1, <4>1
      <4>4. g \notin (b + 1)..(q - 1) BY <3>1, <4>2
      <4>5. a < h /\ g <= b BY <1>1, <3>6, <4>3, <4>4
      <4> QED BY <4>5 DEF Situated
    <3> QED BY <3>4, <3>5, <3>6
  <2> QED BY <2>2, <2>3
<1> QED BY <1>4, <1>5, <1>6, <1>7, <1>8
-----------------------------------------------------------------------------

Swap(s, t, h, g, new, n, a, b, y, z0) ==
    /\ Cut(s, h, g, a, b) /\ Replaced(s, t, h, g, new, n) /\ 0 <= n
    /\ NewLines(new, s, a, b, y, z0)

LEMMA SwapEdit ==
    ASSUME NEW s, NEW t, NEW new, NEW h \in Int, NEW w \in Int, NEW v \in Int, NEW g \in Int,
           NEW strict, NEW n \in Int, NEW a \in Int, NEW b \in Int, NEW y \in Int, NEW z0,
           File(s), Frame(s, z0, h, w, v, g, strict), Swap(s, t, h, g, new, n, a, b, y, z0)
    PROVE  /\ File(t) /\ 1 <= h /\ h <= g /\ g <= Len(s) /\ h - 1 <= a /\ a <= b /\ b <= g
           /\ Edit(s, t, h - 1, g, n + h - 1 - g, a, b, h - 1 + y - a, z0)
           /\ Balanced(t, h - 1, h - 1 + n)
<1>1. 1 <= h /\ h <= w /\ w < v /\ v <= g /\ g <= Len(s)
  BY FrameHull
<1>2. Balanced(s, h - 1, g)
  BY FrameBalanced
<1>3. /\ Replaced(s, t, h, g, new, n) /\ 0 <= n /\ NewLines(new, s, a, b, y, z0)
      /\ Cut(s, h, g, a, b)
  BY DEF Swap
<1>4. h - 1 <= a /\ a <= b /\ b <= g
  BY <1>3 DEF Cut
<1>5. File(t)
  BY <1>3 DEF Replaced
<1>6. h <= g + 1 /\ h <= g
  BY <1>1
<1>7. /\ Edit(s, t, h - 1, g, n + h - 1 - g, a, b, h - 1 + y - a, z0)
      /\ Balanced(t, h - 1, h - 1 + n)
  <2>1. 1 <= h /\ h <= g + 1 /\ g <= Len(s)
    BY <1>1, <1>6
  <2> HIDE <1>1, <1>5, <1>6
  <2>2. Replaced(s, t, h, g, new, n) /\ 0 <= n /\ NewLines(new, s, a, b, y, z0)
    BY <1>3
  <2> QED
    BY <2>1, <2>2, <1>2, <1>4, ReplaceEdit
<1> QED
  BY <1>1, <1>4, <1>5, <1>6, <1>7

LEMMA SwapNested ==
    ASSUME NEW s, NEW t, NEW new, NEW h \in Int, NEW w \in Int, NEW v \in Int, NEW g \in Int,
           NEW strict, NEW n \in Int, NEW a \in Int, NEW b \in Int, NEW y \in Int, NEW z0,
           File(s), Frame(s, z0, h, w, v, g, strict), Swap(s, t, h, g, new, n, a, b, y, z0),
           Nested(s)
    PROVE  File(t) /\ Nested(t)
<1>1. /\ File(t) /\ 1 <= h /\ h <= g /\ g <= Len(s) /\ h - 1 <= a /\ a <= b /\ b <= g
      /\ Edit(s, t, h - 1, g, n + h - 1 - g, a, b, h - 1 + y - a, z0)
      /\ Balanced(t, h - 1, h - 1 + n)
  BY SwapEdit
<1>2. PICK i \in Int : i = h - 1
  OBVIOUS
<1>3. PICK e \in Int : e = n + h - 1 - g
  OBVIOUS
<1>4. PICK f \in Int : f = h - 1 + y - a
  OBVIOUS
<1>5. Edit(s, t, i, g, e, a, b, f, z0)
  BY <1>1, <1>2, <1>3, <1>4
<1>6. i \in Nat /\ g \in Nat /\ a \in Nat /\ b \in Nat
  BY <1>1, <1>2
<1>7. File(t)
  BY <1>1
<1> HIDE <1>1, <1>2, <1>3, <1>4
<1>8. Nested(t)
  BY <1>5, <1>6, <1>7, EditNested
<1> QED
  BY <1>7, <1>8

LEMMA SwapOthers ==
    ASSUME NEW s, NEW t, NEW new, NEW h \in Int, NEW w \in Int, NEW v \in Int, NEW g \in Int,
           NEW strict, NEW n \in Int, NEW a \in Int, NEW b \in Int, NEW y \in Int, NEW z0,
           NEW z, NEW o, NEW x,
           File(s), Frame(s, z0, h, w, v, g, strict), Swap(s, t, h, g, new, n, a, b, y, z0),
           x \in BOOLEAN, z # z0, Whole(o, x, s, z)
    PROVE  Whole(o, x, t, z)
<1>1. /\ File(t) /\ 1 <= h /\ h <= g /\ g <= Len(s) /\ h - 1 <= a /\ a <= b /\ b <= g
      /\ Edit(s, t, h - 1, g, n + h - 1 - g, a, b, h - 1 + y - a, z0)
      /\ Balanced(t, h - 1, h - 1 + n)
  BY SwapEdit
<1>7. PICK i \in Int : i = h - 1
  OBVIOUS
<1>8. PICK e \in Int : e = n + h - 1 - g
  OBVIOUS
<1>9. PICK f \in Int : f = h - 1 + y - a
  OBVIOUS
<1>10. Edit(s, t, i, g, e, a, b, f, z0)
  BY <1>1, <1>7, <1>8, <1>9
<1>11. i \in Nat /\ g \in Nat /\ a \in Nat /\ b \in Nat
  BY <1>1, <1>7
<1>13. File(t)
  BY <1>1
<1>14. CASE Own(s, z) = {}
  <2>1. Own(t, z) = {}
    <3> HIDE <1>1, <1>7, <1>8, <1>9
    <3> QED
      BY <1>10, <1>11, <1>13, <1>14, EditNone
  <2> QED
    BY <2>1 DEF Whole
<1>15. CASE Stands(o, x, s, z)
  <2>2. PICK h1, w1, v1, g1 \in Int, strict1 \in BOOLEAN :
          Standing(o, x, s, z, h1, w1, v1, g1, strict1)
    BY <1>15 DEF Stands
  <2>3. Frame(s, z, h1, w1, v1, g1, strict1)
    BY <2>2, StandingIs
  <2>4. strict1 => s[w1].role \notin {"original", "variant"}
    <3>1. Strict(strict1) => Outer(s, w1)
      BY <2>2, StandingRole
    <3>2. strict1 => Strict(strict1)
      BY <2>2 DEF Strict
    <3> QED
      BY <3>1, <3>2 DEF Outer
  <2>5. Cut(s, h, g, a, b)
    BY DEF Swap
  <2>6. Situated(s, h - 1, g, a, b, z, h1, w1, v1, g1, strict1)
    <3> HIDE <1>1, <1>7, <1>8, <1>9, <1>10, <1>11, <1>13, <1>15
    <3> QED
      BY <2>3, <2>4, <2>5, CutSituated
  <2>7. Situated(s, i, g, a, b, z, h1, w1, v1, g1, strict1)
    BY <2>6, <1>7
  <2>8. Own(t, z) = {} \/ Stands(o, x, t, z)
    <3> HIDE <1>1, <2>6, <1>7, <1>8, <1>9, <1>15, <2>3, <2>4, <2>5
    <3> QED
      BY <2>2, <1>10, <1>11, <2>7, <1>13, OthersStand
  <2> QED
    BY <2>8 DEF Whole
<1> QED
  BY <1>14, <1>15 DEF Whole

LEMMA SwapOwn ==
    ASSUME NEW s, NEW t, NEW new, NEW h \in Int, NEW w \in Int, NEW v \in Int, NEW g \in Int,
           NEW strict, NEW n \in Int, NEW a \in Int, NEW b \in Int, NEW y \in Int, NEW z0,
           NEW k \in Int,
           File(s), Frame(s, z0, h, w, v, g, strict), Swap(s, t, h, g, new, n, a, b, y, z0),
           strict => s[w].role \notin {"original", "variant"}, k \in Own(t, z0)
    PROVE  /\ h <= k /\ k <= h - 1 + n /\ new[k - (h - 1)].role \in Scaffold
           /\ k - (h - 1) <= y \/ y + (b - a) < k - (h - 1)
<1>1. /\ File(t) /\ 1 <= h /\ h <= g /\ g <= Len(s) /\ h - 1 <= a /\ a <= b /\ b <= g
      /\ Edit(s, t, h - 1, g, n + h - 1 - g, a, b, h - 1 + y - a, z0)
      /\ Balanced(t, h - 1, h - 1 + n)
  BY SwapEdit
<1>2. /\ 1 <= h /\ h <= w /\ w < v /\ v <= g /\ g <= Len(s)
      /\ \A r \in Own(s, z0) : r \in Int /\ h <= r /\ r <= g
  BY FrameHull
<1>3. Len(s) \in Int /\ Len(t) \in Int /\ DOMAIN s = 1..Len(s) /\ DOMAIN t = 1..Len(t)
  BY <1>1, FileIs
<1>4. Replaced(s, t, h, g, new, n) /\ 0 <= n /\ NewLines(new, s, a, b, y, z0) /\ Cut(s, h, g, a, b)
  BY DEF Swap
<1>5. t[k].role \in Scaffold /\ t[k].id = z0 /\ 1 <= k /\ k <= Len(t)
  BY <1>3 DEF Own
<1>6. h <= k
  <2> SUFFICES ASSUME k < h PROVE FALSE
    OBVIOUS
  <2>1. t[k] = s[k]
    BY <1>4, <1>5 DEF Replaced
  <2>2. 1 <= k /\ k <= Len(s)
    BY <1>1, <1>3, <1>5
  <2>3. k \in Own(s, z0)
    BY <1>3, <1>5, <2>1, <2>2 DEF Own
  <2> QED
    BY <1>2, <2>3
<1>7. k <= h - 1 + n
  <2> SUFFICES ASSUME h - 1 + n < k PROVE FALSE
    OBVIOUS
  <2>1. PICK m \in Int : m = k - (n + h - 1 - g)
    OBVIOUS
  <2>2. Len(t) = Len(s) + (n + h - 1 - g)
    BY <1>4 DEF Replaced
  <2>3. m \in (g + 1)..Len(s)
    BY <2>1, <2>2, <1>3, <1>5
  <2>4. t[m + (n + h - 1 - g)] = s[m]
    BY <2>3, <1>4 DEF Replaced
  <2>5. m + (n + h - 1 - g) = k
    BY <2>1
  <2>6. t[k] = s[m]
    BY <2>4, <2>5
  <2>7. m \in 1..Len(s)
    BY <2>3, <1>1, <1>3
  <2>8. m \in Own(s, z0)
    BY <1>3, <1>5, <2>6, <2>7 DEF Own
  <2> QED
    BY <1>2, <2>3, <2>8
<1>8. PICK r \in Int : r = k - (h - 1)
  OBVIOUS
<1>9. t[k] = new[k - (h - 1)]
  BY <1>4, <1>6, <1>7 DEF Replaced
<1>10. t[k] = new[r] /\ new[r].role \in Scaffold
  BY <1>5, <1>8, <1>9
<1>11. r <= y \/ y + (b - a) < r
  <2> SUFFICES ASSUME y < r, r <= y + (b - a) PROVE FALSE
    OBVIOUS
  <2>1. PICK m \in Int : m = r - y + a
    OBVIOUS
  <2>2. m \in (a + 1)..b
    BY <2>1
  <2>3. Like(s[m], new[m - a + y])
    BY <2>2, <1>4 DEF NewLines
  <2>4. m - a + y = r
    BY <2>1
  <2>5. Like(s[m], t[k])
    BY <2>3, <2>4, <1>10
  <2>6. m \in DOMAIN s /\ k \in DOMAIN t
    BY <2>2, <1>1, <1>3, <1>5
  <2>7. m \in Own(s, z0)
    BY <2>5, <2>6, LikeOwn
  <2>8. a # b
    BY <2>2
  <2>9. PICK p, q :
            /\ Elem(s, p, q) /\ s[p].role \in {"original", "variant"}
            /\ h <= p /\ q <= g /\ p <= a /\ b < q
            /\ \A kk \in (p + 1)..a : s[kk].tag \in {"blank", "style"}
            /\ \A kk \in (b + 1)..(q - 1) : s[kk].tag \in {"blank", "style"}
    BY <2>8, <1>4 DEF Cut
  <2>10. p \in Nat /\ q \in Nat
    BY <2>9, <1>3 DEF Elem
  <2>11. Elem(s, p, q) /\ h <= p
    BY <2>9
  <2>12. p = w => ~strict
    BY <2>9
  <2>13. m \in (p + 1)..(q - 1)
    BY <2>2, <2>9, <2>10
  <2>14. h \in Nat /\ w \in Nat /\ v \in Nat /\ g \in Nat
    BY <1>2
  <2> HIDE <2>9, <2>1, <2>4
  <2>15. \/ \A kk \in (p + 1)..(q - 1) : kk \notin Own(s, z0)
         \/ p < h /\ g < q
    <3> HIDE <1>1, <1>2, <1>3, <1>4, <1>5, <1>6, <1>7, <1>8, <1>9, <2>2, <2>13
    <3> QED
      BY <2>10, <2>11, <2>12, <2>14, InteriorApart
  <2> QED
    BY <2>15, <2>13, <2>11, <2>10, <2>7
<1> QED
  BY <1>6, <1>7, <1>8, <1>10, <1>11

LEMMA SwapGone ==
    ASSUME NEW s, NEW t, NEW new, NEW h \in Int, NEW w \in Int, NEW v \in Int, NEW g \in Int,
           NEW strict, NEW n \in Int, NEW a \in Int, NEW b \in Int, NEW y \in Int, NEW z0,
           File(s), Frame(s, z0, h, w, v, g, strict), Swap(s, t, h, g, new, n, a, b, y, z0),
           strict => s[w].role \notin {"original", "variant"},
           \A k \in 1..n : k <= y \/ y + (b - a) < k => new[k].role \notin Scaffold
    PROVE  Own(t, z0) = {}
<1> SUFFICES ASSUME NEW k, k \in Own(t, z0) PROVE FALSE
  OBVIOUS
<1>1. File(t)
  BY SwapEdit
<1>2. k \in Int
  BY <1>1, FileIs DEF Own
<1>3. /\ h <= k /\ k <= h - 1 + n /\ new[k - (h - 1)].role \in Scaffold
      /\ k - (h - 1) <= y \/ y + (b - a) < k - (h - 1)
  BY <1>2, SwapOwn
<1>4. PICK r \in Int : r = k - (h - 1)
  BY <1>2
<1>5. r \in 1..n /\ (r <= y \/ y + (b - a) < r) /\ new[r].role \in Scaffold
  <2>1. n \in Int
    BY DEF Swap
  <2> QED
    BY <1>2, <1>3, <1>4
<1> QED
  BY <1>5
Piece(s, h, g, r) ==
    \/ File(r) /\ Len(r) = 0
    \/ \E p, q, a, b, u \in Int :
        /\ Elem(s, p, q) /\ s[p].role \in {"original", "variant"} /\ h <= p /\ q <= g
        /\ Excerpt(s, r, p, q, a, b, u)

LEMMA PieceReindent ==
    ASSUME NEW s, NEW h \in Int, NEW g \in Int, NEW r, NEW ind, Piece(s, h, g, r), ind \in Nat
    PROVE  Piece(s, h, g, Reindent(r, ind))
<1>1. CASE File(r) /\ Len(r) = 0
  <2>1. File(Reindent(r, ind)) /\ Len(Reindent(r, ind)) = Len(r)
    BY <1>1, ReindentIs
  <2> QED
    BY <1>1, <2>1 DEF Piece
<1>2. CASE ~(File(r) /\ Len(r) = 0)
  <2>1. PICK p, q, a, b, u \in Int :
            /\ Elem(s, p, q) /\ s[p].role \in {"original", "variant"} /\ h <= p /\ q <= g
            /\ Excerpt(s, r, p, q, a, b, u)
    BY <1>2 DEF Piece
  <2>2. Taken(s, r, a, b, u) /\ a <= b
    BY <2>1 DEF Excerpt
  <2>3. Taken(s, Reindent(r, ind), a, b, u)
    BY <2>2, ReindentTaken
  <2>4. Excerpt(s, Reindent(r, ind), p, q, a, b, u)
    BY <2>1, <2>3 DEF Excerpt
  <2> QED
    BY <2>1, <2>4 DEF Piece
<1> QED
  BY <1>1, <1>2

LEMMA BlankRole ==
    ASSUME NEW s, NEW k \in Int, File(s), 1 <= k, k <= Len(s), s[k].tag = "blank"
    PROVE  s[k].role = "any" /\ s[k].role \notin Scaffold
<1>1. LineOK(s[k])
  BY FileIs, FileLen
<1> QED
  BY <1>1 DEF LineOK, Scaffold

Plain(r, n, a, b, y) ==
    \A k \in 1..n : k <= y \/ y + (b - a) < k => r[k].role \notin Scaffold

IsSplice(s, t, h, g, r) == t = Splice(s, h, g, r)

LEMMA PieceSwap ==
    ASSUME NEW s, NEW t, NEW h \in Int, NEW w \in Int, NEW v \in Int, NEW g \in Int, NEW strict,
           NEW r, NEW z0, File(s), Frame(s, z0, h, w, v, g, strict), Piece(s, h, g, r),
           IsSplice(s, t, h, g, r)
    PROVE  \E n, a, b, y \in Int :
             Swap(s, t, h, g, r, n, a, b, y, z0) /\ Plain(r, n, a, b, y)
<1> USE DEF IsSplice, Plain
<1>1. 1 <= h /\ h <= w /\ w < v /\ v <= g /\ g <= Len(s)
  BY FrameHull
<1>2. Len(s) \in Int
  BY FileLen
<1>3. CASE File(r) /\ Len(r) = 0
  <2>1. 1 <= h /\ h <= g + 1 /\ g <= Len(s)
    BY <1>1, <1>2
  <2>2. PICK n \in Int : 0 <= n /\ Replaced(s, Splice(s, h, g, r), h, g, r, n)
    <3>1. File(r)
      BY <1>3
    <3> HIDE <1>1, <1>2, <1>3
    <3> QED
      BY <2>1, <3>1, ReplacedIs
  <2>3. n = 0
    BY <2>2, <1>3 DEF Replaced
  <2>4. PICK a \in Int : a = h - 1
    OBVIOUS
  <2>5. Balanced(r, 0, 0)
    BY BalancedNone
  <2>6. NewLines(r, s, a, a, 0, z0)
    BY <2>5, <1>3, <2>4 DEF NewLines
  <2>7. Cut(s, h, g, a, a)
    BY <2>4, <1>1, <1>2 DEF Cut
  <2>8. Swap(s, t, h, g, r, n, a, a, 0, z0)
    BY <2>2, <2>6, <2>7 DEF Swap
  <2>9. \A k \in 1..n : k <= 0 \/ 0 + (a - a) < k => r[k].role \notin Scaffold
    BY <2>3
  <2> QED
    BY <2>8, <2>9
<1>4. CASE ~(File(r) /\ Len(r) = 0)
  <2>1. PICK p, q, a, b, u \in Int :
            /\ Elem(s, p, q) /\ s[p].role \in {"original", "variant"} /\ h <= p /\ q <= g
            /\ Excerpt(s, r, p, q, a, b, u)
    BY <1>4 DEF Piece
  <2>2. NewLines(r, s, a, b, u, z0)
    <3>1. Elem(s, p, q) /\ Excerpt(s, r, p, q, a, b, u)
      BY <2>1
    <3> HIDE <2>1, <1>1, <1>2, <1>4
    <3> QED
      BY <3>1, ExcerptNew
  <2>3. /\ Taken(s, r, a, b, u) /\ p <= a /\ a <= b /\ b < q
        /\ \A k \in (p + 1)..a : s[k].tag \in {"blank", "style"}
        /\ \A k \in (b + 1)..(q - 1) : s[k].tag \in {"blank", "style"}
    BY <2>1 DEF Excerpt
  <2>4. File(r)
    BY <2>3 DEF Taken
  <2>5. h - 1 <= a /\ a <= b /\ b <= g
    BY <2>1, <2>3
  <2>6. Cut(s, h, g, a, b)
    BY <2>1, <2>3, <2>5 DEF Cut
  <2>7. 1 <= h /\ h <= g + 1 /\ g <= Len(s)
    BY <1>1, <1>2
  <2>8. PICK n \in Int : 0 <= n /\ Replaced(s, Splice(s, h, g, r), h, g, r, n)
    <3> HIDE <1>1, <1>2, <1>4, <2>1, <2>3, <2>5
    <3> QED
      BY <2>4, <2>7, ReplacedIs
  <2>9. Swap(s, t, h, g, r, n, a, b, u, z0)
    BY <2>2, <2>6, <2>8 DEF Swap
  <2>10. Len(r) = n
    BY <2>8 DEF Replaced
  <2>11. ASSUME NEW k \in Int, k \in 1..n, k <= u \/ u + (b - a) < k
         PROVE  r[k].role \notin Scaffold
    <3>1. r[k].tag = "blank"
      BY <2>3, <2>10, <2>11 DEF Taken
    <3>2. 1 <= k /\ k <= Len(r)
      BY <2>10, <2>11
    <3> QED
      BY <3>1, <3>2, <2>4, BlankRole
  <2>12. \A k \in 1..n : k <= u \/ u + (b - a) < k => r[k].role \notin Scaffold
    BY <2>11
  <2> QED
    BY <2>9, <2>12
<1> QED
  BY <1>3, <1>4

Rim(s, w, v, b0, b1) ==
    \/ b0 = w + 1 /\ b1 = v - 1
    \/ b0 = w - 1 /\ b1 = v + 1 /\ s[b0].tag # "div" /\ s[b1].tag # "div"

HasRole(s, k, role) == s[k].role = role

DivIs(L, i) == i \in DOMAIN L /\ L[i].tag = "div" /\ L[i].role \in {"original", "variant"}

Spans(s, r, h, g, p, q) ==
    /\ TrimmedOf(s, r, p, q) /\ Elem(s, p, q) /\ 1 <= p /\ p < q
    /\ s[p].role \in {"original", "variant"} /\ h <= p /\ q <= g

LEMMA InnerPiece ==
    ASSUME NEW z, NEW h \in Int, NEW w \in Int, NEW v \in Int, NEW g \in Int,
           NEW b0 \in Int, NEW b1 \in Int, NEW L, NEW i \in Int,
           File(file), Nested(file), Frame(file, z, h, w, v, g, TRUE), HasRole(file, w, "wrapper"),
           Read(file, b0, b1, L), Rim(file, w, v, b0, b1), h <= b0, b0 <= b1, b1 <= g,
           DivIs(L, i)
    PROVE  \E p, q \in Int : Spans(file, InnerByAttr(L, i), h, g, p, q)
<1> USE DEF DivIs, HasRole
<1>1. Elem(file, w, v) /\ 1 <= h /\ h <= w /\ w < v /\ v <= g /\ g <= Len(file)
  BY FrameHull
<1>2. Len(file) \in Int
  BY FileLen
<1>3. 1 <= b0 /\ b1 <= Len(file)
  BY <1>1, <1>2
<1>4. PICK p, q \in Int :
             /\ p = b0 - 1 + i /\ w < p /\ q < v /\ b0 <= p /\ q <= b1 /\ Elem(file, p, q)
             /\ file[p].role = L[i].role /\ file[p].id = L[i].id /\ file[p].n = L[i].n
             /\ Closing(L, i) = q - b0 + 1
  <2>1. Elem(file, w, v)
    BY <1>1
  <2>2. \/ b0 = w + 1 /\ b1 = v - 1
        \/ b0 = w - 1 /\ b1 = v + 1 /\ file[b0].tag # "div" /\ file[b1].tag # "div"
    BY DEF Rim
  <2> HIDE <1>1, <1>2
  <2> QED
    BY <1>3, <2>1, <2>2, LooksInto
<1>5. p < q
  BY <1>4 DEF Elem
<1>6. 1 <= i
  BY <1>4
<1>7. /\ Taken(file, InnerByAttr(L, i), p, q - 1, 1)
      /\ Len(InnerByAttr(L, i)) = q - p + 1
      /\ \A k \in (p + 1)..(q - 1) :
           file[k].tag \in {"blank", "style"} => InnerByAttr(L, i)[k - p + 1].tag = "blank"
      /\ \A k \in (p + 1)..(q - 1) :
           InnerByAttr(L, i)[k - p + 1].tag = "blank" => file[k].tag \in {"blank", "style"}
  <2>1. InnerAt(L, i, b0, p, q) /\ q <= b1
    BY <1>4 DEF InnerAt
  <2> HIDE <1>1, <1>2, <1>4
  <2> QED
    BY <1>3, <1>5, <1>6, <2>1, InnerIs
<1>8. TrimmedOf(file, InnerByAttr(L, i), p, q)
  BY <1>7 DEF TrimmedOf
<1>9. 1 <= p /\ p < q /\ h <= p /\ q <= g
  <2>1. b0 <= p /\ q <= b1
    BY <1>4
  <2> QED
    BY <2>1, <1>3, <1>5
<1>10. Elem(file, p, q) /\ file[p].role = L[i].role
  BY <1>4
<1> QED
  BY <1>8, <1>9, <1>10 DEF Spans
\* What a script finds of a block.
Seen(z, h, g, b0, b1, L) ==
    /\ Found(z, h, g, b0, b1) /\ L = Lines([start |-> b0, end |-> b1])
    /\ Read(file, b0, b1, L) /\ h <= b0 /\ b0 <= b1 /\ b1 <= g

LEMMA BlockSeen ==
    ASSUME NEW z, NEW h \in Int, NEW w \in Int, NEW v \in Int, NEW g \in Int,
           File(file), jsx \in BOOLEAN, Block(jsx, file, z, h, w, v, g)
    PROVE  \E L : \E b0, b1 \in Int : Seen(z, h, g, b0, b1, L) /\ Rim(file, w, v, b0, b1)
<1>1. PICK b0, b1 \in Int :
             /\ Found(z, h, g, b0, b1) /\ h <= b0 /\ b0 <= b1 /\ b1 <= g
             /\ \/ b0 = w + 1 /\ b1 = v - 1
                \/ /\ b0 = w - 1 /\ b1 = v + 1
                   /\ file[b0].tag # "div" /\ file[b1].tag # "div"
  BY BlockFound
<1>2. Frame(file, z, h, w, v, g, TRUE)
  <2> HIDE <1>1
  <2> QED
    BY BlockIs
<1>3. 1 <= h /\ h <= w /\ w < v /\ v <= g /\ g <= Len(file)
  <2> HIDE <1>1
  <2> QED
    BY <1>2, FrameHull
<1>4. Len(file) \in Int
  BY FileLen
<1>5. 1 <= b0 /\ b0 <= b1 /\ b1 <= Len(file)
  BY <1>1, <1>3, <1>4
<1>6. Read(file, b0, b1, Lines([start |-> b0, end |-> b1]))
  <2> HIDE <1>1, <1>3, <1>4
  <2> QED
    BY <1>5, LinesAre
<1>7. Rim(file, w, v, b0, b1)
  BY <1>1 DEF Rim
<1>8. Seen(z, h, g, b0, b1, Lines([start |-> b0, end |-> b1]))
  BY <1>1, <1>6 DEF Seen
<1> QED
  BY <1>7, <1>8

LEMMA DivsFirst ==
    ASSUME NEW L, NEW S, File(L), S \subseteq {i \in DOMAIN L : L[i].tag = "div"}
    PROVE  /\ First(S) \in Int
           /\ First(S) # 0 => First(S) \in S
           /\ First(S) = 0 => S = {}
<1>1. Len(L) \in Int /\ DOMAIN L = 1..Len(L)
  BY FileIs
<1>2. S \subseteq Nat /\ \A i \in S : i # 0
  BY <1>1
<1>3. IF S = {} THEN First(S) = 0
      ELSE First(S) \in S /\ \A i \in S : First(S) <= i
  BY <1>2, FirstIs
<1> QED
  BY <1>2, <1>3

LEMMA OriginalPiece ==
    ASSUME NEW z, NEW h \in Int, NEW w \in Int, NEW v \in Int, NEW g \in Int,
           NEW b0 \in Int, NEW b1 \in Int, NEW L,
           File(file), Nested(file), Frame(file, z, h, w, v, g, TRUE), HasRole(file, w, "wrapper"),
           Seen(z, h, g, b0, b1, L), Rim(file, w, v, b0, b1)
    PROVE  Piece(file, h, g, ExtractOriginal([start |-> b0, end |-> b1]))
<1>1. Read(file, b0, b1, L) /\ h <= b0 /\ b0 <= b1 /\ b1 <= g
  BY DEF Seen
<1>2. ExtractOriginal([start |-> b0, end |-> b1]) = InnerByAttr(L, First(DivsOf(L, "original")))
  BY DEF Seen, ExtractOriginal
<1>3. File(L)
  BY <1>1 DEF Read
<1>4. DivsOf(L, "original") \subseteq {k \in DOMAIN L : L[k].tag = "div"}
  BY DEF DivsOf
<1>6. /\ First(DivsOf(L, "original")) \in Int
      /\ First(DivsOf(L, "original")) # 0
            => First(DivsOf(L, "original")) \in DivsOf(L, "original")
      /\ First(DivsOf(L, "original")) = 0 => DivsOf(L, "original") = {}
  <2> HIDE <1>2, <1>1
  <2> QED
    BY <1>3, <1>4, DivsFirst
<1>5. PICK i \in Int : i = First(DivsOf(L, "original"))
  BY <1>6
<1>7. i \in Int /\ (i # 0 => i \in DivsOf(L, "original"))
  BY <1>5, <1>6
<1>8. CASE i = 0
  <2>1. InnerByAttr(L, i) = <<>>
    BY <1>8 DEF InnerByAttr
  <2>2. File(<<>>) /\ Len(<<>>) = 0
    BY DEF File
  <2>3. Piece(file, h, g, <<>>)
    BY <2>2 DEF Piece
  <2> QED
    BY <1>2, <1>5, <2>1, <2>3
<1>9. CASE i # 0
  <2>1. DivIs(L, i)
    BY <1>7, <1>9 DEF DivsOf, DivIs
  <2>2. PICK p, q \in Int : Spans(file, InnerByAttr(L, i), h, g, p, q)
    <3> HIDE <1>2, <1>5, <1>6, <1>7, <1>9
    <3> QED
      BY <1>1, <2>1, InnerPiece
  <2>3. Taken(file, InnerByAttr(L, i), p, q - 1, 1) /\ p < q
    BY <2>2 DEF TrimmedOf, Spans
  <2>4. PICK a \in Int, b \in Int, u \in Int : a = p /\ b = q - 1 /\ u = 1
    OBVIOUS
  <2>5. Excerpt(file, InnerByAttr(L, i), p, q, a, b, u)
    BY <2>3, <2>4 DEF Excerpt
  <2> HIDE <2>4
  <2>6. Piece(file, h, g, InnerByAttr(L, i))
    BY <2>2, <2>5 DEF Piece, Spans
  <2> QED
    BY <1>2, <1>5, <2>6
<1> QED
  BY <1>8, <1>9

LEMMA VariantPiece ==
    ASSUME NEW z, NEW h \in Int, NEW w \in Int, NEW v \in Int, NEW g \in Int,
           NEW b0 \in Int, NEW b1 \in Int, NEW L, NEW n,
           File(file), Nested(file), Frame(file, z, h, w, v, g, TRUE), HasRole(file, w, "wrapper"),
           Seen(z, h, g, b0, b1, L), Rim(file, w, v, b0, b1)
    PROVE  Piece(file, h, g, ExtractVariant([start |-> b0, end |-> b1], n))
<1>1. Read(file, b0, b1, L) /\ h <= b0 /\ b0 <= b1 /\ b1 <= g
  BY DEF Seen
<1> DEFINE S == {k \in DivsOf(L, "variant") : L[k].n = n}
<1>2. /\ First(S) = 0 => ExtractVariant([start |-> b0, end |-> b1], n) = <<>>
      /\ First(S) # 0 => ExtractVariant([start |-> b0, end |-> b1], n)
                            = Trimmed(InnerByAttr(L, First(S)))
  BY DEF Seen, ExtractVariant
<1>3. File(L)
  BY <1>1 DEF Read
<1>4. S \subseteq {k \in DOMAIN L : L[k].tag = "div"} /\ S \subseteq DivsOf(L, "variant")
  BY DEF DivsOf
<1> HIDE DEF S
<1>6. First(S) \in Int /\ (First(S) # 0 => First(S) \in S) /\ (First(S) = 0 => S = {})
  <2>1. S \subseteq {k \in DOMAIN L : L[k].tag = "div"}
    BY <1>4
  <2> HIDE <1>2, <1>1, <1>4
  <2> QED
    BY <1>3, <2>1, DivsFirst
<1>5. PICK i \in Int : i = First(S)
  BY <1>6
<1>7. i \in Int /\ (i # 0 => i \in DivsOf(L, "variant"))
  BY <1>4, <1>5, <1>6
<1>8. CASE i = 0
  <2>2. File(<<>>) /\ Len(<<>>) = 0
    BY DEF File
  <2>3. Piece(file, h, g, <<>>)
    BY <2>2 DEF Piece
  <2> QED
    BY <1>2, <1>5, <1>8, <2>3
<1>9. CASE i # 0
  <2>1. DivIs(L, i)
    BY <1>7, <1>9 DEF DivsOf, DivIs
  <2>2. PICK p, q \in Int : Spans(file, InnerByAttr(L, i), h, g, p, q)
    <3> HIDE <1>2, <1>4, <1>5, <1>6, <1>7, <1>9
    <3> QED
      BY <1>1, <2>1, InnerPiece
  <2>3. TrimmedOf(file, InnerByAttr(L, i), p, q) /\ 1 <= p /\ p < q
    BY <2>2 DEF Spans
  <2>4. PICK a, b, u \in Int : Excerpt(file, Trimmed(InnerByAttr(L, i)), p, q, a, b, u)
    <3> HIDE <1>2, <1>4, <1>5, <1>6, <1>7, <1>9, <2>1, <2>2
    <3> QED
      BY <2>3, TrimmedIs
  <2>6. Piece(file, h, g, Trimmed(InnerByAttr(L, i)))
    BY <2>2, <2>4 DEF Piece, Spans
  <2> QED
    BY <1>2, <1>5, <1>9, <2>6
<1> QED
  BY <1>8, <1>9
LEMMA BlockFrame ==
    ASSUME NEW z, NEW h \in Int, NEW w \in Int, NEW v \in Int, NEW g \in Int,
           File(file), jsx \in BOOLEAN, Block(jsx, file, z, h, w, v, g)
    PROVE  /\ Frame(file, z, h, w, v, g, TRUE) /\ HasRole(file, w, "wrapper")
           /\ 1 <= h /\ h <= w /\ w < v /\ v <= g /\ g <= Len(file)
<1>1. /\ Frame(file, z, h, w, v, g, TRUE)
      /\ jsx => BlockLines(file, z, w, w + 1, v - 1) /\ h = w /\ g = v
      /\ ~jsx => BlockLines(file, z, w, w - 1, v + 1) /\ h = w - 1 /\ g = v + 1
      /\ Elem(file, w, v) /\ 1 <= h /\ h <= w /\ w < v /\ v <= g /\ g <= Len(file)
      /\ \A k \in Own(file, z) : k \in Int /\ h <= k /\ k <= g
  BY BlockIs
<1>2. Is(file, w, "wrapper", z)
  BY <1>1 DEF BlockLines
<1> QED
  BY <1>1, <1>2 DEF Is, HasRole

LEMMA LineInd ==
    ASSUME NEW s, NEW k \in Int, File(s), 1 <= k, k <= Len(s)
    PROVE  s[k].ind \in Nat
<1>1. s[k] \in LINES
  BY FileLine
<1> QED
  BY <1>1 DEF LINES

\* What replaces the block of an open session, by Discard, and by Accept
\* when there is no CSS.
LEMMA PieceReplaces ==
    ASSUME NEW z, NEW h \in Int, NEW w \in Int, NEW v \in Int, NEW g \in Int, NEW strict, NEW r,
           File(file), Nested(file), jsx \in BOOLEAN, Frame(file, z, h, w, v, g, strict),
           strict => file[w].role \notin {"original", "variant"}, Piece(file, h, g, r),
           file' = Splice(file, h, g, Reindent(r, file[h].ind))
    PROVE  /\ File(file') /\ Nested(file') /\ Own(file', z) = {}
           /\ \A y, o : y # z /\ Whole(o, jsx, file, y) => Whole(o, jsx, file', y)
<1>1. 1 <= h /\ h <= w /\ w < v /\ v <= g /\ g <= Len(file)
  BY FrameHull
<1>2. PICK ind : ind = file[h].ind
  OBVIOUS
<1>3. ind \in Nat
  <2>1. 1 <= h /\ h <= Len(file)
    BY <1>1, FileLen
  <2> QED
    BY <2>1, <1>2, LineInd
<1>4. Piece(file, h, g, Reindent(r, ind))
  BY <1>3, PieceReindent
<1>5. PICK new : new = Reindent(r, ind)
  OBVIOUS
<1>6. PICK t : t = file'
  OBVIOUS
<1>7. Piece(file, h, g, new) /\ IsSplice(file, t, h, g, new)
  BY <1>2, <1>4, <1>5, <1>6 DEF IsSplice
<1>8. Frame(file, z, h, w, v, g, strict)
  OBVIOUS
<1>9. \E n, a, b, y \in Int :
             Swap(file, t, h, g, new, n, a, b, y, z) /\ Plain(new, n, a, b, y)
  <2> HIDE <1>1, <1>2, <1>5, <1>6
  <2> QED
    BY <1>7, <1>8, PieceSwap
<1>10. PICK n, a, b, y \in Int :
             Swap(file, t, h, g, new, n, a, b, y, z) /\ Plain(new, n, a, b, y)
  BY <1>9
<1>11. Swap(file, t, h, g, new, n, a, b, y, z)
  BY <1>10
<1>12. strict => file[w].role \notin {"original", "variant"}
  OBVIOUS
<1> HIDE <1>1, <1>2, <1>3, <1>4, <1>5, <1>7, <1>9
<1>13. Own(t, z) = {}
  <2>1. \A k \in 1..n : k <= y \/ y + (b - a) < k => new[k].role \notin Scaffold
    BY <1>10 DEF Plain
  <2> HIDE <1>6
  <2> QED
    BY <2>1, <1>8, <1>11, <1>12, SwapGone
<1>14. File(t) /\ Nested(t)
  <2> HIDE <1>6, <1>10
  <2> QED
    BY <1>8, <1>11, SwapNested
<1>15. ASSUME NEW y1, NEW o, y1 # z, Whole(o, jsx, file, y1)
       PROVE  Whole(o, jsx, t, y1)
  <2> HIDE <1>6, <1>10
  <2> QED
    BY <1>8, <1>11, <1>15, SwapOthers
<1> QED
  BY <1>6, <1>13, <1>14, <1>15
-----------------------------------------------------------------------------

LEMMA ElemFrom ==
    ASSUME NEW s, NEW p \in Int, NEW q \in Int, File(s), 1 <= p, p < q, q <= Len(s),
           s[p].tag = "div", s[q].tag = "/div", Balanced(s, p, q - 1)
    PROVE  Elem(s, p, q)
<1>1. Len(s) \in Nat /\ DOMAIN s = 1..Len(s)
  BY FileIs
<1>2. p \in DOMAIN s /\ q \in DOMAIN s
  BY <1>1
<1>3. PICK p0 \in Int, q0 \in Int : p0 = p - 1 /\ q0 = q - 1
  OBVIOUS
<1>4. p0 \in Nat /\ q0 \in Nat /\ p0 + 1 = p /\ q0 + 1 = q
  BY <1>3
<1>5. Depth(s, p0 + 1) = Depth(s, p0) + Step(s[p0 + 1])
  <2> HIDE <1>3
  <2> QED
    BY <1>4, DepthNext
<1>6. Depth(s, q0 + 1) = Depth(s, q0) + Step(s[q0 + 1])
  <2> HIDE <1>3
  <2> QED
    BY <1>4, DepthNext
<1>7. PICK d0 \in Int, d1 \in Int, d2 \in Int, d3 \in Int :
        d0 = Depth(s, p0) /\ d1 = Depth(s, p) /\ d2 = Depth(s, q0) /\ d3 = Depth(s, q)
  BY DepthType
<1>8. Step(s[p]) = 1 /\ Step(s[q]) = -1
  BY DEF Step
<1>9. d1 = d0 + 1
  BY <1>4, <1>5, <1>7, <1>8
<1>10. d3 = d2 + (-1)
  BY <1>4, <1>6, <1>7, <1>8
<1>11. d2 = d1 /\ \A k \in p..q0 : Depth(s, k) >= d1
  BY <1>3, <1>7 DEF Balanced
<1>12. d3 = d0
  BY <1>9, <1>10, <1>11
<1>13. ASSUME NEW k \in Int, k \in p..(q - 1) PROVE Depth(s, k) > Depth(s, p - 1)
  <2>1. Depth(s, k) \in Int
    BY DepthType
  <2>2. Depth(s, k) >= d1
    BY <1>11, <1>3, <1>13
  <2>3. Depth(s, p - 1) = d0
    BY <1>3, <1>7
  <2> QED
    BY <2>1, <2>2, <2>3, <1>9
<1>14. Depth(s, q) = Depth(s, p - 1)
  BY <1>3, <1>7, <1>12
<1> QED
  BY <1>2, <1>13, <1>14 DEF Elem

CarbonLines(x, s, c, z, n) ==
    /\ 1 <= c /\ 0 <= n /\ c + 4 + n <= Len(s)
    /\ Is(s, c, "carbonize-start", z) /\ s[c].tag = "mark"
    /\ Is(s, c + 1, "css", z) /\ s[c + 1].tag = "style"
    /\ Is(s, c + 2, "carbonize-end", z) /\ s[c + 2].tag = "mark"
    /\ Is(s, c + 3, "variant", z) /\ s[c + 3].tag = "div"
    /\ s[c + 4 + n].tag = "/div" /\ s[c + 4 + n].role = "any"
    /\ Balanced(s, c + 3, c + 3 + n)
    /\ x => /\ 2 <= c /\ c + 5 + n <= Len(s) /\ Is(s, c - 1, "carbonize", z)
            /\ s[c - 1].tag = "div"
            /\ s[c + 5 + n].tag = "/div" /\ s[c + 5 + n].role = "any"

LEMMA CarbonBalanced ==
    ASSUME NEW x, NEW s, NEW c \in Int, NEW z, NEW n \in Int, x \in BOOLEAN, File(s),
           CarbonLines(x, s, c, z, n)
    PROVE  /\ 1 <= c /\ 0 <= n /\ Len(s) \in Int /\ c + 4 + n <= Len(s)
           /\ Balanced(s, c - 1, c + 4 + n) /\ Elem(s, c + 3, c + 4 + n)
           /\ \A k \in (c - 1)..(c + 2) : Depth(s, k) = Depth(s, c - 1)
           /\ x => /\ 2 <= c /\ c + 5 + n <= Len(s)
                   /\ Balanced(s, c - 2, c + 5 + n) /\ Elem(s, c - 1, c + 5 + n)
<1>1. Len(s) \in Int
  BY FileLen
<1>2. 1 <= c /\ 0 <= n /\ c + 4 + n <= Len(s)
  BY DEF CarbonLines
<1>3. PICK c1 \in Int, c2 \in Int, c3 \in Int, q0 \in Int, q \in Int, q1 \in Int, c0 \in Int :
        /\ c1 = c - 1 /\ c2 = c + 2 /\ c3 = c + 3 /\ q0 = c + 3 + n /\ q = c + 4 + n
        /\ q1 = c + 5 + n /\ c0 = c - 2
  OBVIOUS
<1>4. Balanced(s, c3, q0) /\ s[c3].tag = "div" /\ s[q].tag = "/div"
  BY <1>3 DEF CarbonLines
<1>5. Step(s[c]) = 0 /\ Step(s[c + 1]) = 0 /\ Step(s[c + 2]) = 0
  BY DEF CarbonLines, Step
<1>6. ASSUME NEW k \in Int, k \in (c1 + 1)..c2 PROVE Step(s[k]) = 0
  <2>1. k = c \/ k = c + 1 \/ k = c + 2
    BY <1>3, <1>6
  <2> QED
    BY <2>1, <1>5
<1>7. Balanced(s, c1, c2) /\ \A k \in c1..c2 : Depth(s, k) = Depth(s, c1)
  <2>1. 0 <= c1 /\ c1 <= c2
    BY <1>2, <1>3
  <2>2. \A k \in (c1 + 1)..c2 : Step(s[k]) = 0
    BY <1>6
  <2> HIDE <1>2, <1>3, <1>4, <1>5
  <2> QED
    BY <2>1, <2>2, BalancedFlat
<1>8. Balanced(s, c2, q)
  <2>1. 0 <= c2 /\ c2 + 1 <= q0 /\ c2 + 1 = c3 /\ q0 + 1 = q
    BY <1>2, <1>3
  <2>2. s[c2 + 1].tag = "div" /\ Balanced(s, c2 + 1, q0) /\ s[q0 + 1].tag = "/div"
    BY <2>1, <1>4
  <2>3. 0 <= c2 /\ c2 + 1 <= q0
    BY <2>1
  <2>4. Balanced(s, c2, q0 + 1)
    <3> HIDE <1>2, <1>3, <1>4, <1>5, <1>7, <2>1
    <3> QED
      BY <2>2, <2>3, BalancedWrap
  <2> QED
    BY <2>1, <2>4
<1>9. Balanced(s, c1, q)
  <2>1. c1 <= c2 /\ c2 <= q
    BY <1>2, <1>3
  <2>2. Balanced(s, c1, c2)
    BY <1>7
  <2> HIDE <1>2, <1>3, <1>4, <1>5, <1>7
  <2> QED
    BY <2>1, <2>2, <1>8, BalancedCat
<1>10. Elem(s, c3, q)
  <2>1. 1 <= c3 /\ c3 < q /\ q <= Len(s) /\ q - 1 = q0
    BY <1>1, <1>2, <1>3
  <2>2. Balanced(s, c3, q - 1)
    BY <2>1, <1>4
  <2>3. s[c3].tag = "div" /\ s[q].tag = "/div" /\ 1 <= c3 /\ c3 < q /\ q <= Len(s)
    BY <1>4, <2>1
  <2> HIDE <1>2, <1>3, <1>4, <1>5, <1>7, <2>1
  <2> QED
    BY <2>2, <2>3, ElemFrom
<1>11. CASE x
  <2>1. 2 <= c /\ c + 5 + n <= Len(s) /\ s[c1].tag = "div" /\ s[q1].tag = "/div"
    BY <1>3, <1>11 DEF CarbonLines
  <2>2. 0 <= c0 /\ c0 + 1 <= q /\ c0 + 1 = c1 /\ q + 1 = q1
    BY <1>3, <2>1, <1>2
  <2>3. s[c0 + 1].tag = "div" /\ Balanced(s, c0 + 1, q) /\ s[q + 1].tag = "/div"
    BY <2>1, <2>2, <1>9
  <2>4. 0 <= c0 /\ c0 + 1 <= q
    BY <2>2
  <2>5. Balanced(s, c0, q + 1)
    <3> HIDE <1>2, <1>3, <1>4, <1>5, <1>7, <2>1, <2>2
    <3> QED
      BY <2>3, <2>4, BalancedWrap
  <2>6. 1 <= c1 /\ c1 < q1 /\ q1 <= Len(s) /\ q1 - 1 = q
    BY <1>1, <1>2, <1>3, <2>1
  <2>7. Balanced(s, c1, q1 - 1)
    BY <2>6, <1>9
  <2>8. s[c1].tag = "div" /\ s[q1].tag = "/div" /\ 1 <= c1 /\ c1 < q1 /\ q1 <= Len(s)
    BY <2>1, <2>6
  <2>9. Elem(s, c1, q1)
    <3> HIDE <1>2, <1>3, <1>4, <1>5, <1>7, <2>1, <2>2, <2>3, <2>5, <2>6
    <3> QED
      BY <2>7, <2>8, ElemFrom
  <2>10. Balanced(s, c - 2, c + 5 + n) /\ Elem(s, c - 1, c + 5 + n)
    BY <2>2, <2>5, <2>9, <1>3
  <2> QED
    BY <1>1, <1>2, <1>3, <1>7, <1>9, <1>10, <2>1, <2>10
<1>12. CASE ~x
  BY <1>1, <1>2, <1>3, <1>7, <1>9, <1>10, <1>12
<1> QED
  BY <1>11, <1>12
InFrame(s, k, w, v) ==
    k \in w..w \/ (k \in (w + 1)..(v - 1) /\ Depth(s, k - 1) = Depth(s, w))

LEMMA CarbonBegun ==
    ASSUME NEW x, NEW s, NEW c \in Int, NEW z, NEW n \in Int, x \in BOOLEAN, File(s),
           CarbonLines(x, s, c, z, n),
           \A k \in Own(s, z) : k <= c + 3 /\ (x => c - 1 <= k) /\ (~x => c <= k)
    PROVE  Stands("carbonize", x, s, z)
<1>1. /\ 1 <= c /\ 0 <= n /\ Len(s) \in Int /\ c + 4 + n <= Len(s)
      /\ Balanced(s, c - 1, c + 4 + n) /\ Elem(s, c + 3, c + 4 + n)
      /\ \A k \in (c - 1)..(c + 2) : Depth(s, k) = Depth(s, c - 1)
      /\ x => /\ 2 <= c /\ c + 5 + n <= Len(s)
              /\ Balanced(s, c - 2, c + 5 + n) /\ Elem(s, c - 1, c + 5 + n)
  BY CarbonBalanced
<1>2. DOMAIN s = 1..Len(s) /\ Len(s) \in Nat
  BY FileIs
<1>3. \A k \in Own(s, z) : k \in Int
  BY <1>2 DEF Own
<1>4. /\ s[c].tag = "mark" /\ s[c + 1].tag = "style" /\ s[c + 2].tag = "mark" /\ s[c + 3].tag = "div"
      /\ Is(s, c, "carbonize-start", z) /\ Is(s, c + 2, "carbonize-end", z)
      /\ Is(s, c + 3, "variant", z)
  BY DEF CarbonLines
<1>5. c \in Own(s, z) /\ c + 1 \in Own(s, z) /\ c + 2 \in Own(s, z) /\ c + 3 \in Own(s, z)
  BY DEF CarbonLines, Is, Own, Scaffold
<1>6. CASE x
  <2>1. PICK w \in Int, v \in Int : w = c - 1 /\ v = c + 5 + n
    OBVIOUS
  <2>2. Is(s, w, "carbonize", z) /\ s[w].tag = "div"
    BY <1>6, <2>1 DEF CarbonLines
  <2>3. w \in Own(s, z)
    BY <2>2 DEF Is, Own, Scaffold
  <2>4. Elem(s, w, v) /\ w \in 1..w /\ v \in v..Len(s)
    BY <1>1, <1>6, <2>1
  <2>5. ASSUME NEW k \in Own(s, z) PROVE InFrame(s, k, w, v)
    <3> USE DEF InFrame
    <3>1. k <= c + 3 /\ c - 1 <= k /\ k \in Int
      BY <1>3, <1>6
    <3>2. CASE k = w
      <4>1. w \in w..w
        OBVIOUS
      <4> QED
        BY <3>2, <4>1
    <3>3. CASE k # w
      <4>1. k \in (w + 1)..(v - 1)
        BY <3>1, <3>3, <2>1, <1>1
      <4>2. PICK k1 \in Int : k1 = k - 1
        BY <3>1
      <4>3. k1 \in (c - 1)..(c + 2)
        BY <3>1, <3>3, <2>1, <4>2
      <4>4. Depth(s, k1) = Depth(s, c - 1)
        BY <4>3, <1>1
      <4>5. Depth(s, k - 1) = Depth(s, w)
        BY <4>4, <4>2, <2>1
      <4> QED
        BY <4>1, <4>5
    <3> QED
      BY <3>2, <3>3
  <2>6. ASSUME NEW k \in Int, k \in (w + 1)..(v - 1), Depth(s, k - 1) = Depth(s, w)
        PROVE  k \in Own(s, z) \/ s[k].tag = "blank"
    <3>1. CASE k <= c + 3
      <4>1. k = c \/ k = c + 1 \/ k = c + 2 \/ k = c + 3
        BY <3>1, <2>6, <2>1
      <4> QED
        BY <4>1, <1>5
    <3>2. CASE c + 3 < k
      <4>1. PICK k1 \in Int : k1 = k - 1
        OBVIOUS
      <4>2. k1 \in (c + 3)..(c + 3 + n)
        BY <3>2, <4>1, <2>6, <2>1
      <4>3. PICK p \in Int, q \in Int, q0 \in Int, p0 \in Int :
                p = c + 3 /\ q = c + 4 + n /\ q0 = q - 1 /\ p0 = p - 1
        OBVIOUS
      <4>4. Elem(s, p, q)
        BY <4>3, <1>1
      <4>5. \A m \in p..q0 : Depth(s, m) > Depth(s, p0)
        BY <4>3, <4>4 DEF Elem
      <4>6. k1 \in p..q0
        BY <4>2, <4>3
      <4>7. Depth(s, k1) > Depth(s, p0)
        BY <4>5, <4>6
      <4>8. p0 \in (c - 1)..(c + 2)
        BY <4>3
      <4>9. Depth(s, p0) = Depth(s, c - 1)
        BY <4>8, <1>1
      <4>10. Depth(s, k1) = Depth(s, c - 1)
        BY <4>1, <2>6, <2>1
      <4>11. Depth(s, k1) \in Int /\ Depth(s, p0) \in Int
        BY DepthType
      <4> QED
        BY <4>7, <4>9, <4>10, <4>11
    <3> QED
      BY <3>1, <3>2
  <2>7. Frame(s, z, w, w, v, v, TRUE)
    <3>1. \A k \in w..(w - 1) : /\ s[k].tag \in {"mark", "style", "blank"}
                                /\ k \in Own(s, z) \/ s[k].tag = "blank"
      OBVIOUS
    <3>2. \A k \in (v + 1)..v : s[k].tag = "mark" /\ k \in Own(s, z)
      OBVIOUS
    <3>3. \A k \in Own(s, z) : InFrame(s, k, w, v)
      BY <2>5
    <3>4. s[w].tag # "style"
      BY <2>2
    <3>5. \A k \in (w + 1)..(v - 1) :
                    Depth(s, k - 1) = Depth(s, w) => k \in Own(s, z) \/ s[k].tag = "blank"
      BY <2>6
    <3> HIDE <2>1
    <3> QED
      BY <3>1, <3>2, <3>3, <3>4, <3>5, <2>3, <2>4 DEF Frame, InFrame
  <2>8. \A k \in Own(s, z) : k <= c + 3
    OBVIOUS
  <2>9. x = TRUE
    BY <1>6
  <2>10. CarbonAt(TRUE, s, z, c, w, v)
    <3>1. w = c - 1 /\ s[c + 1].tag \in {"style", "blank"} /\ s[c + 3].tag = "div"
      BY <2>1, <1>4
    <3> QED
      BY <3>1, <1>4, <2>2, <2>7, <2>8 DEF CarbonAt
  <2>11. Stands("carbonize", TRUE, s, z)
    <3>1. TRUE \in BOOLEAN
      OBVIOUS
    <3> HIDE <1>1, <2>1, <2>9
    <3> QED
      BY <2>10, <3>1, CarbonStands
  <2> QED
    BY <2>9, <2>11
<1>7. CASE ~x
  <2>1. PICK w \in Int, v \in Int : w = c + 3 /\ v = c + 4 + n
    OBVIOUS
  <2>4. Elem(s, w, v) /\ c \in 1..w /\ v \in v..Len(s)
    BY <1>1, <2>1
  <2>5. \A k \in Own(s, z) : k \in c..w
    BY <1>3, <1>7, <2>1
  <2>6. ASSUME NEW k \in Int, k \in c..(w - 1)
        PROVE  s[k].tag \in {"mark", "style", "blank"} /\ k \in Own(s, z)
    <3>1. k = c \/ k = c + 1 \/ k = c + 2
      BY <2>1, <2>6
    <3> QED
      BY <3>1, <1>4, <1>5
  <2>7. Frame(s, z, c, w, v, v, FALSE)
    <3>1. \A k \in c..(w - 1) : /\ s[k].tag \in {"mark", "style", "blank"}
                                /\ k \in Own(s, z) \/ s[k].tag = "blank"
      BY <2>6
    <3>2. \A k \in (v + 1)..v : s[k].tag = "mark" /\ k \in Own(s, z)
      OBVIOUS
    <3>4. s[c].tag # "style" /\ c \in Own(s, z) /\ w \in Own(s, z)
      BY <1>4, <1>5, <2>1
    <3> HIDE <2>1
    <3> QED
      BY <3>1, <3>2, <3>4, <2>4, <2>5 DEF Frame
  <2>8. \A k \in Own(s, z) : k <= c + 3
    OBVIOUS
  <2>9. x = FALSE
    BY <1>7
  <2>10. CarbonAt(FALSE, s, z, c, w, v)
    <3>1. w = c + 3 /\ s[c + 1].tag \in {"style", "blank"} /\ s[c + 3].tag = "div"
      BY <2>1, <1>4
    <3> QED
      BY <3>1, <1>4, <2>7, <2>8 DEF CarbonAt
  <2>11. Stands("carbonize", FALSE, s, z)
    <3>1. FALSE \in BOOLEAN
      OBVIOUS
    <3> HIDE <1>1, <2>1, <2>9
    <3> QED
      BY <2>10, <3>1, CarbonStands
  <2> QED
    BY <2>9, <2>11
<1> QED
  BY <1>6, <1>7
\* What Accept puts in the place of a block that has CSS.
CarbonNew(new, x, c, z, r, n) ==
    /\ File(new) /\ Len(r) = n
    /\ (x => c = 2 /\ Len(new) = n + 7) /\ (~x => c = 1 /\ Len(new) = n + 5)
    /\ CarbonLines(x, new, c, z, n)
    /\ \A k \in 1..n : new[c + 3 + k] = r[k]

LEMMA Tuples ==
    ASSUME NEW a, NEW b, NEW c, NEW d, a \in LINES, b \in LINES, c \in LINES, d \in LINES
    PROVE  /\ File(<<a, b, c, d>>) /\ Len(<<a, b, c, d>>) = 4
           /\ <<a, b, c, d>>[1] = a /\ <<a, b, c, d>>[2] = b
           /\ <<a, b, c, d>>[3] = c /\ <<a, b, c, d>>[4] = d
BY DEF File

Bodied(y, a, b, c, d, r, e, n) ==
    /\ File(y) /\ Len(y) = n + 5
    /\ y[1] = a /\ y[2] = b /\ y[3] = c /\ y[4] = d /\ y[n + 5] = e
    /\ \A k \in 1..n : y[4 + k] = r[k]

LEMMA BodyIs ==
    ASSUME NEW a, NEW b, NEW c, NEW d, NEW r, NEW e, NEW n \in Int, a \in LINES, b \in LINES,
           c \in LINES, d \in LINES, e \in LINES, File(r), Len(r) = n
    PROVE  Bodied(<<a, b, c, d>> \o r \o <<e>>, a, b, c, d, r, e, n)
<1>1. /\ File(<<a, b, c, d>>) /\ Len(<<a, b, c, d>>) = 4
      /\ <<a, b, c, d>>[1] = a /\ <<a, b, c, d>>[2] = b
      /\ <<a, b, c, d>>[3] = c /\ <<a, b, c, d>>[4] = d
  BY Tuples
<1>2. PICK y : y = <<a, b, c, d>>
  OBVIOUS
<1>3. File(y) /\ Len(y) = 4 /\ y[1] = a /\ y[2] = b /\ y[3] = c /\ y[4] = d
  BY <1>1, <1>2
<1>4. 0 <= n
  BY FileLen
<1>5. PICK m \in Int : m = n + 4
  OBVIOUS
<1>20. PICK i4 \in Int, i1 \in Int : i4 = 4 /\ i1 = 1
  OBVIOUS
<1>6. /\ File(y \o r) /\ Len(y \o r) = i4 + n
      /\ \A k \in 1..i4 : (y \o r)[k] = y[k]
      /\ \A k \in (i4 + 1)..(i4 + n) : (y \o r)[k] = r[k - i4]
  <2>1. File(y) /\ Len(y) = i4
    BY <1>3, <1>20
  <2> HIDE <1>1, <1>2, <1>3, <1>4, <1>5, <1>20
  <2> QED
    BY <2>1, Cat
<1>7. PICK x : x = y \o r
  OBVIOUS
<1>8. /\ File(x) /\ Len(x) = m
      /\ \A k \in 1..4 : x[k] = y[k]
      /\ \A k \in 1..n : x[4 + k] = r[k]
  <2>1. File(x) /\ Len(x) = m
    BY <1>5, <1>6, <1>7, <1>20
  <2>2. \A k \in 1..4 : x[k] = y[k]
    BY <1>6, <1>7, <1>20
  <2>3. ASSUME NEW k \in Int, k \in 1..n PROVE x[4 + k] = r[k]
    <3>1. PICK j \in Int : j = 4 + k
      OBVIOUS
    <3>2. j \in (i4 + 1)..(i4 + n) /\ j - i4 = k
      BY <3>1, <2>3, <1>20
    <3>3. (y \o r)[j] = r[j - i4]
      BY <3>2, <1>6
    <3> QED
      BY <3>1, <3>2, <3>3, <1>7
  <2> QED
    BY <2>1, <2>2, <2>3
<1>9. PICK q : q = <<e>>
  OBVIOUS
<1>10. File(q) /\ Len(q) = 1 /\ q[1] = e
  BY <1>9 DEF File
<1>11. /\ File(x \o q) /\ Len(x \o q) = m + i1
       /\ \A k \in 1..m : (x \o q)[k] = x[k]
       /\ \A k \in (m + 1)..(m + i1) : (x \o q)[k] = q[k - m]
  <2>1. File(x) /\ Len(x) = m /\ File(q) /\ Len(q) = i1
    BY <1>8, <1>10, <1>20
  <2> HIDE <1>1, <1>2, <1>3, <1>4, <1>5, <1>6, <1>7, <1>8, <1>9, <1>10, <1>20
  <2> QED
    BY <2>1, Cat
<1>12. PICK f : f = x \o q
  OBVIOUS
<1>13. \A k \in 1..m : f[k] = x[k]
  BY <1>11, <1>12
<1>14. f[m + 1] = e
  <2>0. PICK m1 \in Int : m1 = m + 1
    OBVIOUS
  <2>1. m1 \in (m + 1)..(m + i1) /\ m1 - m = 1
    BY <2>0, <1>20
  <2>2. (x \o q)[m1] = q[m1 - m]
    BY <2>1, <1>11
  <2>3. (x \o q)[m1] = e
    BY <2>1, <2>2, <1>10
  <2> QED
    BY <2>0, <2>3, <1>12
<1>15. f[1] = a /\ f[2] = b /\ f[3] = c /\ f[4] = d
  <2>1. 1 \in 1..4 /\ 2 \in 1..4 /\ 3 \in 1..4 /\ 4 \in 1..4
    OBVIOUS
  <2>2. 1 \in 1..m /\ 2 \in 1..m /\ 3 \in 1..m /\ 4 \in 1..m
    BY <1>4, <1>5
  <2>3. x[1] = a /\ x[2] = b /\ x[3] = c /\ x[4] = d
    BY <2>1, <1>3, <1>8
  <2>4. f[1] = x[1] /\ f[2] = x[2] /\ f[3] = x[3] /\ f[4] = x[4]
    BY <2>2, <1>13
  <2> QED
    BY <2>3, <2>4
<1>16. ASSUME NEW k \in Int, k \in 1..n PROVE f[4 + k] = r[k]
  <2>1. 4 + k \in 1..m
    BY <1>5, <1>16
  <2>2. f[4 + k] = x[4 + k]
    BY <2>1, <1>13
  <2>3. x[4 + k] = r[k]
    BY <1>16, <1>8
  <2> QED
    BY <2>2, <2>3
<1>17. File(f) /\ Len(f) = n + 5
  BY <1>5, <1>11, <1>12, <1>20
<1>18. f[n + 5] = e
  <2>1. m + 1 = n + 5
    BY <1>5
  <2> QED
    BY <2>1, <1>14
<1>19. f = <<a, b, c, d>> \o r \o <<e>>
  BY <1>2, <1>7, <1>9, <1>12
<1>21. Bodied(f, a, b, c, d, r, e, n)
  BY <1>15, <1>16, <1>17, <1>18 DEF Bodied
<1> QED
  BY <1>19, <1>21
LEMMA CarbonHtml ==
    ASSUME NEW new, NEW z, NEW m, NEW ind, NEW ind2, NEW r, NEW n \in Int, z \in Sessions,
           m \in Nat, ind \in Nat, ind2 \in Nat, File(r), Len(r) = n, Balanced(r, 0, n),
           Bodied(new, Mark("carbonize-start", z, ind), Css(z, ind), Mark("carbonize-end", z, ind),
                  Open("variant", z, m, ind), r, Shut(ind2), n)
    PROVE  CarbonNew(new, FALSE, 1, z, r, n)
<1>1. /\ File(new) /\ Len(new) = n + 5
      /\ new[1] = Mark("carbonize-start", z, ind) /\ new[2] = Css(z, ind)
      /\ new[3] = Mark("carbonize-end", z, ind) /\ new[4] = Open("variant", z, m, ind)
      /\ new[n + 5] = Shut(ind2)
      /\ \A k \in 1..n : new[4 + k] = r[k]
  BY DEF Bodied
<1>2. 0 <= n
  BY FileLen
<1>3. DOMAIN new = 1..(n + 5)
  BY <1>1, FileIs
<1>4. 1 \in DOMAIN new /\ 2 \in DOMAIN new /\ 3 \in DOMAIN new /\ 4 \in DOMAIN new
  BY <1>2, <1>3
<1>5. /\ Is(new, 1, "carbonize-start", z) /\ new[1].tag = "mark"
      /\ Is(new, 2, "css", z) /\ new[2].tag = "style"
      /\ Is(new, 3, "carbonize-end", z) /\ new[3].tag = "mark"
      /\ Is(new, 4, "variant", z) /\ new[4].tag = "div"
  BY <1>1, <1>4 DEF Is, Mark, Css, Open, Line
<1>6. new[n + 5].tag = "/div" /\ new[n + 5].role = "any"
  BY <1>1 DEF Shut, Line
<1>7. Balanced(new, 4, 4 + n)
  <2>1. PICK i0 \in Int, e4 \in Int, i1 \in Int, j1 \in Int :
            i0 = 0 /\ e4 = 4 /\ i1 = i0 + e4 /\ j1 = n + e4
    OBVIOUS
  <2>2. ASSUME NEW k \in Int, k \in (i0 + 1)..n PROVE Step(new[k + e4]) = Step(r[k])
    <3>1. k \in 1..n /\ k + e4 = 4 + k
      BY <2>1, <2>2
    <3>2. new[4 + k] = r[k]
      BY <3>1, <1>1
    <3>3. new[k + e4] = r[k]
      BY <3>1, <3>2
    <3> QED
      BY <3>3
  <2>3. Alike(r, new, i0, n, e4)
    BY <2>2 DEF Alike
  <2>4. Balanced(r, i0, n)
    BY <2>1
  <2>5. 0 <= i0 /\ i0 <= n /\ 0 <= i0 + e4
    BY <1>2, <2>1
  <2>6. Balanced(new, i0 + e4, n + e4)
    <3> HIDE <1>1, <1>2, <1>3, <1>4, <1>5, <1>6, <2>1
    <3> QED
      BY <2>3, <2>4, <2>5, BalancedCopy
  <2>7. i0 + e4 = 4 /\ n + e4 = 4 + n
    BY <2>1
  <2> QED
    BY <2>6, <2>7
<1>8. CarbonLines(FALSE, new, 1, z, n)
  <2>1. 1 + 1 = 2 /\ 1 + 2 = 3 /\ 1 + 3 = 4 /\ 1 + 4 + n = n + 5 /\ 1 + 3 + n = 4 + n
    OBVIOUS
  <2>2. 1 <= 1 /\ 0 <= n /\ 1 + 4 + n <= Len(new)
    BY <1>1, <1>2
  <2> QED
    BY <1>5, <1>6, <1>7, <2>1, <2>2 DEF CarbonLines
<1>9. \A k \in 1..n : new[1 + 3 + k] = r[k]
  <2>1. \A k \in 1..n : 1 + 3 + k = 4 + k
    OBVIOUS
  <2> QED
    BY <2>1, <1>1
<1> QED
  BY <1>1, <1>8, <1>9 DEF CarbonNew

Enclosed(new, first, y, last) == new = <<first>> \o y \o <<last>>

LEMMA CarbonJsx ==
    ASSUME NEW new, NEW y, NEW z, NEW r, NEW n \in Int, NEW first, NEW last,
           z \in Sessions, CarbonNew(y, FALSE, 1, z, r, n), File(r),
           first \in LINES, first.tag = "div", first.role = "carbonize", first.id = z,
           last \in LINES, last.tag = "/div", last.role = "any",
           Enclosed(new, first, y, last)
    PROVE  CarbonNew(new, TRUE, 2, z, r, n)
<1>1. /\ File(y) /\ Len(r) = n /\ Len(y) = n + 5
      /\ CarbonLines(FALSE, y, 1, z, n)
      /\ \A k \in 1..n : y[1 + 3 + k] = r[k]
  BY DEF CarbonNew
<1>2. 0 <= n
  BY <1>1, FileLen
<1>3. PICK m \in Int, i1 \in Int, i2 \in Int : m = n + 5 /\ i1 = 1 /\ i2 = n + 6
  OBVIOUS
<1>4. PICK f : f = <<first>>
  OBVIOUS
<1>5. PICK l : l = <<last>>
  OBVIOUS
<1>6. File(f) /\ Len(f) = i1 /\ f[1] = first /\ File(l) /\ Len(l) = i1 /\ l[1] = last
  BY <1>3, <1>4, <1>5 DEF File
<1>7. Len(y) = m /\ File(y) /\ File(f) /\ Len(f) = i1
  BY <1>1, <1>3, <1>6
<1>8. /\ File(f \o y) /\ Len(f \o y) = i1 + m
      /\ \A k \in 1..i1 : (f \o y)[k] = f[k]
      /\ \A k \in (i1 + 1)..(i1 + m) : (f \o y)[k] = y[k - i1]
  <2> HIDE <1>1, <1>2, <1>3, <1>4, <1>5, <1>6
  <2> QED
    BY <1>7, Cat
<1>9. PICK x : x = f \o y
  OBVIOUS
<1>10. File(x) /\ Len(x) = i2 /\ File(l) /\ Len(l) = i1
  BY <1>3, <1>6, <1>8, <1>9
<1>11. /\ File(x \o l) /\ Len(x \o l) = i2 + i1
       /\ \A k \in 1..i2 : (x \o l)[k] = x[k]
       /\ \A k \in (i2 + 1)..(i2 + i1) : (x \o l)[k] = l[k - i2]
  <2> HIDE <1>1, <1>2, <1>3, <1>4, <1>5, <1>6, <1>7, <1>8, <1>9
  <2> QED
    BY <1>10, Cat
<1>12. new = x \o l
  BY <1>4, <1>5, <1>9 DEF Enclosed
<1>13. File(new) /\ Len(new) = n + 7
  BY <1>3, <1>11, <1>12
<1>14. new[1] = first
  <2>1. 1 \in 1..i1 /\ 1 \in 1..i2
    BY <1>2, <1>3
  <2> QED
    BY <2>1, <1>6, <1>8, <1>9, <1>11, <1>12
<1>15. ASSUME NEW k \in Int, k \in 2..i2 PROVE new[k] = y[k - 1]
  <2>1. k \in 1..i2 /\ k \in (i1 + 1)..(i1 + m) /\ k - i1 = k - 1
    BY <1>15, <1>3
  <2>2. new[k] = x[k]
    BY <2>1, <1>11, <1>12
  <2>3. x[k] = y[k - i1]
    BY <2>1, <1>8, <1>9
  <2> QED
    BY <2>1, <2>2, <2>3
<1>30. \A k \in 2..i2 : new[k] = y[k - 1]
  BY <1>15
<1>16. new[n + 7] = last
  <2>0. PICK m1 \in Int : m1 = i2 + 1
    OBVIOUS
  <2>1. m1 \in (i2 + 1)..(i2 + i1) /\ m1 - i2 = 1
    BY <2>0, <1>3
  <2>2. (x \o l)[m1] = l[m1 - i2]
    BY <2>1, <1>11
  <2>3. (x \o l)[m1] = last
    BY <2>1, <2>2, <1>6
  <2>4. m1 = n + 7
    BY <2>0, <1>3
  <2> QED
    BY <2>3, <2>4, <1>12
<1>17. DOMAIN new = 1..(n + 7)
  BY <1>13, FileIs
<1>18. /\ y[1].role = "carbonize-start" /\ y[1].id = z /\ y[1].tag = "mark"
       /\ y[1 + 1].role = "css" /\ y[1 + 1].id = z /\ y[1 + 1].tag = "style"
       /\ y[1 + 2].role = "carbonize-end" /\ y[1 + 2].id = z /\ y[1 + 2].tag = "mark"
       /\ y[1 + 3].role = "variant" /\ y[1 + 3].id = z /\ y[1 + 3].tag = "div"
       /\ y[1 + 4 + n].tag = "/div" /\ y[1 + 4 + n].role = "any"
       /\ Balanced(y, 1 + 3, 1 + 3 + n)
  BY <1>1 DEF CarbonLines, Is
<1>19. /\ new[2] = y[1] /\ new[3] = y[1 + 1] /\ new[4] = y[1 + 2] /\ new[5] = y[1 + 3]
       /\ new[n + 6] = y[1 + 4 + n]
  <2>1. 2 \in 2..i2 /\ 3 \in 2..i2 /\ 4 \in 2..i2 /\ 5 \in 2..i2 /\ n + 6 \in 2..i2
    BY <1>2, <1>3
  <2>2. 2 - 1 = 1 /\ 3 - 1 = 1 + 1 /\ 4 - 1 = 1 + 2 /\ 5 - 1 = 1 + 3 /\ n + 6 - 1 = 1 + 4 + n
    OBVIOUS
  <2>3. /\ new[2] = y[2 - 1] /\ new[3] = y[3 - 1] /\ new[4] = y[4 - 1] /\ new[5] = y[5 - 1]
        /\ new[n + 6] = y[n + 6 - 1]
    <3>1. new[2] = y[2 - 1] BY <2>1, <1>30
    <3>2. new[3] = y[3 - 1] BY <2>1, <1>30
    <3>3. new[4] = y[4 - 1] BY <2>1, <1>30
    <3>4. new[5] = y[5 - 1] BY <2>1, <1>30
    <3>5. new[n + 6] = y[n + 6 - 1] BY <2>1, <1>30
    <3> QED BY <3>1, <3>2, <3>3, <3>4, <3>5
  <2> QED
    BY <2>2, <2>3
<1>20. /\ 1 \in DOMAIN new /\ 2 \in DOMAIN new /\ 3 \in DOMAIN new /\ 4 \in DOMAIN new
       /\ 5 \in DOMAIN new
  BY <1>2, <1>17
<1>21. /\ Is(new, 2, "carbonize-start", z) /\ new[2].tag = "mark"
       /\ Is(new, 3, "css", z) /\ new[3].tag = "style"
       /\ Is(new, 4, "carbonize-end", z) /\ new[4].tag = "mark"
       /\ Is(new, 5, "variant", z) /\ new[5].tag = "div"
       /\ Is(new, 1, "carbonize", z) /\ new[1].tag = "div"
       /\ new[n + 6].tag = "/div" /\ new[n + 6].role = "any"
       /\ new[n + 7].tag = "/div" /\ new[n + 7].role = "any"
  BY <1>14, <1>16, <1>18, <1>19, <1>20 DEF Is
<1>22. Balanced(new, 5, 5 + n)
  <2>1. PICK i0 \in Int, e \in Int, j0 \in Int : i0 = 4 /\ e = 1 /\ j0 = 4 + n
    OBVIOUS
  <2>2. ASSUME NEW k \in Int, k \in (i0 + 1)..j0 PROVE Step(new[k + e]) = Step(y[k])
    <3>1. PICK j \in Int : j = k + e
      OBVIOUS
    <3>2. j \in 2..i2 /\ j - 1 = k
      BY <3>1, <2>1, <2>2, <1>3
    <3>3. new[j] = y[j - 1]
      BY <3>2, <1>15
    <3> QED
      BY <3>1, <3>2, <3>3
  <2>3. Alike(y, new, i0, j0, e)
    <3> HIDE <2>1
    <3> QED
      BY <2>2 DEF Alike
  <2>4. Balanced(y, i0, j0)
    <3>1. 1 + 3 = i0 /\ 1 + 3 + n = j0
      BY <2>1
    <3> QED
      BY <3>1, <1>18
  <2>5. 0 <= i0 /\ i0 <= j0 /\ 0 <= i0 + e
    BY <1>2, <2>1
  <2>6. Balanced(new, i0 + e, j0 + e)
    <3> HIDE <1>1, <1>2, <1>3, <1>4, <1>5, <1>6, <1>7, <1>8, <1>9, <1>10, <1>11, <1>12, <1>14, <1>15, <1>16, <1>17, <1>18, <1>19, <1>20, <1>21, <2>1
    <3> QED
      BY <2>3, <2>4, <2>5, BalancedCopy
  <2>7. i0 + e = 5 /\ j0 + e = 5 + n
    BY <2>1
  <2> QED
    BY <2>6, <2>7
<1>23. CarbonLines(TRUE, new, 2, z, n)
  <2>1. /\ 2 + 1 = 3 /\ 2 + 2 = 4 /\ 2 + 3 = 5 /\ 2 + 4 + n = n + 6 /\ 2 + 3 + n = 5 + n
        /\ 2 - 1 = 1 /\ 2 + 5 + n = n + 7
    OBVIOUS
  <2>2. 1 <= 2 /\ 0 <= n /\ 2 + 4 + n <= Len(new) /\ 2 <= 2 /\ 2 + 5 + n <= Len(new)
    BY <1>2, <1>13
  <2> QED
    BY <1>21, <1>22, <2>1, <2>2 DEF CarbonLines
<1>24. ASSUME NEW k \in Int, k \in 1..n PROVE new[2 + 3 + k] = r[k]
  <2>1. PICK j \in Int : j = 5 + k
    OBVIOUS
  <2>2. j \in 2..i2 /\ j - 1 = 1 + 3 + k /\ 2 + 3 + k = j
    BY <2>1, <1>24, <1>3
  <2>3. new[j] = y[j - 1]
    BY <2>2, <1>15
  <2>4. y[1 + 3 + k] = r[k]
    BY <1>24, <1>1
  <2> QED
    BY <2>2, <2>3, <2>4
<1>25. \A k \in 1..n : new[2 + 3 + k] = r[k]
  BY <1>24
<1> QED
  BY <1>1, <1>13, <1>23, <1>25 DEF CarbonNew
LEMMA PieceTaken ==
    ASSUME NEW s, NEW h \in Int, NEW g \in Int, NEW r, File(s), 1 <= h, h <= g, g <= Len(s),
           Piece(s, h, g, r)
    PROVE  /\ File(r) /\ Balanced(r, 0, Len(r))
           /\ \E a, b, u \in Int : Taken(s, r, a, b, u) /\ Cut(s, h, g, a, b)
<1>1. CASE File(r) /\ Len(r) = 0
  <2>1. PICK a \in Int : a = h - 1
    OBVIOUS
  <2>2. PICK u \in Int : u = 0
    OBVIOUS
  <2>3. Cut(s, h, g, a, a)
    BY <2>1, FileLen DEF Cut
  <2>4. Taken(s, r, a, a, u)
    <3>1. File(r) /\ 0 <= u /\ u + (a - a) <= Len(r)
      BY <1>1, <2>2
    <3>2. \A k \in (a + 1)..a : Like(s[k], r[k - a + u])
      OBVIOUS
    <3>3. \A k \in 1..Len(r) : k <= u \/ u + (a - a) < k => r[k].tag = "blank"
      BY <1>1
    <3> HIDE <2>1, <2>2, <1>1
    <3> QED
      BY <3>1, <3>2, <3>3 DEF Taken
  <2>5. Balanced(r, 0, 0)
    BY BalancedNone
  <2>6. Balanced(r, 0, Len(r))
    BY <1>1, <2>5
  <2> HIDE <2>1, <2>2
  <2> QED
    BY <1>1, <2>3, <2>4, <2>6
<1>2. CASE ~(File(r) /\ Len(r) = 0)
  <2>1. PICK p, q, a, b, u \in Int :
            /\ Elem(s, p, q) /\ s[p].role \in {"original", "variant"} /\ h <= p /\ q <= g
            /\ Excerpt(s, r, p, q, a, b, u)
    BY <1>2 DEF Piece
  <2>2. Balanced(r, 0, Len(r))
    <3>1. Elem(s, p, q) /\ Excerpt(s, r, p, q, a, b, u)
      BY <2>1
    <3> HIDE <2>1, <1>2
    <3> QED
      BY <3>1, ExcerptBalanced
  <2>3. /\ Taken(s, r, a, b, u) /\ p <= a /\ a <= b /\ b < q
        /\ \A k \in (p + 1)..a : s[k].tag \in {"blank", "style"}
        /\ \A k \in (b + 1)..(q - 1) : s[k].tag \in {"blank", "style"}
    BY <2>1 DEF Excerpt
  <2>4. File(r)
    BY <2>3 DEF Taken
  <2>5. h - 1 <= a /\ a <= b /\ b <= g
    BY <2>1, <2>3
  <2>6. Cut(s, h, g, a, b)
    BY <2>1, <2>3, <2>5 DEF Cut
  <2> QED
    BY <2>2, <2>3, <2>4, <2>6
<1> QED
  BY <1>1, <1>2

LEMMA CarbonBodyIs ==
    ASSUME NEW z, NEW m, NEW lines, NEW ind, NEW n \in Int, z \in Sessions, m \in Nat,
           ind \in Nat, File(Reindent(lines, ind + 2)), Len(Reindent(lines, ind + 2)) = n,
           Balanced(Reindent(lines, ind + 2), 0, n)
    PROVE  CarbonNew(CarbonizeBody(z, m, lines, ind), FALSE, 1, z, Reindent(lines, ind + 2), n)
<1>1. PICK r : r = Reindent(lines, ind + 2)
  OBVIOUS
<1>2. File(r) /\ Len(r) = n /\ Balanced(r, 0, n)
  BY <1>1
<1>3. PICK a, b, c, d, e :
        /\ a = Mark("carbonize-start", z, ind) /\ b = Css(z, ind)
        /\ c = Mark("carbonize-end", z, ind) /\ d = Open("variant", z, m, ind) /\ e = Shut(ind)
  OBVIOUS
<1>4. z \in Ids /\ m \in Nat /\ ind \in Nat /\ 0 \in Nat
  BY DEF Ids
<1>5. Mark("carbonize-start", z, ind) \in LINES /\ Mark("carbonize-end", z, ind) \in LINES
  BY <1>4, LineIs
<1>6. Css(z, ind) \in LINES /\ Shut(ind) \in LINES
  BY <1>4, LineIs
<1>7. Open("variant", z, m, ind) \in LINES
  BY <1>4, LineIs
<1>8. a \in LINES /\ b \in LINES /\ c \in LINES /\ d \in LINES /\ e \in LINES
  BY <1>3, <1>5, <1>6, <1>7
<1>9. Bodied(<<a, b, c, d>> \o r \o <<e>>, a, b, c, d, r, e, n)
  <2> HIDE <1>1, <1>3
  <2> QED
    BY <1>2, <1>8, BodyIs
<1>10. CarbonizeBody(z, m, lines, ind) = <<a, b, c, d>> \o r \o <<e>>
  BY <1>1, <1>3 DEF CarbonizeBody
<1>11. PICK new : new = CarbonizeBody(z, m, lines, ind)
  OBVIOUS
<1>12. Bodied(new, Mark("carbonize-start", z, ind), Css(z, ind), Mark("carbonize-end", z, ind),
                  Open("variant", z, m, ind), r, Shut(ind), n)
  BY <1>3, <1>9, <1>10, <1>11
<1>13. CarbonNew(new, FALSE, 1, z, r, n)
  <2> HIDE <1>1, <1>3, <1>11, <1>10
  <2> QED
    BY <1>2, <1>12, CarbonHtml
<1> QED
  BY <1>1, <1>11, <1>13

LEMMA ReplacementIs ==
    ASSUME NEW s, NEW h \in Int, NEW g \in Int, NEW z, NEW m, NEW lines, NEW ind,
           z \in Sessions, m \in Nat, ind \in Nat, jsx \in BOOLEAN, File(s), 1 <= h, h <= g,
           g <= Len(s), Piece(s, h, g, lines)
    PROVE  \E r : \E c, n \in Int :
             CarbonNew(Replacement(z, m, lines, TRUE, ind), jsx, c, z, r, n) /\ Piece(s, h, g, r)
<1>1. ASSUME NEW k, k \in Nat
      PROVE  \E n \in Int :
               /\ Piece(s, h, g, Reindent(lines, k + 2)) /\ File(Reindent(lines, k + 2))
               /\ CarbonNew(CarbonizeBody(z, m, lines, k), FALSE, 1, z, Reindent(lines, k + 2), n)
  <2>1. k + 2 \in Nat
    BY <1>1
  <2>2. Piece(s, h, g, Reindent(lines, k + 2))
    BY <2>1, PieceReindent
  <2>3. PICK r : r = Reindent(lines, k + 2)
    OBVIOUS
  <2>4. Piece(s, h, g, r)
    BY <2>2, <2>3
  <2>5. /\ File(r) /\ Balanced(r, 0, Len(r))
        /\ \E a, b, u \in Int : Taken(s, r, a, b, u) /\ Cut(s, h, g, a, b)
    <3> HIDE <2>2, <2>3
    <3> QED
      BY <2>4, PieceTaken
  <2>6. File(r)
    BY <2>5
  <2>7. PICK n \in Int : n = Len(r)
    BY <2>6, FileLen
  <2>8. /\ File(Reindent(lines, k + 2)) /\ Len(Reindent(lines, k + 2)) = n
        /\ Balanced(Reindent(lines, k + 2), 0, n)
    BY <2>3, <2>5, <2>7
  <2> HIDE <2>1, <2>3, <2>4, <2>5, <2>6, <2>7
  <2>9. CarbonNew(CarbonizeBody(z, m, lines, k), FALSE, 1, z, Reindent(lines, k + 2), n)
    BY <1>1, <2>8, CarbonBodyIs
  <2> QED
    BY <2>2, <2>8, <2>9
<1>2. CASE ~jsx
  <2>1. PICK n \in Int :
               /\ Piece(s, h, g, Reindent(lines, ind + 2)) /\ File(Reindent(lines, ind + 2))
               /\ CarbonNew(CarbonizeBody(z, m, lines, ind), FALSE, 1, z, Reindent(lines, ind + 2), n)
    BY <1>1
  <2>2. Replacement(z, m, lines, TRUE, ind) = CarbonizeBody(z, m, lines, ind)
    BY <1>2 DEF Replacement
  <2>3. jsx = FALSE
    BY <1>2
  <2>4. PICK new : new = Replacement(z, m, lines, TRUE, ind)
    OBVIOUS
  <2>5. PICK r : r = Reindent(lines, ind + 2)
    OBVIOUS
  <2>6. CarbonNew(new, FALSE, 1, z, r, n) /\ Piece(s, h, g, r)
    BY <2>1, <2>2, <2>4, <2>5
  <2>7. PICK c \in Int : c = 1
    OBVIOUS
  <2>8. CarbonNew(new, jsx, c, z, r, n)
    BY <2>3, <2>6, <2>7
  <2>9. CarbonNew(Replacement(z, m, lines, TRUE, ind), jsx, c, z, r, n)
    BY <2>4, <2>8
  <2> HIDE <2>1, <2>2, <2>3, <2>4, <2>5, <2>7
  <2> QED
    BY <2>6, <2>9
<1>3. CASE jsx
  <2>0. PICK k : k = ind + 2
    OBVIOUS
  <2>01. k \in Nat
    BY <2>0
  <2>1. PICK n \in Int :
               /\ Piece(s, h, g, Reindent(lines, k + 2)) /\ File(Reindent(lines, k + 2))
               /\ CarbonNew(CarbonizeBody(z, m, lines, k), FALSE, 1, z, Reindent(lines, k + 2), n)
    BY <2>01, <1>1
  <2>2. PICK first, last : first = Open("carbonize", z, 0, ind) /\ last = Shut(ind)
    OBVIOUS
  <2>3. Replacement(z, m, lines, TRUE, ind)
            = <<first>> \o CarbonizeBody(z, m, lines, k) \o <<last>>
    BY <1>3, <2>0, <2>2 DEF Replacement
  <2>4. PICK new : new = Replacement(z, m, lines, TRUE, ind)
    OBVIOUS
  <2>5. PICK y : y = CarbonizeBody(z, m, lines, k)
    OBVIOUS
  <2>6. PICK r : r = Reindent(lines, k + 2)
    OBVIOUS
  <2>7. Enclosed(new, first, y, last)
    BY <2>3, <2>4, <2>5 DEF Enclosed
  <2>8. CarbonNew(y, FALSE, 1, z, r, n) /\ File(r) /\ Piece(s, h, g, r)
    BY <2>1, <2>5, <2>6
  <2>9. z \in Ids /\ 0 \in Nat /\ ind \in Nat
    BY DEF Ids
  <2>10. Open("carbonize", z, 0, ind) \in LINES
    BY <2>9, LineIs
  <2>11. Shut(ind) \in LINES
    BY <2>9, LineIs
  <2>12. /\ first \in LINES /\ first.tag = "div" /\ first.role = "carbonize" /\ first.id = z
         /\ last \in LINES /\ last.tag = "/div" /\ last.role = "any"
    BY <2>2, <2>10, <2>11 DEF Open, Shut, Line
  <2>13. CarbonNew(new, TRUE, 2, z, r, n)
    <3> HIDE <2>0, <2>1, <2>2, <2>3, <2>4, <2>5, <2>6
    <3> QED
      BY <2>7, <2>8, <2>12, CarbonJsx
  <2>14. jsx = TRUE
    BY <1>3
  <2>15. PICK c \in Int : c = 2
    OBVIOUS
  <2>16. CarbonNew(new, jsx, c, z, r, n)
    BY <2>13, <2>14, <2>15
  <2>17. CarbonNew(Replacement(z, m, lines, TRUE, ind), jsx, c, z, r, n)
    BY <2>4, <2>16
  <2> HIDE <2>0, <2>1, <2>2, <2>3, <2>4, <2>5, <2>6, <2>14, <2>15
  <2> QED
    BY <2>8, <2>17
<1> QED
  BY <1>2, <1>3
Tight(new, n, a, b, y, c) ==
    \A k \in 1..n : (k <= y \/ y + (b - a) < k) /\ new[k].role \in Scaffold => k <= c + 3

LEMMA CarbonSwap ==
    ASSUME NEW s, NEW t, NEW h \in Int, NEW g \in Int, NEW x, NEW new, NEW c \in Int, NEW z,
           NEW r, NEW n \in Int, x \in BOOLEAN, File(s), 1 <= h, h <= g, g <= Len(s),
           Piece(s, h, g, r), CarbonNew(new, x, c, z, r, n), IsSplice(s, t, h, g, new)
    PROVE  \E m, a, b, y \in Int :
             /\ Swap(s, t, h, g, new, m, a, b, y, z) /\ Tight(new, m, a, b, y, c)
             /\ Replaced(s, t, h, g, new, m)
<1>1. /\ File(r) /\ Balanced(r, 0, Len(r))
      /\ \E a, b, u \in Int : Taken(s, r, a, b, u) /\ Cut(s, h, g, a, b)
  BY PieceTaken
<1>2. PICK a, b, u \in Int : Taken(s, r, a, b, u) /\ Cut(s, h, g, a, b)
  BY <1>1
<1>3. /\ File(new) /\ Len(r) = n
      /\ (x => c = 2 /\ Len(new) = n + 7) /\ (~x => c = 1 /\ Len(new) = n + 5)
      /\ CarbonLines(x, new, c, z, n)
      /\ \A k \in 1..n : new[c + 3 + k] = r[k]
  BY DEF CarbonNew
<1>4. 0 <= n
  BY <1>1, <1>3, FileLen
<1>5. PICK m \in Int : 0 <= m /\ Replaced(s, Splice(s, h, g, new), h, g, new, m)
  <2>1. 1 <= h /\ h <= g + 1 /\ g <= Len(s) /\ File(new)
    BY <1>3, FileLen
  <2> HIDE <1>1, <1>2, <1>3, <1>4
  <2> QED
    BY <2>1, ReplacedIs
<1>6. Replaced(s, t, h, g, new, m)
  BY <1>5 DEF IsSplice
<1>7. Len(new) = m
  BY <1>6 DEF Replaced
<1>8. PICK y \in Int : y = c + 3 + u
  OBVIOUS
<1>9. a <= b
  BY <1>2 DEF Cut
<1>10. /\ File(r) /\ 0 <= u /\ u + (b - a) <= n
       /\ \A k \in (a + 1)..b : Like(s[k], r[k - a + u])
       /\ \A k \in 1..n : k <= u \/ u + (b - a) < k => r[k].tag = "blank"
  BY <1>2, <1>3 DEF Taken
<1>11. ASSUME NEW k \in Int, k \in (a + 1)..b PROVE Like(s[k], new[k - a + y])
  <2>1. PICK j \in Int : j = k - a + u
    OBVIOUS
  <2>2. j \in 1..n /\ c + 3 + j = k - a + y
    <3>1. 0 <= u /\ u + (b - a) <= n
      BY <1>10
    <3> QED
      BY <2>1, <3>1, <1>8, <1>11
  <2>3. Like(s[k], r[j])
    BY <2>1, <1>10, <1>11
  <2>4. new[c + 3 + j] = r[j]
    BY <2>2, <1>3
  <2>5. Like(s[k], new[c + 3 + j])
    BY <2>3, <2>4
  <2> QED
    BY <2>2, <2>5
<1>12. ASSUME NEW k \in Int, k \in 1..m, k <= y \/ y + (b - a) < k, new[k].role \in Scaffold
       PROVE  k <= c + 3
  <2> SUFFICES ASSUME c + 3 < k PROVE FALSE
    OBVIOUS
  <2>1. CASE k <= c + 3 + n
    <3>1. PICK j \in Int : j = k - (c + 3)
      OBVIOUS
    <3>2. j \in 1..n /\ c + 3 + j = k /\ (j <= u \/ u + (b - a) < j)
      BY <3>1, <2>1, <1>8, <1>12
    <3>3. r[j].tag = "blank"
      BY <3>2, <1>10
    <3>4. r[j].role \notin Scaffold
      <4>1. File(r) /\ 1 <= j /\ j <= Len(r)
        BY <3>2, <1>1, <1>3
      <4> HIDE <3>1, <3>2, <1>1, <1>3
      <4> QED
        BY <3>3, <4>1, BlankRole
    <3>5. new[c + 3 + j] = r[j]
      BY <3>2, <1>3
    <3>6. new[k] = r[j]
      BY <3>2, <3>5
    <3> QED
      BY <3>4, <3>6, <1>12
  <2>2. CASE c + 3 + n < k
    <3>1. CASE x
      <4>1. c = 2 /\ m = n + 7
        BY <3>1, <1>3, <1>7
      <4>2. k = c + 4 + n \/ k = c + 5 + n
        BY <4>1, <2>2, <1>12
      <4>3. new[c + 4 + n].role = "any" /\ new[c + 5 + n].role = "any"
        BY <3>1, <1>3 DEF CarbonLines
      <4>4. new[k].role = "any"
        BY <4>2, <4>3
      <4> QED
        BY <4>4, <1>12 DEF Scaffold
    <3>2. CASE ~x
      <4>1. c = 1 /\ m = n + 5
        BY <3>2, <1>3, <1>7
      <4>2. k = c + 4 + n
        BY <4>1, <2>2, <1>12
      <4>3. new[c + 4 + n].role = "any"
        BY <1>3 DEF CarbonLines
      <4>4. new[k].role = "any"
        BY <4>2, <4>3
      <4> QED
        BY <4>4, <1>12 DEF Scaffold
    <3> QED
      BY <3>1, <3>2
  <2> QED
    BY <2>1, <2>2
<1>13. Tight(new, m, a, b, y, c)
  BY <1>12 DEF Tight
<1>14. ASSUME NEW k \in Int, k \in 1..m, k <= y \/ y + (b - a) < k, new[k].role \in Scaffold
       PROVE  new[k].id = z
  <2>1. k <= c + 3
    BY <1>12, <1>14
  <2>2. /\ new[c].id = z /\ new[c + 1].id = z /\ new[c + 2].id = z /\ new[c + 3].id = z
        /\ x => new[c - 1].id = z
    BY <1>3 DEF CarbonLines, Is
  <2>3. CASE x
    <3>1. c = 2
      BY <2>3, <1>3
    <3>2. k = c - 1 \/ k = c \/ k = c + 1 \/ k = c + 2 \/ k = c + 3
      BY <2>1, <3>1, <1>14
    <3> QED
      BY <2>2, <2>3, <3>2
  <2>4. CASE ~x
    <3>1. c = 1
      BY <2>4, <1>3
    <3>2. k = c \/ k = c + 1 \/ k = c + 2 \/ k = c + 3
      BY <2>1, <3>1, <1>14
    <3> QED
      BY <2>2, <3>2
  <2> QED
    BY <2>3, <2>4
<1>15. Balanced(new, 0, m)
  <2>1. /\ 1 <= c /\ 0 <= n /\ Len(new) \in Int /\ c + 4 + n <= Len(new)
        /\ Balanced(new, c - 1, c + 4 + n) /\ Elem(new, c + 3, c + 4 + n)
        /\ \A k \in (c - 1)..(c + 2) : Depth(new, k) = Depth(new, c - 1)
        /\ x => /\ 2 <= c /\ c + 5 + n <= Len(new)
                /\ Balanced(new, c - 2, c + 5 + n) /\ Elem(new, c - 1, c + 5 + n)
    <3>1. File(new) /\ CarbonLines(x, new, c, z, n)
      BY <1>3
    <3> HIDE <1>1, <1>2, <1>3, <1>5, <1>6, <1>7, <1>8, <1>10
    <3> QED
      BY <3>1, CarbonBalanced
  <2>2. CASE x
    <3>1. c = 2 /\ m = n + 7
      BY <2>2, <1>3, <1>7
    <3>2. c - 2 = 0 /\ c + 5 + n = m
      BY <3>1
    <3> QED
      BY <2>1, <2>2, <3>2
  <2>3. CASE ~x
    <3>1. c = 1 /\ m = n + 5
      BY <2>3, <1>3, <1>7
    <3>2. c - 1 = 0 /\ c + 4 + n = m
      BY <3>1
    <3> QED
      BY <2>1, <2>3, <3>2
  <2> QED
    BY <2>2, <2>3
<1>16. 0 <= y /\ y + (b - a) <= m
  <2>1. CASE x
    BY <2>1, <1>3, <1>7, <1>8, <1>10, <1>9
  <2>2. CASE ~x
    BY <2>2, <1>3, <1>7, <1>8, <1>10, <1>9
  <2> QED
    BY <2>1, <2>2
<1>17. NewLines(new, s, a, b, y, z)
  <2>1. File(new) /\ Balanced(new, 0, Len(new)) /\ 0 <= y /\ y + (b - a) <= Len(new)
    BY <1>3, <1>7, <1>15, <1>16
  <2>2. \A k \in (a + 1)..b : Like(s[k], new[k - a + y])
    BY <1>11
  <2>3. \A k \in 1..Len(new) :
            (k <= y \/ y + (b - a) < k) /\ new[k].role \in Scaffold => new[k].id = z
    BY <1>14, <1>7
  <2> HIDE <1>1, <1>2, <1>3, <1>5, <1>6, <1>7, <1>8, <1>10
  <2> QED
    BY <2>1, <2>2, <2>3 DEF NewLines
<1>18. Swap(s, t, h, g, new, m, a, b, y, z)
  BY <1>2, <1>5, <1>6, <1>17 DEF Swap
<1> QED
  <2> HIDE <1>1, <1>2, <1>3, <1>5, <1>7, <1>8, <1>10
  <2> QED
    BY <1>6, <1>13, <1>18

LEMMA CarbonPlaced ==
    ASSUME NEW s, NEW t, NEW h \in Int, NEW g \in Int, NEW x, NEW new, NEW c \in Int, NEW z,
           NEW r, NEW n \in Int, NEW m \in Int, x \in BOOLEAN, File(s), File(t), 1 <= h, h <= g,
           g <= Len(s), CarbonNew(new, x, c, z, r, n), Replaced(s, t, h, g, new, m)
    PROVE  CarbonLines(x, t, h - 1 + c, z, n)
<1>1. /\ File(new) /\ (x => c = 2 /\ Len(new) = n + 7) /\ (~x => c = 1 /\ Len(new) = n + 5)
      /\ CarbonLines(x, new, c, z, n)
  BY DEF CarbonNew
<1>2. /\ Len(new) = m /\ Len(t) = Len(s) + (m + h - 1 - g)
      /\ \A k \in h..(h - 1 + m) : t[k] = new[k - (h - 1)]
  BY DEF Replaced
<1>3. Len(s) \in Int /\ DOMAIN t = 1..Len(t) /\ Len(t) \in Int /\ DOMAIN new = 1..m
  BY <1>1, <1>2, FileIs
<1>4. /\ 1 <= c /\ 0 <= n /\ c + 4 + n <= Len(new)
      /\ new[c].role = "carbonize-start" /\ new[c].id = z /\ new[c].tag = "mark"
      /\ new[c + 1].role = "css" /\ new[c + 1].id = z /\ new[c + 1].tag = "style"
      /\ new[c + 2].role = "carbonize-end" /\ new[c + 2].id = z /\ new[c + 2].tag = "mark"
      /\ new[c + 3].role = "variant" /\ new[c + 3].id = z /\ new[c + 3].tag = "div"
      /\ new[c + 4 + n].tag = "/div" /\ new[c + 4 + n].role = "any"
      /\ Balanced(new, c + 3, c + 3 + n)
      /\ x => /\ 2 <= c /\ c + 5 + n <= Len(new)
              /\ new[c - 1].role = "carbonize" /\ new[c - 1].id = z
              /\ new[c - 1].tag = "div"
              /\ new[c + 5 + n].tag = "/div" /\ new[c + 5 + n].role = "any"
  BY <1>1 DEF CarbonLines, Is
<1>5. PICK e \in Int : e = h - 1
  OBVIOUS
<1>6. PICK C \in Int : C = h - 1 + c
  OBVIOUS
<1>7. ASSUME NEW k \in Int, 1 <= k, k <= m PROVE t[e + k] = new[k] /\ e + k \in DOMAIN t
  <2>1. PICK j \in Int : j = e + k
    OBVIOUS
  <2>2. j \in h..(h - 1 + m) /\ j - (h - 1) = k
    BY <2>1, <1>5, <1>7
  <2>3. t[j] = new[j - (h - 1)]
    BY <2>2, <1>2
  <2>4. t[j] = new[k]
    BY <2>2, <2>3
  <2>5. j \in 1..Len(t)
    BY <2>2, <1>2, <1>3
  <2> QED
    BY <2>1, <2>4, <2>5, <1>3
<1>8. c + 4 + n <= m /\ (x => 1 <= c - 1 /\ c + 5 + n <= m)
  BY <1>2, <1>4
<1>9. /\ t[C] = new[c] /\ C \in DOMAIN t
      /\ t[C + 1] = new[c + 1] /\ C + 1 \in DOMAIN t
      /\ t[C + 2] = new[c + 2] /\ C + 2 \in DOMAIN t
      /\ t[C + 3] = new[c + 3] /\ C + 3 \in DOMAIN t
      /\ t[C + 4 + n] = new[c + 4 + n] /\ C + 4 + n \in DOMAIN t
  <2>1. /\ e + c = C /\ e + (c + 1) = C + 1 /\ e + (c + 2) = C + 2 /\ e + (c + 3) = C + 3
        /\ e + (c + 4 + n) = C + 4 + n
    BY <1>5, <1>6
  <2>2. /\ 1 <= c /\ c <= m /\ 1 <= c + 1 /\ c + 1 <= m /\ 1 <= c + 2 /\ c + 2 <= m
        /\ 1 <= c + 3 /\ c + 3 <= m /\ 1 <= c + 4 + n /\ c + 4 + n <= m
    BY <1>4, <1>8
  <2>3. t[e + c] = new[c] /\ e + c \in DOMAIN t BY <2>2, <1>7
  <2>4. t[e + (c + 1)] = new[c + 1] /\ e + (c + 1) \in DOMAIN t
    <3>1. PICK k \in Int : k = c + 1
      OBVIOUS
    <3>2. t[e + k] = new[k] /\ e + k \in DOMAIN t
      <4>1. 1 <= k /\ k <= m
        BY <3>1, <2>2
      <4> HIDE <3>1
      <4> QED
        BY <4>1, <1>7
    <3> QED
      BY <3>1, <3>2
  <2>5. t[e + (c + 2)] = new[c + 2] /\ e + (c + 2) \in DOMAIN t
    <3>1. PICK k \in Int : k = c + 2
      OBVIOUS
    <3>2. t[e + k] = new[k] /\ e + k \in DOMAIN t
      <4>1. 1 <= k /\ k <= m
        BY <3>1, <2>2
      <4> HIDE <3>1
      <4> QED
        BY <4>1, <1>7
    <3> QED
      BY <3>1, <3>2
  <2>6. t[e + (c + 3)] = new[c + 3] /\ e + (c + 3) \in DOMAIN t
    <3>1. PICK k \in Int : k = c + 3
      OBVIOUS
    <3>2. t[e + k] = new[k] /\ e + k \in DOMAIN t
      <4>1. 1 <= k /\ k <= m
        BY <3>1, <2>2
      <4> HIDE <3>1
      <4> QED
        BY <4>1, <1>7
    <3> QED
      BY <3>1, <3>2
  <2>7. t[e + (c + 4 + n)] = new[c + 4 + n] /\ e + (c + 4 + n) \in DOMAIN t
    <3>1. PICK k \in Int : k = c + 4 + n
      OBVIOUS
    <3>2. t[e + k] = new[k] /\ e + k \in DOMAIN t
      <4>1. 1 <= k /\ k <= m
        BY <3>1, <2>2
      <4> HIDE <3>1
      <4> QED
        BY <4>1, <1>7
    <3> QED
      BY <3>1, <3>2
  <2> HIDE <1>5, <1>6
  <2> QED
    BY <2>1, <2>3, <2>4, <2>5, <2>6, <2>7
<1>10. Balanced(t, C + 3, C + 3 + n)
  <2>1. PICK i0 \in Int, j0 \in Int : i0 = c + 3 /\ j0 = c + 3 + n
    OBVIOUS
  <2>2. ASSUME NEW k \in Int, k \in (i0 + 1)..j0 PROVE Step(t[k + e]) = Step(new[k])
    <3>1. 1 <= k /\ k <= m
      BY <2>1, <2>2, <1>4, <1>8
    <3>2. t[e + k] = new[k]
      BY <3>1, <1>7
    <3>3. k + e = e + k
      OBVIOUS
    <3> QED
      BY <3>2, <3>3
  <2>3. Alike(new, t, i0, j0, e)
    <3> HIDE <2>1, <1>5, <1>6
    <3> QED
      BY <2>2 DEF Alike
  <2>4. Balanced(new, i0, j0)
    BY <2>1, <1>4
  <2>5. 0 <= i0 /\ i0 <= j0 /\ 0 <= i0 + e
    BY <2>1, <1>4, <1>5
  <2>6. Balanced(t, i0 + e, j0 + e)
    <3> HIDE <1>1, <1>2, <1>3, <1>4, <1>5, <1>6, <1>8, <1>9, <2>1
    <3> QED
      BY <2>3, <2>4, <2>5, BalancedCopy
  <2>7. i0 + e = C + 3 /\ j0 + e = C + 3 + n
    BY <2>1, <1>5, <1>6
  <2> QED
    BY <2>6, <2>7
<1>11. 1 <= C /\ 0 <= n /\ C + 4 + n <= Len(t)
  BY <1>3, <1>4, <1>6, <1>9
<1>12. CASE x
  <2>1. 1 <= c - 1 /\ c - 1 <= m /\ 1 <= c + 5 + n /\ c + 5 + n <= m
    BY <1>12, <1>8, <1>4
  <2>2. t[e + (c - 1)] = new[c - 1] /\ e + (c - 1) \in DOMAIN t
    <3>1. PICK k \in Int : k = c - 1
      OBVIOUS
    <3>2. t[e + k] = new[k] /\ e + k \in DOMAIN t
      <4>1. 1 <= k /\ k <= m
        BY <3>1, <2>1
      <4> HIDE <3>1
      <4> QED
        BY <4>1, <1>7
    <3> QED
      BY <3>1, <3>2
  <2>3. t[e + (c + 5 + n)] = new[c + 5 + n] /\ e + (c + 5 + n) \in DOMAIN t
    <3>1. PICK k \in Int : k = c + 5 + n
      OBVIOUS
    <3>2. t[e + k] = new[k] /\ e + k \in DOMAIN t
      <4>1. 1 <= k /\ k <= m
        BY <3>1, <2>1
      <4> HIDE <3>1
      <4> QED
        BY <4>1, <1>7
    <3> QED
      BY <3>1, <3>2
  <2>4. e + (c - 1) = C - 1 /\ e + (c + 5 + n) = C + 5 + n
    BY <1>5, <1>6
  <2>5. /\ t[C - 1] = new[c - 1] /\ C - 1 \in DOMAIN t
        /\ t[C + 5 + n] = new[c + 5 + n] /\ C + 5 + n \in DOMAIN t
    <3> HIDE <1>5, <1>6
    <3> QED
      BY <2>2, <2>3, <2>4
  <2>6. 2 <= C /\ C + 5 + n <= Len(t)
    BY <2>5, <1>3
  <2>7. CarbonLines(x, t, C, z, n)
    <3> HIDE <1>5, <1>6
    <3> QED
      BY <1>4, <1>9, <1>10, <1>11, <1>12, <2>5, <2>6 DEF CarbonLines, Is
  <2> QED
    BY <1>6, <2>7
<1>13. CASE ~x
  <2>7. CarbonLines(x, t, C, z, n)
    <3> HIDE <1>5, <1>6
    <3> QED
      BY <1>4, <1>9, <1>10, <1>11, <1>13 DEF CarbonLines, Is
  <2> QED
    BY <1>6, <2>7
<1> QED
  BY <1>12, <1>13
Choice(z, m) == z \in Sessions /\ m \in Nat

Carbonized(s, t, z, m, h, g, lines) ==
    t = Splice(s, h, g, Replacement(z, m, lines, TRUE, s[h].ind))

StrictFrame(s, z, h, w, v, g) == Frame(s, z, h, w, v, g, TRUE)

LEMMA CarbonReplaces ==
    ASSUME NEW z, NEW m, NEW h \in Int, NEW w \in Int, NEW v \in Int, NEW g \in Int, NEW lines,
           Choice(z, m), File(file), Nested(file), jsx \in BOOLEAN,
           StrictFrame(file, z, h, w, v, g), Outer(file, w), Piece(file, h, g, lines),
           Carbonized(file, file', z, m, h, g, lines)
    PROVE  /\ File(file') /\ Nested(file') /\ Stands("carbonize", jsx, file', z)
           /\ \A y, o : y # z /\ Whole(o, jsx, file, y) => Whole(o, jsx, file', y)
<1>01. /\ z \in Sessions /\ m \in Nat
       /\ file' = Splice(file, h, g, Replacement(z, m, lines, TRUE, file[h].ind))
       /\ Frame(file, z, h, w, v, g, TRUE)
  BY DEF Choice, Carbonized, StrictFrame
<1> USE <1>01
<1>1. 1 <= h /\ h <= w /\ w < v /\ v <= g /\ g <= Len(file)
  BY FrameHull
<1>2. PICK ind : ind = file[h].ind
  OBVIOUS
<1>3. ind \in Nat
  <2>1. 1 <= h /\ h <= Len(file)
    BY <1>1, FileLen
  <2> QED
    BY <2>1, <1>2, LineInd
<1>4. 1 <= h /\ h <= g /\ g <= Len(file)
  BY <1>1
<1>5. \E r : \E c, n \in Int :
             /\ CarbonNew(Replacement(z, m, lines, TRUE, ind), jsx, c, z, r, n)
             /\ Piece(file, h, g, r)
  <2> HIDE <1>1, <1>2
  <2> QED
    BY <1>3, <1>4, ReplacementIs
<1>6. PICK new : new = Replacement(z, m, lines, TRUE, ind)
  OBVIOUS
<1>7. PICK r : \E c, n \in Int : CarbonNew(new, jsx, c, z, r, n) /\ Piece(file, h, g, r)
  BY <1>5, <1>6
<1>8. PICK c, n \in Int : CarbonNew(new, jsx, c, z, r, n) /\ Piece(file, h, g, r)
  BY <1>7
<1>9. PICK t : t = file'
  OBVIOUS
<1>10. IsSplice(file, t, h, g, new)
  BY <1>2, <1>6, <1>9 DEF IsSplice
<1>11. PICK k, a, b, y \in Int :
             /\ Swap(file, t, h, g, new, k, a, b, y, z) /\ Tight(new, k, a, b, y, c)
             /\ Replaced(file, t, h, g, new, k)
  <2> HIDE <1>1, <1>2, <1>5, <1>6, <1>7, <1>9
  <2> QED
    BY <1>4, <1>8, <1>10, CarbonSwap
<1>12. Swap(file, t, h, g, new, k, a, b, y, z)
  BY <1>11
<1>13. Frame(file, z, h, w, v, g, TRUE)
  BY <1>01
<1> HIDE <1>1, <1>2, <1>5, <1>6, <1>7, <1>10
<1>14. File(t) /\ Nested(t)
  <2> HIDE <1>9, <1>11, <1>8
  <2> QED
    BY <1>12, <1>13, SwapNested
<1>15. ASSUME NEW y1, NEW o, y1 # z, Whole(o, jsx, file, y1)
       PROVE  Whole(o, jsx, t, y1)
  <2> HIDE <1>9, <1>11, <1>8
  <2> QED
    BY <1>12, <1>13, <1>15, SwapOthers
<1>16. CarbonLines(jsx, t, h - 1 + c, z, n)
  <2>1. CarbonNew(new, jsx, c, z, r, n) /\ Replaced(file, t, h, g, new, k) /\ File(t)
    BY <1>8, <1>11, <1>14
  <2> HIDE <1>9, <1>11, <1>8
  <2> QED
    BY <1>4, <2>1, CarbonPlaced
<1>17. TRUE => file[w].role \notin {"original", "variant"}
  BY DEF Outer
<1>18. (jsx => c = 2) /\ (~jsx => c = 1)
  BY <1>8 DEF CarbonNew
<1>19. DOMAIN t \subseteq Int
  BY <1>14, FileIs
<1>20. PICK C \in Int : C = h - 1 + c
  OBVIOUS
<1>21. ASSUME NEW i \in Int, i \in Own(t, z)
       PROVE  i <= C + 3 /\ (jsx => C - 1 <= i) /\ (~jsx => C <= i)
  <2>1. /\ h <= i /\ i <= h - 1 + k /\ new[i - (h - 1)].role \in Scaffold
        /\ i - (h - 1) <= y \/ y + (b - a) < i - (h - 1)
    <3> HIDE <1>9, <1>11, <1>8, <1>20, <1>18
    <3> QED
      BY <1>12, <1>13, <1>17, <1>21, SwapOwn
  <2>2. PICK j \in Int : j = i - (h - 1)
    OBVIOUS
  <2>3. j \in 1..k /\ (j <= y \/ y + (b - a) < j) /\ new[j].role \in Scaffold
    BY <2>1, <2>2
  <2>4. j <= c + 3
    BY <2>3, <1>11 DEF Tight
  <2>5. i <= C + 3
    BY <2>2, <2>4, <1>20
  <2>6. h <= i
    BY <2>1
  <2>7. jsx => C - 1 <= i
    BY <2>6, <1>18, <1>20
  <2>8. ~jsx => C <= i
    BY <2>6, <1>18, <1>20
  <2> QED
    BY <2>5, <2>7, <2>8
<1>22. \A i \in Own(t, z) : i <= C + 3 /\ (jsx => C - 1 <= i) /\ (~jsx => C <= i)
  <2>1. Own(t, z) \subseteq Int
    BY <1>19 DEF Own
  <2> QED
    BY <2>1, <1>21
<1>23. CarbonLines(jsx, t, C, z, n)
  BY <1>16, <1>20
<1>24. Stands("carbonize", jsx, t, z)
  <2>1. File(t)
    BY <1>14
  <2> HIDE <1>9, <1>11, <1>8, <1>20, <1>18
  <2> QED
    BY <1>22, <1>23, <2>1, CarbonBegun
<1> QED
  BY <1>9, <1>14, <1>15, <1>24
-----------------------------------------------------------------------------
(* What Carbonize finds.                                                   *)

LEMMA LineRole ==
    ASSUME NEW s, NEW k \in Int, File(s), k \in DOMAIN s
    PROVE  /\ s[k].role = "carbonize-start" => s[k].tag = "mark"
           /\ s[k].role = "variant" => s[k].tag = "div"
           /\ s[k].role \in Scaffold => s[k].id \in Sessions
<1>1. LineOK(s[k])
  BY FileIs
<1> QED
  BY <1>1 DEF LineOK

LEMMA CarbonFound ==
    ASSUME NEW z, NEW c \in Int, NEW h \in Int, NEW w \in Int, NEW v \in Int,
           File(file), jsx \in BOOLEAN, CarbonAt(jsx, file, z, c, w, v), jsx => h = w, ~jsx => h = c
    PROVE  /\ First(At("carbonize-start", z)) = c
           /\ First({i \in DOMAIN file : i > c /\ file[i].role = "variant"}) = c + 3
<1>1. /\ Frame(file, z, h, w, v, v, jsx) /\ Elem(file, w, v)
      /\ h >= 1 /\ h <= c /\ c + 3 < v /\ v <= Len(file) /\ Len(file) \in Nat
      /\ (jsx => w = c - 1) /\ (~jsx => w = c + 3)
      /\ jsx => \A k \in w..(c + 2) : Depth(file, k) = Depth(file, w)
  BY CarbonIs
<1>2. DOMAIN file = 1..Len(file)
  BY FileIs
<1>3. /\ file[c].role = "carbonize-start" /\ file[c].id = z /\ c \in DOMAIN file
      /\ file[c + 2].role = "carbonize-end"
      /\ file[c + 3].role = "variant" /\ c + 3 \in DOMAIN file
      /\ file[c + 1].tag \in {"style", "blank"}
      /\ \A k \in Own(file, z) : k <= c + 3
      /\ jsx => file[w].role = "carbonize"
  BY DEF CarbonAt, Is
<1>4. c + 1 \in DOMAIN file /\ c + 2 \in DOMAIN file
  BY <1>1, <1>2
<1>5. file[c + 1].role # "carbonize-start" /\ file[c + 1].role # "variant"
  <2>1. PICK k \in Int : k = c + 1
    OBVIOUS
  <2>2. k \in DOMAIN file
    BY <2>1, <1>4
  <2>3. /\ file[k].role = "carbonize-start" => file[k].tag = "mark"
        /\ file[k].role = "variant" => file[k].tag = "div"
        /\ file[k].role \in Scaffold => file[k].id \in Sessions
    <3> HIDE <2>1, <1>1, <1>2, <1>3, <1>4
    <3> QED
      BY <2>2, LineRole
  <2>4. file[k].tag \in {"style", "blank"}
    BY <2>1, <1>3
  <2>5. file[k].role # "carbonize-start" /\ file[k].role # "variant"
    BY <2>3, <2>4
  <2> QED
    BY <2>1, <2>5
<1>6. ASSUME NEW k \in Int, k \in At("carbonize-start", z) PROVE k = c
  <2>1. k \in Own(file, z) /\ file[k].role = "carbonize-start"
    BY <1>6 DEF At, Own, Scaffold
  <2>2. k <= c + 3
    BY <2>1, <1>3
  <2>3. h <= k
    <3>1. /\ Elem(file, w, v) /\ 1 <= h /\ h <= w /\ w < v /\ v <= v /\ v <= Len(file)
          /\ \A i \in Own(file, z) : i \in Int /\ h <= i /\ i <= v
      <4>1. Frame(file, z, h, w, v, v, jsx)
        BY <1>1
      <4> HIDE <1>1, <1>2, <1>3, <1>4, <1>5, <2>1, <2>2
      <4> QED
        BY <4>1, FrameHull
    <3> QED
      BY <2>1, <3>1
  <2>4. k = w \/ c <= k
    <3>1. CASE jsx
      BY <3>1, <1>1, <2>3
    <3>2. CASE ~jsx
      BY <3>2, <2>3
    <3> QED
      BY <3>1, <3>2
  <2>5. k \in {c, c + 1, c + 2, c + 3} \/ (jsx /\ k = w)
    <3>1. CASE c <= k
      BY <3>1, <2>2
    <3>2. CASE ~(c <= k)
      <4>1. k = w
        BY <3>2, <2>4
      <4>2. jsx
        <5>1. ~jsx => w = c + 3
          BY <1>1
        <5> QED
          BY <3>2, <4>1, <5>1
      <4> QED
        BY <4>1, <4>2
    <3> QED
      BY <3>1, <3>2
  <2>6. k # c + 1 /\ k # c + 2 /\ k # c + 3
    BY <2>1, <1>3, <1>5
  <2>7. ~(jsx /\ k = w)
    BY <2>1, <1>3
  <2> QED
    BY <2>5, <2>6, <2>7
<1>7. At("carbonize-start", z) = {c}
  <2>1. c \in At("carbonize-start", z)
    BY <1>3 DEF At
  <2>2. At("carbonize-start", z) \subseteq Int
    BY <1>2 DEF At
  <2> QED
    BY <1>6, <2>1, <2>2
<1>8. First({c}) = c
  <2>1. 1 <= c
    BY <1>1
  <2>2. First({c}) = c /\ Final({c}) = c
    <3> HIDE <1>1, <1>2, <1>3, <1>4, <1>5, <1>6, <1>7
    <3> QED
      BY <2>1, OnlyOne
  <2> QED
    BY <2>2
<1> DEFINE S == {i \in DOMAIN file : i > c /\ file[i].role = "variant"}
<1>9. PICK p \in Int : p = c + 3
  OBVIOUS
<1>10. p \in S
  BY <1>3, <1>9
<1>11. S \subseteq Nat /\ \A i \in S : i > c /\ file[i].role = "variant"
  BY <1>2
<1> HIDE DEF S
<1>12. IF S = {} THEN First(S) = 0 ELSE First(S) \in S /\ \A i \in S : First(S) <= i
  <2>1. S \subseteq Nat
    BY <1>11
  <2> QED
    BY <2>1, FirstIs
<1>13. First(S) \in S /\ First(S) <= p
  BY <1>10, <1>12
<1>18. First(S) \in Int
  <2>1. S \subseteq Nat
    BY <1>11
  <2>2. First(S) \in S
    BY <1>13
  <2>3. First(S) \in Nat
    BY <2>1, <2>2, Zenon
  <2> HIDE <2>1, <2>2
  <2> QED
    BY <2>3
<1>14. PICK f \in Int : f = First(S)
  BY <1>18
<1>15. f > c /\ f <= p /\ file[f].role = "variant"
  BY <1>11, <1>13, <1>14
<1>16. f # c + 1 /\ f # c + 2
  BY <1>15, <1>3, <1>5
<1>17. f = c + 3
  BY <1>9, <1>15, <1>16
<1> QED
  BY <1>7, <1>8, <1>14, <1>17 DEF S

LEMMA SubPiece ==
    ASSUME NEW s, NEW h \in Int, NEW g \in Int, NEW p \in Int, NEW q \in Int, File(s),
           Elem(s, p, q), s[p].role \in {"original", "variant"}, h <= p, q <= g
    PROVE  Piece(s, h, g, SubSeq(s, p + 1, q - 1))
<1>1. Len(s) \in Nat /\ DOMAIN s = 1..Len(s)
  BY FileIs
<1>2. 1 <= p /\ p < q /\ q <= Len(s)
  BY <1>1 DEF Elem
<1>3. PICK i \in Int, j \in Int : i = p + 1 /\ j = q - 1
  OBVIOUS
<1>4. 1 <= i /\ i <= j + 1 /\ j <= Len(s)
  BY <1>1, <1>2, <1>3
<1>5. /\ File(SubSeq(s, i, j)) /\ Len(SubSeq(s, i, j)) = j + 1 - i
      /\ \A k \in 1..(j + 1 - i) : SubSeq(s, i, j)[k] = s[i - 1 + k]
  <2> HIDE <1>1, <1>2, <1>3
  <2> QED
    BY <1>4, Part
<1>6. PICK r : r = SubSeq(s, i, j)
  OBVIOUS
<1>7. PICK u \in Int : u = 0
  OBVIOUS
<1>8. File(r) /\ Len(r) = j - p /\ \A k \in 1..(j - p) : r[k] = s[p + k]
  <2>1. j + 1 - i = j - p
    BY <1>3
  <2>2. File(r) /\ Len(r) = j - p
    BY <1>5, <1>6, <2>1
  <2>3. ASSUME NEW k \in Int, k \in 1..(j - p) PROVE r[k] = s[p + k]
    <3>1. k \in 1..(j + 1 - i) /\ i - 1 + k = p + k
      BY <2>3, <1>3
    <3>2. r[k] = s[i - 1 + k]
      BY <3>1, <1>5, <1>6
    <3> QED
      BY <3>1, <3>2
  <2> QED
    BY <2>2, <2>3
<1>9. p <= j /\ j < q
  BY <1>2, <1>3
<1> HIDE <1>3, <1>5, <1>6
<1>10. ASSUME NEW k \in Int, k \in (p + 1)..j PROVE Like(s[k], r[k - p + u])
  <2>1. PICK m \in Int : m = k - p
    OBVIOUS
  <2>2. m \in 1..(j - p) /\ p + m = k /\ k - p + u = m
    BY <2>1, <1>7, <1>10
  <2>3. r[m] = s[p + m]
    BY <2>2, <1>8
  <2>4. Like(s[k], r[m])
    BY <2>2, <2>3, LikeItself
  <2> QED
    BY <2>2, <2>4
<1>11. Taken(s, r, p, j, u)
  <2>1. 0 <= u /\ u + (j - p) <= Len(r) /\ File(r)
    BY <1>7, <1>8
  <2>2. \A k \in (p + 1)..j : Like(s[k], r[k - p + u])
    BY <1>10
  <2>3. ASSUME NEW k \in Int, k \in 1..Len(r), k <= u \/ u + (j - p) < k PROVE FALSE
    BY <2>3, <1>7, <1>8
  <2>4. \A k \in 1..Len(r) : k <= u \/ u + (j - p) < k => r[k].tag = "blank"
    <3>1. Len(r) \in Int
      BY <1>8
    <3> QED
      BY <2>3, <3>1
  <2> HIDE <1>7, <1>8
  <2> QED
    BY <2>1, <2>2, <2>4 DEF Taken
<1>12. Excerpt(s, r, p, q, p, j, u)
  <2>1. \A k \in (p + 1)..p : s[k].tag \in {"blank", "style"}
    OBVIOUS
  <2>2. \A k \in (j + 1)..(q - 1) : s[k].tag \in {"blank", "style"}
    BY <1>3
  <2> HIDE <1>7, <1>8
  <2> QED
    BY <1>9, <1>11, <2>1, <2>2 DEF Excerpt
<1>13. Piece(s, h, g, r)
  <2> HIDE <1>7, <1>8
  <2> QED
    BY <1>12 DEF Piece
<1> QED
  BY <1>3, <1>6, <1>13
LEMMA CarbonizeStep ==
    ASSUME NEW z, NEW c \in Int, NEW w \in Int, NEW v \in Int,
           File(file), Nested(file), jsx \in BOOLEAN, CarbonAt(jsx, file, z, c, w, v),
           Carbonize(z)
    PROVE  /\ File(file') /\ Nested(file') /\ Own(file', z) = {}
           /\ \A y, o : y # z /\ Whole(o, jsx, file, y) => Whole(o, jsx, file', y)
<1>01. PICK h \in Int : (jsx => h = w) /\ (~jsx => h = c)
  <2>1. PICK h \in Int : h = IF jsx THEN w ELSE c
    OBVIOUS
  <2> QED
    BY <2>1
<1>02. (jsx => h = w) /\ (~jsx => h = c)
  BY <1>01
<1> USE <1>02
<1>1. /\ Frame(file, z, h, w, v, v, jsx) /\ Elem(file, w, v)
      /\ h >= 1 /\ h <= c /\ c + 3 < v /\ v <= Len(file) /\ Len(file) \in Nat
      /\ (jsx => w = c - 1) /\ (~jsx => w = c + 3)
      /\ jsx => \A k \in w..(c + 2) : Depth(file, k) = Depth(file, w)
  BY CarbonIs
<1>2. /\ First(At("carbonize-start", z)) = c
      /\ First({i \in DOMAIN file : i > c /\ file[i].role = "variant"}) = c + 3
  <2> HIDE <1>1
  <2> QED
    BY CarbonFound
<1>3. /\ file[c + 3].role = "variant" /\ c + 3 \in DOMAIN file /\ file[c + 3].tag = "div"
      /\ jsx => file[w].role = "carbonize"
  BY DEF CarbonAt, Is
<1>4. PICK p \in Int : p = c + 3
  OBVIOUS
<1>5. p \in DOMAIN file /\ file[p].tag = "div" /\ file[p].role = "variant"
  BY <1>3, <1>4
<1>6. Elem(file, p, Closing(file, p))
  <2> HIDE <1>1, <1>2, <1>3, <1>4
  <2> QED
    BY <1>5, ElemOf
<1>7. Closing(file, p) \in Int
  <2>1. DOMAIN file = 1..Len(file)
    BY FileIs
  <2> QED
    BY <2>1, <1>1, <1>6 DEF Elem
<1>8. PICK q \in Int : q = Closing(file, p)
  BY <1>7
<1>9. Elem(file, p, q)
  BY <1>6, <1>8
<1>10. Elem(file, w, v)
  BY <1>1
<1>11. Closing(file, w) = v
  <2> HIDE <1>1, <1>2, <1>3, <1>4, <1>8
  <2> QED
    BY <1>10, ClosingIs
<1>12. h <= p
  BY <1>1, <1>4
<1>13. q <= v
  <2>1. CASE jsx
    <3>1. w < p /\ p < v /\ w \in Nat /\ p \in Nat
      BY <2>1, <1>1, <1>4
    <3>2. q \in Nat /\ v \in Nat
      BY <1>1, <1>7, <1>8, <1>9, FileIs DEF Elem
    <3>3. q < w \/ v < p \/ (p < w /\ v < q) \/ (w < p /\ q < v)
      <4>1. p # w
        BY <3>1
      <4>2. w \in Nat /\ p \in Nat
        BY <3>1
      <4> HIDE <1>1, <1>2, <1>3, <1>4, <1>8, <3>1, <1>5, <1>12
      <4> QED
        BY <3>2, <4>1, <4>2, <1>9, <1>10, Laminar
    <3>4. p < q
      BY <1>9 DEF Elem
    <3> QED
      BY <3>1, <3>3, <3>4
  <2>2. CASE ~jsx
    <3>1. p = w
      BY <2>2, <1>1, <1>4
    <3>2. q = v
      BY <3>1, <1>8, <1>11
    <3> QED
      BY <3>2
  <2> QED
    BY <2>1, <2>2
<1>14. Piece(file, h, v, SubSeq(file, p + 1, q - 1))
  <2>1. file[p].role \in {"original", "variant"}
    BY <1>5
  <2> HIDE <1>1, <1>2, <1>3, <1>4, <1>5, <1>8, <1>11
  <2> QED
    BY <1>9, <1>12, <1>13, <2>1, SubPiece
<1>15. PICK r : r = SubSeq(file, p + 1, q - 1)
  OBVIOUS
<1>16. file' = Splice(file, h, v, Reindent(r, file[h].ind))
  <2>1. c # 0
    BY <1>1
  <2> DEFINE first == IF jsx THEN c - 1 ELSE c
             last == Closing(file, c + 3)
  <2>2. file' = Splice(file, first, IF jsx THEN Closing(file, first) ELSE last,
                               Reindent(SubSeq(file, c + 3 + 1, last - 1), file[first].ind))
    BY <1>2, <2>1 DEF Carbonize
  <2>3. last = q
    BY <1>4, <1>8
  <2>4. first = h
    BY <1>1
  <2>5. (IF jsx THEN Closing(file, first) ELSE last) = v
    <3>1. CASE jsx
      BY <3>1, <1>1, <1>11
    <3>2. CASE ~jsx
      BY <3>2, <1>1, <1>11
    <3> QED
      BY <3>1, <3>2
  <2>6. SubSeq(file, c + 3 + 1, last - 1) = r
    BY <2>3, <1>4, <1>15
  <2> HIDE DEF first, last
  <2> QED
    BY <2>2, <2>4, <2>5, <2>6
<1>17. jsx => file[w].role \notin {"original", "variant"}
  BY <1>3
<1>18. Frame(file, z, h, w, v, v, jsx) /\ Piece(file, h, v, r)
  BY <1>1, <1>14, <1>15
<1> QED
  <2> HIDE <1>1, <1>2, <1>3, <1>4, <1>5, <1>8, <1>11, <1>15, <1>14
  <2> QED
    BY <1>16, <1>17, <1>18, PieceReplaces
LEMMA DiscardStep ==
    ASSUME NEW z, NEW h \in Int, NEW w \in Int, NEW v \in Int, NEW g \in Int,
           File(file), Nested(file), jsx \in BOOLEAN, Block(jsx, file, z, h, w, v, g), Discard(z)
    PROVE  /\ File(file') /\ Nested(file') /\ Own(file', z) = {}
           /\ \A y, o : y # z /\ Whole(o, jsx, file, y) => Whole(o, jsx, file', y)
<1>1. /\ Frame(file, z, h, w, v, g, TRUE) /\ HasRole(file, w, "wrapper")
      /\ 1 <= h /\ h <= w /\ w < v /\ v <= g /\ g <= Len(file)
  BY BlockFrame
<1>2. \E L : \E b0, b1 \in Int : Seen(z, h, g, b0, b1, L) /\ Rim(file, w, v, b0, b1)
  <2> HIDE <1>1
  <2> QED
    BY BlockSeen
<1>31. PICK L : \E b0, b1 \in Int : Seen(z, h, g, b0, b1, L) /\ Rim(file, w, v, b0, b1)
  BY <1>2
<1>3. PICK b0, b1 \in Int : Seen(z, h, g, b0, b1, L) /\ Rim(file, w, v, b0, b1)
  BY <1>31
<1>4. Frame(file, z, h, w, v, g, TRUE) /\ HasRole(file, w, "wrapper")
  BY <1>1
<1>5. Piece(file, h, g, ExtractOriginal([start |-> b0, end |-> b1]))
  <2> HIDE <1>1, <1>2
  <2> QED
    BY <1>3, <1>4, OriginalPiece
<1>6. /\ FindMarkerBlock(z) = [start |-> b0, end |-> b1]
      /\ ExpandReplaceRange([start |-> b0, end |-> b1], z) = [start |-> h, end |-> g]
  BY <1>3 DEF Seen, Found
<1>7. PICK r : r = ExtractOriginal([start |-> b0, end |-> b1])
  OBVIOUS
<1>8. file' = Splice(file, h, g, Reindent(r, file[h].ind))
  <2>1. PICK b : b = [start |-> b0, end |-> b1]
    OBVIOUS
  <2>2. PICK e : e = [start |-> h, end |-> g]
    OBVIOUS
  <2>3. FindMarkerBlock(z) = b /\ ExpandReplaceRange(b, z) = e /\ ExtractOriginal(b) = r
    BY <1>6, <1>7, <2>1, <2>2
  <2>4. file' = Splice(file, e.start, e.end, Reindent(r, file[e.start].ind))
    <3> HIDE <2>1, <2>2, <1>6, <1>7
    <3> QED
      BY <2>3 DEF Discard
  <2>5. e.start = h /\ e.end = g
    BY <2>2
  <2> HIDE <2>2
  <2> QED
    BY <2>4, <2>5
<1>9. TRUE => file[w].role \notin {"original", "variant"}
  BY <1>1 DEF HasRole
<1>10. Frame(file, z, h, w, v, g, TRUE) /\ Piece(file, h, g, r)
  BY <1>1, <1>5, <1>7
<1>11. PICK strict \in BOOLEAN : strict = TRUE
  OBVIOUS
<1>12. /\ Frame(file, z, h, w, v, g, strict) /\ Piece(file, h, g, r)
       /\ strict => file[w].role \notin {"original", "variant"}
  BY <1>9, <1>10, <1>11
<1> QED
  <2> HIDE <1>1, <1>2, <1>31, <1>3, <1>5, <1>6, <1>7, <1>9, <1>10, <1>11
  <2> QED
    BY <1>8, <1>12, PieceReplaces

LEMMA AcceptStep ==
    ASSUME NEW z, NEW n, NEW h \in Int, NEW w \in Int, NEW v \in Int, NEW g \in Int,
           z \in Sessions, n \in Nat,
           File(file), Nested(file), jsx \in BOOLEAN, Block(jsx, file, z, h, w, v, g), Accept(z, n)
    PROVE  /\ File(file') /\ Nested(file')
           /\ \/ Own(file', z) = {}
              \/ /\ outcome' = [outcome EXCEPT ![z] = "carbonize"]
                 /\ Stands("carbonize", jsx, file', z)
           /\ \A y, o : y # z /\ Whole(o, jsx, file, y) => Whole(o, jsx, file', y)
<1>1. /\ Frame(file, z, h, w, v, g, TRUE) /\ HasRole(file, w, "wrapper")
      /\ 1 <= h /\ h <= w /\ w < v /\ v <= g /\ g <= Len(file)
  BY BlockFrame
<1>2. \E L : \E b0, b1 \in Int : Seen(z, h, g, b0, b1, L) /\ Rim(file, w, v, b0, b1)
  <2> HIDE <1>1
  <2> QED
    BY BlockSeen
<1>31. PICK L : \E b0, b1 \in Int : Seen(z, h, g, b0, b1, L) /\ Rim(file, w, v, b0, b1)
  BY <1>2
<1>3. PICK b0, b1 \in Int : Seen(z, h, g, b0, b1, L) /\ Rim(file, w, v, b0, b1)
  BY <1>31
<1>4. Frame(file, z, h, w, v, g, TRUE) /\ HasRole(file, w, "wrapper")
  BY <1>1
<1>5. Piece(file, h, g, ExtractVariant([start |-> b0, end |-> b1], n))
  <2> HIDE <1>1, <1>2
  <2> QED
    BY <1>3, <1>4, VariantPiece
<1>6. /\ FindMarkerBlock(z) = [start |-> b0, end |-> b1]
      /\ ExpandReplaceRange([start |-> b0, end |-> b1], z) = [start |-> h, end |-> g]
  BY <1>3 DEF Seen, Found
<1>7. PICK r : r = ExtractVariant([start |-> b0, end |-> b1], n)
  OBVIOUS
<1>71. PICK css \in BOOLEAN : css = HasCss([start |-> b0, end |-> b1], z)
  BY DEF HasCss
<1>8. /\ file' = Splice(file, h, g, Replacement(z, n, r, css, file[h].ind))
      /\ css => outcome' = [outcome EXCEPT ![z] = "carbonize"]
  <2>1. PICK b : b = [start |-> b0, end |-> b1]
    OBVIOUS
  <2>2. PICK e : e = [start |-> h, end |-> g]
    OBVIOUS
  <2>3. /\ FindMarkerBlock(z) = b /\ ExpandReplaceRange(b, z) = e /\ ExtractVariant(b, n) = r
        /\ HasCss(b, z) = css
    BY <1>6, <1>7, <1>71, <2>1, <2>2
  <2>4. /\ file' = Splice(file, e.start, e.end, Replacement(z, n, r, css, file[e.start].ind))
        /\ css => outcome' = [outcome EXCEPT ![z] = "carbonize"]
    <3> HIDE <2>1, <2>2, <1>6, <1>7, <1>71
    <3> QED
      BY <2>3 DEF Accept
  <2>5. e.start = h /\ e.end = g
    BY <2>2
  <2> HIDE <2>2
  <2> QED
    BY <2>4, <2>5
<1>9. file[w].role \notin {"original", "variant"}
  BY <1>1 DEF HasRole
<1>10. Frame(file, z, h, w, v, g, TRUE) /\ Piece(file, h, g, r)
  BY <1>1, <1>5, <1>7
<1>11. CASE ~css
  <2>1. Replacement(z, n, r, css, file[h].ind) = Reindent(r, file[h].ind)
    BY <1>11 DEF Replacement
  <2>2. file' = Splice(file, h, g, Reindent(r, file[h].ind))
    BY <2>1, <1>8
  <2>5. PICK strict \in BOOLEAN : strict = TRUE
    OBVIOUS
  <2>3. /\ Frame(file, z, h, w, v, g, strict) /\ Piece(file, h, g, r)
        /\ strict => file[w].role \notin {"original", "variant"}
    BY <1>9, <1>10, <2>5
  <2>4. /\ File(file') /\ Nested(file') /\ Own(file', z) = {}
        /\ \A y, o : y # z /\ Whole(o, jsx, file, y) => Whole(o, jsx, file', y)
    <3> HIDE <1>1, <1>2, <1>31, <1>3, <1>5, <1>6, <1>7, <1>71, <1>8, <1>9, <1>10, <1>11, <2>1, <2>5
    <3> QED
      BY <2>2, <2>3, PieceReplaces
  <2> QED
    BY <2>4
<1>12. CASE css
  <2>1. css = TRUE
    BY <1>12
  <2>2. file' = Splice(file, h, g, Replacement(z, n, r, TRUE, file[h].ind))
    BY <2>1, <1>8
  <2>3. Carbonized(file, file', z, n, h, g, r) /\ Choice(z, n)
    BY <2>2 DEF Carbonized, Choice
  <2>4. /\ File(file') /\ Nested(file') /\ Stands("carbonize", jsx, file', z)
        /\ \A y, o : y # z /\ Whole(o, jsx, file, y) => Whole(o, jsx, file', y)
    <3>1. Outer(file, w)
      BY <1>9 DEF Outer
    <3>2. StrictFrame(file, z, h, w, v, g) /\ Piece(file, h, g, r)
      BY <1>10 DEF StrictFrame
    <3> HIDE <1>1, <1>2, <1>31, <1>3, <1>5, <1>6, <1>7, <1>71, <1>8, <1>9, <1>12, <2>1, <2>2
    <3> QED
      BY <2>3, <3>1, <3>2, CarbonReplaces
  <2> QED
    BY <2>4, <1>8, <1>12
<1> QED
  BY <1>11, <1>12
-----------------------------------------------------------------------------
(* The steps.                                                            *)

\* The lines after i, up to j, are those from y to q, or those are kept before or
\* after what is put there.
Beside(i, j, a, b, y, q) ==
    /\ a = i /\ b = j
    /\ (i = y - 1 /\ j = q) \/ (i = y - 1 /\ j = y - 1) \/ (i = q /\ j = q)

LEMMA ForeignSituated ==
    ASSUME NEW s, NEW z, NEW h \in Int, NEW w \in Int, NEW v \in Int, NEW g \in Int,
           NEW strict, NEW i \in Int, NEW j \in Int, NEW a \in Int, NEW b \in Int,
           NEW y \in Int, NEW q \in Int, File(s), Frame(s, z, h, w, v, g, strict),
           Foreign(s, z, y, q), Balanced(s, y - 1, q), Beside(i, j, a, b, y, q),
           1 <= y, y <= q
    PROVE  Situated(s, i, j, a, b, z, h, w, v, g, strict)
<1>1. /\ 1 <= h /\ h <= w /\ w < v /\ v <= g
  BY FrameHull
<1>2. h \in Nat /\ w \in Nat /\ v \in Nat /\ g \in Nat /\ y \in Nat /\ q \in Nat
  BY <1>1
<1>3. \/ q < h
      \/ g < y
      \/ y < h /\ g < q
      \/ w < y /\ q < v /\ (strict => Depth(s, y - 1) > Depth(s, w))
  <2> HIDE <1>1
  <2> QED
    BY <1>2, ForeignApart
<1>4. Depth(s, q) = Depth(s, y - 1)
  BY DEF Balanced
<1>5. /\ a = i /\ b = j
      /\ (i = y - 1 /\ j = q) \/ (i = y - 1 /\ j = y - 1) \/ (i = q /\ j = q)
  BY DEF Beside
<1>6. CASE q < h
  BY <1>5, <1>6 DEF Situated
<1>7. CASE g < y
  BY <1>5, <1>7 DEF Situated
<1>8. CASE y < h /\ g < q
  <2>1. CASE i = y - 1 /\ j = q
    BY <1>5, <1>8, <2>1 DEF Situated
  <2>2. CASE i = y - 1 /\ j = y - 1
    BY <1>8, <2>2 DEF Situated
  <2>3. CASE i = q /\ j = q
    BY <1>8, <2>3 DEF Situated
  <2> QED
    BY <1>5, <2>1, <2>2, <2>3
<1>9. CASE w < y /\ q < v /\ (strict => Depth(s, y - 1) > Depth(s, w))
  <2>1. w <= i /\ j < v
    BY <1>5, <1>9
  <2>2. i = y - 1 \/ i = q
    BY <1>5
  <2>3. Depth(s, i) = Depth(s, y - 1)
    BY <1>4, <2>2
  <2>4. strict => Depth(s, i) > Depth(s, w)
    BY <1>9, <2>3
  <2> QED
    BY <2>1, <2>4 DEF Situated
<1> QED
  BY <1>3, <1>6, <1>7, <1>8, <1>9

LEMMA ForeignWhole ==
    ASSUME NEW s, NEW t, NEW i \in Int, NEW j \in Int, NEW e \in Int, NEW a \in Int,
           NEW b \in Int, NEW f \in Int, NEW z0, NEW z, NEW o, NEW x, NEW y \in Int,
           NEW q \in Int, File(s), File(t), i \in Nat, j \in Nat, a \in Nat, b \in Nat,
           Edit(s, t, i, j, e, a, b, f, z0), z # z0, x \in BOOLEAN, Whole(o, x, s, z),
           Foreign(s, z, y, q), Balanced(s, y - 1, q), Beside(i, j, a, b, y, q),
           1 <= y, y <= q
    PROVE  Whole(o, x, t, z)
<1>1. CASE Own(s, z) = {}
  <2>1. Own(t, z) = {}
    BY <1>1, EditNone
  <2> QED
    BY <2>1 DEF Whole
<1>2. CASE Stands(o, x, s, z)
  <2>1. PICK h, w, v, g \in Int, strict \in BOOLEAN : Standing(o, x, s, z, h, w, v, g, strict)
    BY <1>2 DEF Stands
  <2>2. Frame(s, z, h, w, v, g, strict)
    BY <2>1, StandingIs
  <2>3. Situated(s, i, j, a, b, z, h, w, v, g, strict)
    <3> HIDE <1>2, <2>1
    <3> QED
      BY <2>2, ForeignSituated
  <2>4. Own(t, z) = {} \/ Stands(o, x, t, z)
    <3> HIDE <1>2, <2>2
    <3> QED
      BY <2>1, <2>3, OthersStand
  <2> QED
    BY <2>4 DEF Whole
<1> QED
  BY <1>1, <1>2 DEF Whole

\* What a step of session z does to the file.
Acts(z, o) ==
    /\ File(file') /\ Nested(file') /\ Whole(o, jsx, file', z)
    /\ \A y, p : y # z /\ Whole(p, jsx, file, y) => Whole(p, jsx, file', y)

LEMMA Wraps ==
    ASSUME NEW z, NEW y \in Int, File(file), Nested(file), jsx \in BOOLEAN, z \in Sessions,
           y \in DOMAIN file, Wrap(z, y), Own(file, z) = {}
    PROVE  Acts(z, "open")
<1>1. PICK e : e = Closing(file, y)
  OBVIOUS
<1>2. PICK ind : ind = file[y].ind
  OBVIOUS
<1>3. PICK t : t = file'
  OBVIOUS
<1>4. /\ Pickable(file, y)
      /\ t = Splice(file, y, e, Wrapper(z, OriginalLines(z, SubSeq(file, y, e), ind), ind))
  BY <1>1, <1>2, <1>3 DEF Wrap
<1>5. /\ e \in Int /\ 1 <= y /\ y <= e /\ e <= Len(file) /\ Balanced(file, y - 1, e)
      /\ \A z1 : Foreign(file, z1, y, e)
  BY <1>1, <1>4, PickIs
<1>6. PICK j \in Int : j = e
  BY <1>5
<1>7. PICK i \in Int : i = y - 1
  OBVIOUS
<1>8. ind \in Nat
  <2>1. 1 <= y /\ y <= Len(file)
    BY <1>5, FileLen
  <2> QED
    BY <2>1, <1>2, LineInd
<1>9. /\ 0 <= i /\ i <= j /\ j <= Len(file) /\ Balanced(file, i, j) /\ i \in Nat /\ j \in Nat
      /\ 1 <= y /\ y <= j /\ Balanced(file, y - 1, j)
  BY <1>5, <1>6, <1>7
<1>10. t = Splice(file, i + 1, j, Wrapper(z, OriginalLines(z, SubSeq(file, i + 1, j), ind), ind))
  <2>1. i + 1 = y
    BY <1>7
  <2> QED
    BY <1>4, <1>6, <2>1
<1>11. /\ File(t) /\ Stands("open", jsx, t, z)
       /\ Edit(file, t, i, j, 8, i, j, 4, z)
  <2> HIDE <1>1, <1>2, <1>3, <1>4, <1>5, <1>6, <1>7
  <2> QED
    BY <1>8, <1>9, <1>10, WrapStep
<1>12. PICK m, f \in Int : m = 8 /\ f = 4
  OBVIOUS
<1>13. Edit(file, t, i, j, m, i, j, f, z) /\ File(t)
  BY <1>11, <1>12
<1>14. Nested(t)
  <2> HIDE <1>1, <1>2, <1>3, <1>4, <1>5, <1>6, <1>7, <1>10, <1>11, <1>12
  <2> QED
    BY <1>9, <1>13, EditNested
<1>15. ASSUME NEW y1, NEW p, y1 # z, Whole(p, jsx, file, y1)
       PROVE  Whole(p, jsx, t, y1)
  <2>1. Foreign(file, y1, y, j)
    BY <1>5, <1>6
  <2>2. Beside(i, j, i, j, y, j)
    BY <1>7 DEF Beside
  <2> HIDE <1>1, <1>2, <1>3, <1>4, <1>5, <1>6, <1>7, <1>10, <1>11, <1>12
  <2> QED
    BY <1>9, <1>13, <1>15, <2>1, <2>2, ForeignWhole
<1> QED
  BY <1>3, <1>11, <1>14, <1>15 DEF Acts, Whole

LEMMA Inserts ==
    ASSUME NEW z, NEW y \in Int, NEW position, File(file), Nested(file), jsx \in BOOLEAN,
           z \in Sessions, y \in DOMAIN file, Insert(z, y, position), Own(file, z) = {}
    PROVE  Acts(z, "open")
<1>1. PICK e : e = Closing(file, y)
  OBVIOUS
<1>2. PICK k : k = (IF position = "before" THEN y ELSE e + 1)
  OBVIOUS
<1>3. PICK t : t = file'
  OBVIOUS
<1>4. PICK ind : ind = (IF k <= Len(file) THEN file[k].ind ELSE file[y].ind)
  OBVIOUS
<1>5. /\ Pickable(file, y)
      /\ t = Splice(file, k, k - 1, Wrapper(z, <<Mark("insert", z, ind + 2)>>, ind))
  BY <1>1, <1>2, <1>3, <1>4 DEF Insert
<1>6. /\ e \in Int /\ 1 <= y /\ y <= e /\ e <= Len(file) /\ Balanced(file, y - 1, e)
      /\ \A z1 : Foreign(file, z1, y, e)
  BY <1>1, <1>5, PickIs
<1>7. PICK j \in Int : j = e
  BY <1>6
<1>8. k \in Int /\ (k = y \/ k = j + 1)
  BY <1>2, <1>6, <1>7
<1>9. PICK i \in Int : i = k - 1
  BY <1>8
<1>10. /\ 0 <= i /\ i <= Len(file) /\ i \in Nat /\ k = i + 1
       /\ 1 <= y /\ y <= j /\ j <= Len(file) /\ Balanced(file, y - 1, j)
       /\ i = y - 1 \/ i = j
  <2>1. Len(file) \in Nat
    BY FileLen
  <2> QED
    BY <1>6, <1>7, <1>8, <1>9, <2>1
<1>11. ind \in Nat
  <2>1. Len(file) \in Nat
    BY FileLen
  <2>2. CASE k <= Len(file)
    <3>1. PICK k1 \in Int : k1 = k
      BY <1>8
    <3>2. 1 <= k1 /\ k1 <= Len(file)
      BY <1>10, <2>2, <3>1
    <3>3. file[k1].ind \in Nat
      BY <3>2, LineInd
    <3> QED
      BY <3>1, <3>3, <2>2, <1>4
  <2>3. CASE ~(k <= Len(file))
    <3>1. 1 <= y /\ y <= Len(file)
      BY <1>10, <2>1
    <3>2. file[y].ind \in Nat
      BY <3>1, LineInd
    <3> QED
      BY <3>2, <2>3, <1>4
  <2> QED
    BY <2>2, <2>3
<1>12. t = Splice(file, i + 1, i, Wrapper(z, <<Mark("insert", z, ind + 2)>>, ind))
  <2>1. k = i + 1 /\ k - 1 = i
    BY <1>10
  <2> QED
    BY <1>5, <2>1
<1>13. /\ File(t) /\ Stands("open", jsx, t, z)
       /\ Edit(file, t, i, i, 5, i, i, 0, z)
  <2>1. 0 <= i /\ i <= Len(file)
    BY <1>10
  <2> HIDE <1>1, <1>2, <1>3, <1>4, <1>5, <1>6, <1>7, <1>8, <1>9, <1>10
  <2> QED
    BY <2>1, <1>11, <1>12, InsertStep
<1>14. PICK m, f \in Int : m = 5 /\ f = 0
  OBVIOUS
<1>15. Edit(file, t, i, i, m, i, i, f, z) /\ File(t) /\ i \in Nat
  BY <1>10, <1>13, <1>14
<1>16. Nested(t)
  <2> HIDE <1>1, <1>2, <1>3, <1>4, <1>5, <1>6, <1>7, <1>8, <1>9, <1>10, <1>12, <1>13, <1>14
  <2> QED
    BY <1>15, EditNested
<1>17. ASSUME NEW y1, NEW p, y1 # z, Whole(p, jsx, file, y1)
       PROVE  Whole(p, jsx, t, y1)
  <2>1. Foreign(file, y1, y, j)
    BY <1>6, <1>7
  <2>2. Beside(i, i, i, i, y, j)
    BY <1>10 DEF Beside
  <2>3. 1 <= y /\ y <= j /\ Balanced(file, y - 1, j)
    BY <1>10
  <2> HIDE <1>1, <1>2, <1>3, <1>4, <1>5, <1>6, <1>7, <1>8, <1>9, <1>10, <1>12, <1>13, <1>14
  <2> QED
    BY <1>15, <1>17, <2>1, <2>2, <2>3, ForeignWhole
<1> QED
  BY <1>3, <1>13, <1>16, <1>17 DEF Acts, Whole

LEMMA Writes ==
    ASSUME NEW z, NEW css, File(file), Nested(file), jsx \in BOOLEAN, z \in Sessions,
           css \in BOOLEAN, WriteVariants(z, css), Whole("open", jsx, file, z)
    PROVE  Acts(z, "open")
<1>1. PICK k : k = First(At("insert", z))
  OBVIOUS
<1>2. PICK ind : ind = file[k].ind
  OBVIOUS
<1>3. PICK t : t = file'
  OBVIOUS
<1>4. PICK new : new = (IF css THEN <<Css(z, ind)>> ELSE <<>>) \o AllVariants(z, ind)
  OBVIOUS
<1>5. k # 0 /\ t = Splice(file, k + 1, k, new)
  BY <1>1, <1>2, <1>3, <1>4 DEF WriteVariants
<1>6. k \in At("insert", z) /\ At("insert", z) \subseteq 1..Len(file)
  <2>1. At("insert", z) \subseteq 1..Len(file) /\ Len(file) \in Nat
    BY FileIs DEF At
  <2>2. At("insert", z) \subseteq Nat
    BY <2>1
  <2> QED
    BY <2>1, <2>2, <1>1, <1>5, FirstIs
<1>7. PICK i \in Int : i = k
  BY <1>6, FileLen
<1>8. /\ 1 <= i /\ i <= Len(file) /\ Is(file, i, "insert", z) /\ i \in Nat /\ 0 <= i
  BY <1>6, <1>7, FileLen DEF At, Is
<1>9. ind \in Nat
  BY <1>2, <1>7, <1>8, LineInd
<1>10. \E x0 \in Int : NewVariants(new, z, x0)
  BY <1>4, <1>9, NewVariantsAre
<1>11. PICK x0 \in Int : NewVariants(new, z, x0)
  BY <1>10
<1>12. PICK m \in Int : m = Len(new)
  <2>1. Len(new) \in Int
    BY <1>11, FileLen DEF NewVariants
  <2> QED
    BY <2>1
<1>13. t = Splice(file, i + 1, i, new)
  BY <1>5, <1>7
<1>14. Len(new) = m
  BY <1>12
<1>15. /\ File(t) /\ Len(t) = Len(file) + m
       /\ \A r \in 1..i : t[r] = file[r]
       /\ \A r \in (i + 1)..Len(file) : t[r + m] = file[r]
       /\ Grown(t, z, i, i + m) /\ 0 <= m
  <2>1. /\ File(Splice(file, i + 1, i, new)) /\ Len(Splice(file, i + 1, i, new)) = Len(file) + m
        /\ \A r \in 1..i : Splice(file, i + 1, i, new)[r] = file[r]
        /\ \A r \in (i + 1)..Len(file) : Splice(file, i + 1, i, new)[r + m] = file[r]
        /\ Grown(Splice(file, i + 1, i, new), z, i, i + m) /\ 0 <= m
    <3> HIDE <1>1, <1>2, <1>3, <1>4, <1>5, <1>6, <1>7, <1>12, <1>13
    <3> QED
      BY <1>8, <1>11, <1>14, WrittenIs
  <2> QED
    BY <2>1, <1>13
<1>16. Grows(file, t, z, i, m)
  BY <1>15 DEF Grows
<1>17. PICK h, w, v, g \in Int : Block(jsx, file, z, h, w, v, g)
  <2>1. Own(file, z) # {}
    BY <1>8 DEF Is, Own, Scaffold
  <2>2. PICK h, w, v, g \in Int, strict \in BOOLEAN :
          Standing("open", jsx, file, z, h, w, v, g, strict)
    BY <2>1 DEF Whole, Stands
  <2>3. Block(jsx, file, z, h, w, v, g)
    BY <2>2 DEF Standing, Block
  <2> QED
    BY <2>3
<1>18. File(t)
  BY <1>15
<1>19. Is(file, i, "insert", z)
  BY <1>8
<1>20. Stands("open", jsx, t, z) /\ Edit(file, t, i, i, m, i, i, 0, z)
  <2> HIDE <1>1, <1>2, <1>3, <1>4, <1>5, <1>6, <1>7, <1>8, <1>10, <1>12, <1>13, <1>14, <1>15
  <2> QED
    BY <1>16, <1>17, <1>18, <1>19, WriteStep
<1>21. PICK f \in Int : f = 0
  OBVIOUS
<1>22. Edit(file, t, i, i, m, i, i, f, z) /\ i \in Nat
  BY <1>8, <1>20, <1>21
<1>23. Nested(t)
  <2> HIDE <1>1, <1>2, <1>3, <1>4, <1>5, <1>6, <1>7, <1>8, <1>10, <1>12, <1>13, <1>14, <1>15, <1>21
  <2> QED
    BY <1>18, <1>22, EditNested
<1>24. i \in Own(file, z) /\ file[i].tag = "mark"
  <2>1. i \in DOMAIN file /\ file[i].role = "insert" /\ file[i].id = z
    BY <1>19 DEF Is
  <2>2. LineOK(file[i])
    BY <1>8, FileIs
  <2> QED
    BY <2>1, <2>2 DEF Own, Scaffold, LineOK
<1>25. ASSUME NEW y1, NEW p, y1 # z, Whole(p, jsx, file, y1)
       PROVE  Whole(p, jsx, t, y1)
  <2>1. i \notin Own(file, y1)
    <3> HIDE <1>1, <1>2, <1>3, <1>4, <1>5, <1>6, <1>7, <1>10, <1>12, <1>13, <1>14, <1>15
    <3> QED
      BY <1>24, <1>25, OwnOfOne
  <2>2. Foreign(file, y1, i, i)
    BY <2>1, <1>24 DEF Foreign, Own
  <2>3. Beside(i, i, i, i, i, i)
    BY DEF Beside
  <2>4. Balanced(file, i - 1, i)
    <3>1. Step(file[i]) = 0
      BY <1>24 DEF Step
    <3>2. 1 <= i
      BY <1>8
    <3> HIDE <1>1, <1>2, <1>3, <1>4, <1>5, <1>6, <1>7, <1>8, <1>10, <1>12, <1>13, <1>14, <1>15
    <3> QED
      BY <3>1, <3>2, BalancedOne
  <2>5. 1 <= i /\ i <= i
    BY <1>8
  <2> HIDE <1>1, <1>2, <1>3, <1>4, <1>5, <1>6, <1>7, <1>8, <1>10, <1>12, <1>13, <1>14, <1>15, <1>20, <1>21, <1>24
  <2> QED
    BY <1>18, <1>22, <1>25, <2>2, <2>3, <2>4, <2>5, ForeignWhole
<1> QED
  BY <1>3, <1>18, <1>20, <1>23, <1>25 DEF Acts, Whole

LEMMA StandsOpen ==
    ASSUME NEW z, Stands("open", jsx, file, z)
    PROVE  \E h, w, v, g \in Int : Block(jsx, file, z, h, w, v, g)
<1>1. PICK h, w, v, g \in Int, strict \in BOOLEAN :
        Standing("open", jsx, file, z, h, w, v, g, strict)
  BY DEF Stands
<1>2. Block(jsx, file, z, h, w, v, g)
  BY <1>1 DEF Standing, Block
<1> QED
  BY <1>2

LEMMA NoBlock ==
    ASSUME NEW z, File(file), Own(file, z) = {}
    PROVE  FindMarkerBlock(z) = None /\ First(At("carbonize-start", z)) = 0
<1>1. At("start", z) = {} /\ At("carbonize-start", z) = {}
  BY DEF At, Own, Scaffold
<1>2. First(At("start", z)) = 0 /\ First(At("carbonize-start", z)) = 0
  BY <1>1 DEF First
<1> QED
  BY <1>2 DEF FindMarkerBlock

LEMMA Discards ==
    ASSUME NEW z, File(file), Nested(file), jsx \in BOOLEAN, z \in Sessions,
           Discard(z), Whole("open", jsx, file, z)
    PROVE  Acts(z, "discarded")
<1>1. FindMarkerBlock(z) # None
  BY DEF Discard
<1>2. Own(file, z) # {}
  BY <1>1, NoBlock
<1>3. Stands("open", jsx, file, z)
  BY <1>2 DEF Whole
<1>4. PICK h, w, v, g \in Int : Block(jsx, file, z, h, w, v, g)
  BY <1>3, StandsOpen
<1>5. /\ File(file') /\ Nested(file') /\ Own(file', z) = {}
      /\ \A y, o : y # z /\ Whole(o, jsx, file, y) => Whole(o, jsx, file', y)
  <2> HIDE <1>1, <1>2, <1>3
  <2> QED
    BY <1>4, DiscardStep
<1> QED
  BY <1>5 DEF Acts, Whole

LEMMA Accepts1 ==
    ASSUME NEW z, NEW n, File(file), Nested(file), jsx \in BOOLEAN, z \in Sessions, n \in Nat,
           Accept(z, n), Whole("open", jsx, file, z)
    PROVE  \E o \in {"carbonize", "accepted"} :
             Acts(z, o) /\ outcome' = [outcome EXCEPT ![z] = o]
<1>1. FindMarkerBlock(z) # None
  BY DEF Accept
<1>2. Own(file, z) # {}
  BY <1>1, NoBlock
<1>3. Stands("open", jsx, file, z)
  BY <1>2 DEF Whole
<1>4. PICK h, w, v, g \in Int : Block(jsx, file, z, h, w, v, g)
  BY <1>3, StandsOpen
<1>5. /\ File(file') /\ Nested(file')
      /\ \/ Own(file', z) = {}
         \/ /\ outcome' = [outcome EXCEPT ![z] = "carbonize"]
            /\ Stands("carbonize", jsx, file', z)
      /\ \A y, o : y # z /\ Whole(o, jsx, file, y) => Whole(o, jsx, file', y)
  <2> HIDE <1>1, <1>2, <1>3
  <2> QED
    BY <1>4, AcceptStep
<1>6. PICK o \in {"carbonize", "accepted"} : outcome' = [outcome EXCEPT ![z] = o]
  BY DEF Accept
<1>7. CASE Own(file', z) = {}
  <2>1. Acts(z, o)
    BY <1>5, <1>7 DEF Acts, Whole
  <2> QED
    BY <1>6, <2>1
<1>8. CASE /\ outcome' = [outcome EXCEPT ![z] = "carbonize"]
           /\ Stands("carbonize", jsx, file', z)
  <2>1. Acts(z, "carbonize")
    BY <1>5, <1>8 DEF Acts, Whole
  <2> QED
    BY <1>8, <2>1
<1> QED
  BY <1>5, <1>7, <1>8

LEMMA Carbonizes ==
    ASSUME NEW z, File(file), Nested(file), jsx \in BOOLEAN, z \in Sessions,
           Carbonize(z), Whole("carbonize", jsx, file, z)
    PROVE  Acts(z, "accepted")
<1>1. CASE Own(file, z) = {}
  <2>1. First(At("carbonize-start", z)) = 0
    BY <1>1, NoBlock
  <2>2. file' = file
    BY <2>1 DEF Carbonize
  <2> QED
    BY <1>1, <2>2 DEF Acts, Whole
<1>2. CASE Stands("carbonize", jsx, file, z)
  <2>1. PICK h, w, v, g \in Int, strict \in BOOLEAN :
          Standing("carbonize", jsx, file, z, h, w, v, g, strict)
    BY <1>2 DEF Stands
  <2>2. PICK c \in Int : CarbonAt(jsx, file, z, c, w, v) /\ (jsx => h = w) /\ (~jsx => h = c)
    BY <2>1 DEF Standing
  <2>3. /\ File(file') /\ Nested(file') /\ Own(file', z) = {}
        /\ \A y, o : y # z /\ Whole(o, jsx, file, y) => Whole(o, jsx, file', y)
    <3> HIDE <1>2, <2>1
    <3> QED
      BY <2>2, CarbonizeStep
  <2> QED
    BY <2>3 DEF Acts, Whole
<1> QED
  BY <1>1, <1>2 DEF Whole
-----------------------------------------------------------------------------

Outcomes == {"none", "open", "carbonize", "accepted", "discarded"}
Modes == {"none", "wrap", "insert"}

Recorded ==
    /\ outcome \in [Sessions -> Outcomes] /\ mode \in [Sessions -> Modes]
    /\ staged \subseteq Editable

Structured ==
    /\ File(file) /\ Nested(file) /\ jsx \in BOOLEAN
    /\ \A z \in Sessions : Whole(outcome[z], jsx, file, z)

IInv == Recorded /\ Structured

\* A step of session z.
Session(z) ==
    \/ \E i \in DOMAIN file : Wrap(z, i)
    \/ \E i \in DOMAIN file, position \in {"before", "after"} : Insert(z, i, position)
    \/ \E css \in BOOLEAN : WriteVariants(z, css)
    \/ \E n \in 1..Count : Accept(z, n)
    \/ Discard(z)
    \/ Carbonize(z)

LEMMA NothingOf ==
    ASSUME NEW z, NEW o, Whole(o, jsx, file, z), o \notin {"open", "carbonize"}
    PROVE  Own(file, z) = {}
  BY DEF Whole, Stands, Standing

LEMMA SessionActs ==
    ASSUME NEW z, IInv, z \in Sessions, Session(z)
    PROVE  /\ jsx' = jsx
           /\ \E o \in Outcomes : Acts(z, o) /\ outcome' = [outcome EXCEPT ![z] = o]
<1>1. /\ File(file) /\ Nested(file) /\ jsx \in BOOLEAN
      /\ Whole(outcome[z], jsx, file, z) /\ outcome \in [Sessions -> Outcomes]
  BY DEF IInv, Recorded, Structured
<1>2. DOMAIN file \subseteq Int
  BY <1>1, FileIs
<1>3. ASSUME outcome[z] = "none" PROVE Own(file, z) = {}
  BY <1>1, <1>3, NothingOf
<1>4. ASSUME NEW i \in DOMAIN file, Wrap(z, i)
      PROVE  jsx' = jsx /\ Acts(z, "open") /\ outcome' = [outcome EXCEPT ![z] = "open"]
  <2>1. /\ jsx' = jsx /\ outcome' = [outcome EXCEPT ![z] = "open"] /\ outcome[z] = "none"
    BY <1>4 DEF Wrap
  <2>2. PICK y \in Int : y = i
    BY <1>2
  <2>3. Own(file, z) = {} /\ Wrap(z, y) /\ y \in DOMAIN file
    BY <1>3, <1>4, <2>1, <2>2
  <2>4. Acts(z, "open")
    <3> HIDE <1>2, <1>3, <1>4, <2>1, <2>2
    <3> QED
      BY <1>1, <2>3, Wraps
  <2> QED
    BY <2>1, <2>4
<1>5. ASSUME NEW i \in DOMAIN file, NEW position, Insert(z, i, position)
      PROVE  jsx' = jsx /\ Acts(z, "open") /\ outcome' = [outcome EXCEPT ![z] = "open"]
  <2>1. /\ jsx' = jsx /\ outcome' = [outcome EXCEPT ![z] = "open"] /\ outcome[z] = "none"
    BY <1>5 DEF Insert
  <2>2. PICK y \in Int : y = i
    BY <1>2
  <2>3. Own(file, z) = {} /\ Insert(z, y, position) /\ y \in DOMAIN file
    BY <1>3, <1>5, <2>1, <2>2
  <2>4. Acts(z, "open")
    <3> HIDE <1>2, <1>3, <1>5, <2>1, <2>2
    <3> QED
      BY <1>1, <2>3, Inserts
  <2> QED
    BY <2>1, <2>4
<1>6. ASSUME NEW css \in BOOLEAN, WriteVariants(z, css)
      PROVE  jsx' = jsx /\ Acts(z, "open") /\ outcome' = [outcome EXCEPT ![z] = "open"]
  <2>1. jsx' = jsx /\ outcome' = outcome /\ outcome[z] = "open"
    BY <1>6 DEF WriteVariants
  <2>2. outcome' = [outcome EXCEPT ![z] = "open"]
    BY <1>1, <2>1
  <2>3. Whole("open", jsx, file, z)
    BY <1>1, <2>1
  <2>4. Acts(z, "open")
    <3> HIDE <1>2, <1>3, <2>1, <2>2
    <3> QED
      BY <1>1, <1>6, <2>3, Writes
  <2> QED
    BY <2>1, <2>2, <2>4
<1>7. ASSUME NEW n \in 1..Count, Accept(z, n)
      PROVE  /\ jsx' = jsx
             /\ \E o \in {"carbonize", "accepted"} :
                  Acts(z, o) /\ outcome' = [outcome EXCEPT ![z] = o]
  <2>1. jsx' = jsx /\ outcome[z] = "open"
    BY <1>7 DEF Accept
  <2>2. n \in Nat
    BY MarkersAssumption
  <2>3. Whole("open", jsx, file, z)
    BY <1>1, <2>1
  <2>4. \E o \in {"carbonize", "accepted"} :
          Acts(z, o) /\ outcome' = [outcome EXCEPT ![z] = o]
    <3> HIDE <1>2, <1>3, <2>1
    <3> QED
      BY <1>1, <1>7, <2>2, <2>3, Accepts1
  <2> QED
    BY <2>1, <2>4
<1>8. ASSUME Discard(z)
      PROVE  /\ jsx' = jsx /\ Acts(z, "discarded")
             /\ outcome' = [outcome EXCEPT ![z] = "discarded"]
  <2>1. /\ jsx' = jsx /\ outcome[z] = "open"
        /\ outcome' = [outcome EXCEPT ![z] = "discarded"]
    BY <1>8 DEF Discard
  <2>2. Whole("open", jsx, file, z)
    BY <1>1, <2>1
  <2>3. Acts(z, "discarded")
    <3> HIDE <1>2, <1>3, <2>1
    <3> QED
      BY <1>1, <1>8, <2>2, Discards
  <2> QED
    BY <2>1, <2>3
<1>9. ASSUME Carbonize(z)
      PROVE  /\ jsx' = jsx /\ Acts(z, "accepted")
             /\ outcome' = [outcome EXCEPT ![z] = "accepted"]
  <2>1. /\ jsx' = jsx /\ outcome[z] = "carbonize"
        /\ outcome' = [outcome EXCEPT ![z] = "accepted"]
    BY <1>9 DEF Carbonize
  <2>2. Whole("carbonize", jsx, file, z)
    BY <1>1, <2>1
  <2>3. Acts(z, "accepted")
    <3> HIDE <1>2, <1>3, <2>1
    <3> QED
      BY <1>1, <1>9, <2>2, Carbonizes
  <2> QED
    BY <2>1, <2>3
<1> HIDE <1>1, <1>2, <1>3
<1> QED
  BY <1>4, <1>5, <1>6, <1>7, <1>8, <1>9 DEF Session, Outcomes

LEMMA InitHolds ==
    ASSUME Init
    PROVE  IInv
<1>1. Len(Source) \in Nat /\ Source = [i \in 1..Len(Source) |-> Source[i]] /\ Nested(Source)
  BY MarkersAssumption
<1>2. ASSUME NEW k \in 1..Len(Source)
      PROVE  Source[k] \in LINES /\ Source[k].role \in {"user", "any"}
  <2>1. k \in DOMAIN Source
    BY <1>1, <1>2
  <2>2. PICK l : l = Source[k]
    OBVIOUS
  <2>3. UserLine(l) /\ l.id \in Ids
    BY <2>1, <2>2, MarkersAssumption DEF Ids
  <2>4. /\ l.tag \in {"div", "/div", "text", "blank"} /\ l.ind \in Nat
        /\ l = [tag |-> l.tag, role |-> IF l.tag \in {"div", "text"} THEN "user" ELSE "any",
                id |-> l.id, n |-> 0, ind |-> l.ind, new |-> FALSE]
    BY <2>3 DEF UserLine
  <2>5. PICK tag, id, ind : tag = l.tag /\ id = l.id /\ ind = l.ind
    OBVIOUS
  <2>6. PICK role : role = (IF tag \in {"div", "text"} THEN "user" ELSE "any")
    OBVIOUS
  <2>7. l = [tag |-> tag, role |-> role, id |-> id, n |-> 0, ind |-> ind, new |-> FALSE]
    BY <2>4, <2>5, <2>6
  <2>8. /\ tag \in {"div", "/div", "text", "blank"} /\ ind \in Nat /\ id \in Ids
        /\ role \in {"user", "any"}
    BY <2>3, <2>4, <2>5, <2>6
  <2>9. /\ \/ tag = "div" /\ role = "user"
           \/ tag = "text" /\ role = "user"
           \/ tag \in {"/div", "blank"} /\ role = "any"
    BY <2>6, <2>8
  <2>10. l.tag = tag /\ l.role = role
    BY <2>7
  <2>11. LineOK(l)
    <3> HIDE <2>4, <2>5, <2>6, <2>7
    <3> QED
      BY <2>8, <2>9, <2>10 DEF LineOK, Scaffold
  <2>12. l \in [tag : Tags, role : Roles, id : Ids, n : Nat, ind : Nat, new : BOOLEAN]
    <3>1. tag \in Tags /\ role \in Roles /\ id \in Ids /\ ind \in Nat
      BY <2>8 DEF Tags, Roles
    <3> HIDE <2>4, <2>5, <2>6
    <3> QED
      BY <2>7, <3>1
  <2>13. l \in LINES
    BY <2>11, <2>12 DEF LINES
  <2> QED
    BY <2>2, <2>8, <2>10, <2>13
<1>3. Source \in Seq(LINES)
  <2>1. Source \in [1..Len(Source) -> LINES]
    BY <1>1, <1>2
  <2> QED
    BY <1>1, <2>1
<1>4. ASSUME NEW z \in Sessions PROVE Own(Source, z) = {}
  <2>1. \A k \in DOMAIN Source : Source[k].role \notin Scaffold
    BY <1>1, <1>2 DEF Scaffold
  <2> QED
    BY <2>1 DEF Own
<1>5. file = Source /\ jsx \in BOOLEAN /\ outcome = [z \in Sessions |-> "none"]
      /\ mode = [z \in Sessions |-> "none"] /\ staged = {}
  BY DEF Init
<1>6. Structured
  BY <1>1, <1>3, <1>4, <1>5 DEF Structured, Whole, File
<1>7. Recorded
  BY <1>5 DEF Recorded, Outcomes, Modes
<1> QED
  BY <1>6, <1>7 DEF IInv

LEMMA ActsKeep ==
    ASSUME NEW z, NEW o, Structured, z \in Sessions, o \in Outcomes, jsx' = jsx,
           outcome \in [Sessions -> Outcomes], Acts(z, o), outcome' = [outcome EXCEPT ![z] = o]
    PROVE  Structured' /\ outcome' \in [Sessions -> Outcomes]
<1>1. outcome' \in [Sessions -> Outcomes] /\ outcome'[z] = o
  OBVIOUS
<1>2. ASSUME NEW y \in Sessions PROVE Whole(outcome'[y], jsx, file', y)
  <2>1. CASE y = z
    BY <1>1, <2>1 DEF Acts
  <2>2. CASE y # z
    <3>1. outcome'[y] = outcome[y]
      BY <2>2
    <3>2. Whole(outcome[y], jsx, file, y)
      BY DEF Structured
    <3> QED
      BY <2>2, <3>1, <3>2 DEF Acts
  <2> QED
    BY <2>1, <2>2
<1>3. File(file') /\ Nested(file') /\ jsx \in BOOLEAN
  BY DEF Acts, Structured
<1> QED
  BY <1>1, <1>2, <1>3 DEF Structured

LEMMA NextKeeps ==
    ASSUME IInv, [Next]_vars
    PROVE  IInv'
<1>1. outcome \in [Sessions -> Outcomes] /\ mode \in [Sessions -> Modes] /\ staged \subseteq Editable
      /\ Structured
  BY DEF IInv, Recorded
<1>2. ASSUME NEW z \in Sessions, Session(z) PROVE IInv'
  <2>1. /\ jsx' = jsx
        /\ \E o \in Outcomes : Acts(z, o) /\ outcome' = [outcome EXCEPT ![z] = o]
    BY <1>2, SessionActs
  <2>2. PICK o \in Outcomes : Acts(z, o) /\ outcome' = [outcome EXCEPT ![z] = o]
    BY <2>1
  <2>3. Structured' /\ outcome' \in [Sessions -> Outcomes]
    BY <1>1, <2>1, <2>2, ActsKeep
  <2>4. staged' \subseteq staged
    BY <1>2 DEF Session, Wrap, Insert, WriteVariants, Accept, Discard, Carbonize
  <2>5. mode' \in [Sessions -> Modes]
    <3>1. \/ mode' = mode \/ mode' = [mode EXCEPT ![z] = "wrap"]
          \/ mode' = [mode EXCEPT ![z] = "insert"]
      BY <1>2 DEF Session, Wrap, Insert, WriteVariants, Accept, Discard, Carbonize
    <3> QED
      BY <1>1, <3>1 DEF Modes
  <2> QED
    BY <1>1, <2>3, <2>4, <2>5 DEF IInv, Recorded
<1>3. ASSUME NEW t \in Editable, Stage(t) PROVE IInv'
  <2>1. UNCHANGED <<file, jsx, outcome, mode>> /\ staged' = staged \union {t}
    BY <1>3 DEF Stage
  <2> QED
    BY <1>1, <2>1 DEF IInv, Recorded, Structured, Whole, Stands
<1>4. ASSUME DropEdits PROVE IInv'
  <2>1. UNCHANGED <<file, jsx, outcome, mode>> /\ staged' = {}
    BY <1>4 DEF DropEdits
  <2> QED
    BY <1>1, <2>1 DEF IInv, Recorded, Structured, Whole, Stands
<1>5. ASSUME UNCHANGED vars PROVE IInv'
  BY <1>1, <1>5 DEF IInv, Recorded, Structured, Whole, Stands, vars
<1> QED
  BY <1>2, <1>3, <1>4, <1>5 DEF Next, Session

LEMMA HoldsType ==
    ASSUME IInv
    PROVE  TypeOK
<1>1. /\ outcome \in [Sessions -> Outcomes] /\ mode \in [Sessions -> Modes]
      /\ staged \subseteq Editable /\ File(file) /\ Nested(file)
      /\ \A z \in Sessions : Whole(outcome[z], jsx, file, z)
  BY DEF IInv, Recorded, Structured
<1>2. ASSUME NEW i \in DOMAIN file, file[i].role \in Scaffold
      PROVE  outcome[file[i].id] \in {"open", "carbonize"}
  <2>1. LineOK(file[i])
    BY <1>1, FileIs
  <2>2. PICK z : z = file[i].id
    OBVIOUS
  <2>3. z \in Sessions /\ i \in Own(file, z)
    BY <1>2, <2>1, <2>2 DEF LineOK, Own
  <2>4. Own(file, z) # {} /\ Whole(outcome[z], jsx, file, z)
    BY <1>1, <2>3
  <2>5. outcome[z] \in {"open", "carbonize"}
    BY <2>4, NothingOf
  <2> QED
    BY <2>2, <2>5
<1> QED
  BY <1>1, <1>2 DEF TypeOK, Outcomes, Modes

\* Whatever the sessions do, and however their blocks lie in each other, the
\* file parses and a session that is over has left nothing of its block in it.
THEOREM MarkersTypeCorrect == Spec => []TypeOK
<1>1. Init => IInv
  BY InitHolds
<1>2. IInv /\ [Next]_vars => IInv'
  BY NextKeeps
<1>3. IInv => TypeOK
  BY HoldsType
<1> QED
  BY <1>1, <1>2, <1>3, PTL DEF Spec
=============================================================================
