--------------------------- MODULE ImportFixerProofs ---------------------------
(***************************************************************************)
(* Proofs about deal fix-imports, for every project and every text its     *)
(* files may start from, with any number of runs and kills between files.  *)
(***************************************************************************)
EXTENDS ImportFixer, FiniteSetTheorems, WellFoundedInduction, TLAPS

ImportLine == [k : {"import"}, pkg : Package, wild : BOOLEAN, items : SUBSET Name, code : BOOLEAN]

LEMMA ImportLines ==
  /\ \A l \in Line : l.k = "import" => l \in ImportLine
  /\ ImportLine \subseteq Line
  BY DEF Line, ImportLine, PackageLine, Other

-----------------------------------------------------------------------------
(* A set of positions in a sequence has a first and a last one.            *)
LEMMA LeastOf ==
  ASSUME NEW S \in SUBSET Nat, S # {}
  PROVE  Min(S) \in S
  <1> DEFINE R == {ij \in Nat \X Nat : ij[1] < ij[2]}
  <1>1. IsWellFoundedOn(R, Nat)
    BY NatLessThanWellFounded, Zenon DEF OpToRel
  <1>2. PICK m \in S : \A y \in S : ~(<<y, m>> \in R)
    <2> HIDE DEF R
    <2> QED
      BY <1>1, WFMin
  <1>3. ASSUME NEW y \in S
        PROVE  m <= y
    <2>1. m \in Nat /\ y \in Nat
      OBVIOUS
    <2>2. ~(y < m)
      BY <1>2, <2>1
    <2> QED
      BY <2>1, <2>2
  <1> QED
    BY <1>3 DEF Min

LEMMA GreatestOf ==
  ASSUME NEW S \in SUBSET Nat, S # {}, NEW K \in Nat, \A s \in S : s <= K
  PROVE  Max(S) \in S
  <1> DEFINE T == {K - s : s \in S}
  <1>1. T \subseteq Nat /\ T # {}
    <2>1. \A s \in S : K - s \in Nat
      OBVIOUS
    <2> QED
      BY <2>1
  <1> DEFINE R == {ij \in Nat \X Nat : ij[1] < ij[2]}
  <1>2. IsWellFoundedOn(R, Nat)
    BY NatLessThanWellFounded, Zenon DEF OpToRel
  <1>3. PICK m \in T : \A y \in T : ~(<<y, m>> \in R)
    <2> HIDE DEF R, T
    <2> QED
      BY <1>1, <1>2, WFMin
  <1>4. PICK g \in S : m = K - g
    OBVIOUS
  <1>5. ASSUME NEW s \in S
        PROVE  g >= s
    <2>1. K - s \in T /\ K - s \in Nat /\ m \in Nat
      BY <1>1
    <2>2. ~(K - s < m)
      BY <1>3, <2>1
    <2> QED
      BY <1>4, <2>1, <2>2
  <1> QED
    BY <1>5 DEF Max

(* The first line that looks like a selective import of a package.         *)
LEMMA MergeLineIsFirst ==
  ASSUME NEW lines \in Seq(Line), NEW pkg
  PROVE  /\ MergeLine(lines, pkg) \in 0..Len(lines)
         /\ MergeLine(lines, pkg) # 0 =>
               /\ LooksLikeImport(lines[MergeLine(lines, pkg)])
               /\ lines[MergeLine(lines, pkg)].pkg = pkg
         /\ MergeLine(lines, pkg) = 0 =>
               \A i \in DOMAIN lines : ~(LooksLikeImport(lines[i]) /\ lines[i].pkg = pkg)
  <1> DEFINE I == {i \in 1..Len(lines) : LooksLikeImport(lines[i]) /\ lines[i].pkg = pkg}
  <1>1. MergeLine(lines, pkg) = IF I # {} THEN Min(I) ELSE 0
    BY Zenon DEF MergeLine, SelectInSeq
  <1>2. I # {} => Min(I) \in I
    <2>1. I \in SUBSET Nat
      OBVIOUS
    <2> HIDE DEF I
    <2> QED
      BY <2>1, LeastOf
  <1>3. CASE I # {}
    <2>1. MergeLine(lines, pkg) \in I
      BY <1>1, <1>2, <1>3
    <2>2. MergeLine(lines, pkg) # 0
      BY <2>1
    <2> QED
      BY <2>1, <2>2
  <1>4. CASE I = {}
    <2>1. MergeLine(lines, pkg) = 0
      BY <1>1, <1>4
    <2> QED
      BY <2>1, <1>4
  <1> QED
    BY <1>3, <1>4

LEMMA InsertIndexIsPosition ==
  ASSUME NEW lines \in Seq(Line)
  PROVE  InsertIndex(lines) \in 0..Len(lines)
  <1> DEFINE I == {i \in 1..Len(lines) : lines[i].k \in {"import", "open"}}
             J == {i \in 1..Len(lines) : lines[i].k = "package"}
             last == IF I # {} THEN Max(I) ELSE 0
             first == IF J # {} THEN Min(J) ELSE 0
  <1>1. InsertIndex(lines) = IF last > 0 THEN last ELSE first
    BY Zenon DEF InsertIndex, SelectLastInSeq, SelectInSeq
  <1>2. I \in SUBSET Nat /\ J \in SUBSET Nat /\ \A i \in I : i <= Len(lines)
    OBVIOUS
  <1>3. Len(lines) \in Nat
    OBVIOUS
  <1>4. I # {} => Max(I) \in 1..Len(lines)
    <2> HIDE DEF I
    <2>1. I # {} => Max(I) \in I
      BY <1>2, <1>3, GreatestOf
    <2> QED
      BY <2>1 DEF I
  <1>5. J # {} => Min(J) \in 1..Len(lines)
    <2> HIDE DEF J
    <2>1. J # {} => Min(J) \in J
      BY <1>2, LeastOf
    <2> QED
      BY <2>1 DEF J
  <1> HIDE DEF I, J
  <1> QED
    BY <1>1, <1>3, <1>4, <1>5

(* Lines put between the first ones and the rest of a text.                *)
LEMMA Spliced ==
  ASSUME NEW S, NEW m \in Seq(S), NEW w \in Seq(S), NEW at \in 0..Len(m)
  PROVE  LET r == SubSeq(m, 1, at) \o w \o SubSeq(m, at + 1, Len(m))
         IN  /\ r \in Seq(S)
             /\ Len(r) = Len(m) + Len(w)
             /\ \A i \in 1..Len(r) :
                   r[i] = IF i <= at THEN m[i]
                          ELSE IF i <= at + Len(w) THEN w[i - at]
                          ELSE m[i - Len(w)]
  <1> DEFINE a == SubSeq(m, 1, at)
             b == SubSeq(m, at + 1, Len(m))
             c == a \o w
             r == c \o b
  <1>1. a \in Seq(S) /\ Len(a) = at /\ \A i \in 1..at : a[i] = m[i]
    OBVIOUS
  <1>2. /\ b \in Seq(S) /\ Len(b) = Len(m) - at
        /\ \A i \in 1..(Len(m) - at) : b[i] = m[at + i]
    OBVIOUS
  <1> HIDE DEF a, b
  <1>3. /\ c \in Seq(S) /\ Len(c) = at + Len(w)
        /\ \A i \in 1..(at + Len(w)) : c[i] = IF i <= at THEN m[i] ELSE w[i - at]
    BY <1>1
  <1> HIDE DEF c
  <1>4. r \in Seq(S) /\ Len(r) = Len(m) + Len(w)
    <2>0. c \in Seq(S) /\ b \in Seq(S)
      BY <1>2, <1>3
    <2>1. r \in Seq(S) /\ Len(r) = Len(c) + Len(b)
      BY <2>0
    <2>2. Len(m) \in Nat /\ Len(w) \in Nat
      OBVIOUS
    <2> QED
      BY <1>2, <1>3, <2>1, <2>2
  <1>5. ASSUME NEW i \in 1..Len(r)
        PROVE  r[i] = IF i <= at THEN m[i]
                      ELSE IF i <= at + Len(w) THEN w[i - at]
                      ELSE m[i - Len(w)]
    <2>1. CASE i <= at + Len(w)
      <3>1. r[i] = c[i]
        BY <1>2, <1>3, <2>1
      <3> QED
        BY <1>3, <2>1, <3>1
    <2>2. CASE i > at + Len(w)
      <3>1. r[i] = b[i - (at + Len(w))]
        BY <1>2, <1>3, <1>4, <2>2
      <3>2. i - (at + Len(w)) \in 1..(Len(m) - at)
        BY <1>4, <2>2
      <3>3. r[i] = m[at + (i - (at + Len(w)))]
        BY <1>2, <3>1, <3>2
      <3>4. at + (i - (at + Len(w))) = i - Len(w)
        OBVIOUS
      <3> QED
        BY <2>2, <3>3, <3>4
    <2> QED
      BY <2>1, <2>2
  <1> QED
    BY <1>4, <1>5 DEF r, c, a, b

(* A finite set listed: each member once, and nothing for the empty set.   *)
LEMMA Listed ==
  ASSUME NEW S, IsFiniteSet(S)
  PROVE  /\ SetToSeq(S) \in Seq(S)
         /\ Len(SetToSeq(S)) = Cardinality(S)
         /\ \A i, j \in 1..Len(SetToSeq(S)) : SetToSeq(S)[i] = SetToSeq(S)[j] => i = j
         /\ \A x \in S : \E i \in 1..Len(SetToSeq(S)) : SetToSeq(S)[i] = x
  <1> DEFINE n == Cardinality(S)
  <1>1. n \in Nat /\ ExistsBijection(1..n, S)
    BY FS_CardinalityType
  <1>2. \E f \in [1..n -> S] : IsInjective(f)
    BY <1>1 DEF ExistsBijection, Bijection, Injection, IsInjective
  <1>3. SetToSeq(S) \in [1..n -> S] /\ IsInjective(SetToSeq(S))
    BY <1>2 DEF SetToSeq
  <1> DEFINE s == SetToSeq(S)
  <1> HIDE DEF s, n
  <1>4. s \in Seq(S) /\ Len(s) = n
    BY <1>1, <1>3 DEF s
  <1>5. s \in Injection(1..n, S)
    BY <1>3, Zenon DEF s, Injection, IsInjective
  <1>6. IsFiniteSet(1..n) /\ Cardinality(1..n) = n
    BY <1>1, FS_Interval
  <1>7. s \in Surjection(1..n, S)
    BY <1>5, <1>6, FS_Injection DEF n
  <1> QED
    BY <1>3, <1>4, <1>7 DEF s, n, Surjection, IsInjective
-----------------------------------------------------------------------------
(* The text surgery.                                                       *)
Needs == [pkg : Package, name : Name]

MergedInto(lines, i) == LooksLikeImport(lines[i]) /\ MergeLine(lines, lines[i].pkg) = i

LEMMA NamesAreNames ==
  ASSUME NEW needed \in SUBSET Needs, NEW pkg
  PROVE  NamesFor(needed, pkg) \in SUBSET Name
  BY DEF NamesFor, Needs

(* A merge changes the items of the first import of a package, and adds.   *)
LEMMA Merging ==
  ASSUME NEW lines \in Seq(Line), NEW needed \in SUBSET Needs
  PROVE  LET m == MergeExisting(lines, needed)
         IN  /\ m \in Seq(Line)
             /\ Len(m) = Len(lines)
             /\ \A i \in 1..Len(lines) :
                  /\ ~MergedInto(lines, i) => m[i] = lines[i]
                  /\ MergedInto(lines, i) =>
                        /\ m[i] \in ImportLine
                        /\ m[i].pkg = lines[i].pkg
                        /\ m[i].wild = FALSE
                        /\ m[i].code = lines[i].code
                        /\ m[i].items = lines[i].items \cup NamesFor(needed, lines[i].pkg)
  <1> DEFINE m == MergeExisting(lines, needed)
             New(l) == [l EXCEPT !.items = @ \cup NamesFor(needed, l.pkg)]
  <1>1. m = [i \in 1..Len(lines) |-> IF MergedInto(lines, i) THEN New(lines[i]) ELSE lines[i]]
    BY DEF MergeExisting, MergedInto
  <1>2. ASSUME NEW l \in Line, LooksLikeImport(l)
        PROVE  /\ New(l) \in ImportLine
               /\ New(l).pkg = l.pkg /\ New(l).wild = FALSE /\ New(l).code = l.code
               /\ New(l).items = l.items \cup NamesFor(needed, l.pkg)
    <2>1. l \in ImportLine /\ l.wild = FALSE
      BY <1>2, ImportLines DEF LooksLikeImport, ImportLine
    <2>2. NamesFor(needed, l.pkg) \in SUBSET Name
      BY NamesAreNames
    <2> QED
      BY <2>1, <2>2 DEF ImportLine
  <1> HIDE DEF New
  <1>3. ASSUME NEW i \in 1..Len(lines)
        PROVE  /\ m[i] \in Line
               /\ ~MergedInto(lines, i) => m[i] = lines[i]
               /\ MergedInto(lines, i) => m[i] = New(lines[i])
    <2>1. lines[i] \in Line
      OBVIOUS
    <2>2. MergedInto(lines, i) => New(lines[i]) \in Line
      BY <1>2, <2>1, ImportLines DEF MergedInto
    <2> QED
      BY <1>1, <2>1, <2>2
  <1>4. m \in Seq(Line) /\ Len(m) = Len(lines)
    <2> HIDE DEF m
    <2>1. m \in [1..Len(lines) -> Line]
      BY <1>1, <1>3
    <2>2. Len(lines) \in Nat
      OBVIOUS
    <2> QED
      BY <2>1, <2>2
  <1>5. ASSUME NEW i \in 1..Len(lines), MergedInto(lines, i)
        PROVE  /\ m[i] \in ImportLine
               /\ m[i].pkg = lines[i].pkg /\ m[i].wild = FALSE /\ m[i].code = lines[i].code
               /\ m[i].items = lines[i].items \cup NamesFor(needed, lines[i].pkg)
    <2>1. lines[i] \in Line /\ LooksLikeImport(lines[i])
      BY <1>5 DEF MergedInto
    <2>2. m[i] = New(lines[i])
      BY <1>3, <1>5
    <2> HIDE DEF m
    <2> QED
      BY <1>2, <2>1, <2>2
  <1> HIDE DEF m
  <1> QED
    BY <1>3, <1>4, <1>5 DEF m

Fresh(lines, needed) == {n.pkg : n \in {m \in needed : MergeLine(lines, m.pkg) = 0}}

NewLine(needed, pkg) == Import(pkg, NamesFor(needed, pkg))

LEMMA NewLines ==
  ASSUME NEW lines \in Seq(Line), NEW needed \in SUBSET Needs, IsFiniteSet(needed)
  PROVE  LET L == {NewLine(needed, pkg) : pkg \in Fresh(lines, needed)}
         IN  IsFiniteSet(L) /\ L \subseteq Line
  <1> DEFINE F == Fresh(lines, needed)
             L == {NewLine(needed, pkg) : pkg \in F}
             M == {n \in needed : MergeLine(lines, n.pkg) = 0}
             g == [n \in M |-> NewLine(needed, n.pkg)]
  <1>1. IsFiniteSet(M)
    BY FS_Subset
  <1>2. g \in Surjection(M, L)
    BY DEF Surjection, Fresh
  <1>3. IsFiniteSet(L)
    <2> HIDE DEF M, L, g
    <2> QED
      BY <1>1, <1>2, FS_Surjection
  <1>4. ASSUME NEW pkg \in F
        PROVE  NewLine(needed, pkg) \in Line
    <2>1. pkg \in Package
      BY DEF Fresh, Needs
    <2>2. NamesFor(needed, pkg) \in SUBSET Name
      BY NamesAreNames
    <2>3. NewLine(needed, pkg) \in ImportLine
      BY <2>1, <2>2 DEF NewLine, Import, ImportLine
    <2> QED
      BY <2>3, ImportLines
  <1> QED
    BY <1>3, <1>4

LEMMA Surgery ==
  ASSUME NEW lines \in Seq(Line), NEW needed \in SUBSET Needs, IsFiniteSet(needed)
  PROVE  LET r == ApplyImports(lines, needed)
             m == MergeExisting(lines, needed)
             F == Fresh(lines, needed)
         IN  /\ r \in Seq(Line)
             /\ \A i \in 1..Len(lines) : \E j \in 1..Len(r) : r[j] = m[i]
             /\ \A pkg \in F : \E j \in 1..Len(r) : r[j] = NewLine(needed, pkg)
             /\ \A j \in 1..Len(r) : \/ \E i \in 1..Len(lines) : r[j] = m[i]
                                     \/ \E pkg \in F : r[j] = NewLine(needed, pkg)
             /\ F = {} => r = m
             /\ r = lines => F = {}
             /\ OneLineEach(lines) => OneLineEach(r)
  <1> DEFINE m == MergeExisting(lines, needed)
             F == Fresh(lines, needed)
             L == {NewLine(needed, pkg) : pkg \in F}
             w == SetToSeq(L)
             at == InsertIndex(lines)
             r == SubSeq(m, 1, at) \o w \o SubSeq(m, at + 1, Len(m))
  <1>1. m \in Seq(Line) /\ Len(m) = Len(lines)
    BY Merging
  <1>0. \A i \in 1..Len(lines) :
           m[i] = lines[i] \/ (MergedInto(lines, i) /\ m[i].pkg = lines[i].pkg)
    BY Merging
  <1>2. IsFiniteSet(L) /\ L \subseteq Line
    BY NewLines
  <1>3. at \in 0..Len(m)
    BY <1>1, InsertIndexIsPosition
  <1>4. /\ w \in Seq(L) /\ Len(w) = Cardinality(L)
        /\ \A i, j \in 1..Len(w) : w[i] = w[j] => i = j
        /\ \A x \in L : \E i \in 1..Len(w) : w[i] = x
    <2> HIDE DEF L
    <2> QED
      BY <1>2, Listed
  <1>5. w \in Seq(Line)
    BY <1>2, <1>4
  <1>6. ApplyImports(lines, needed) = r
    BY <1>1, Zenon DEF ApplyImports, Fresh, NewLine
  <1> HIDE DEF r
  <1>7. /\ r \in Seq(Line)
        /\ Len(r) = Len(m) + Len(w)
        /\ \A i \in 1..Len(r) :
              r[i] = IF i <= at THEN m[i]
                     ELSE IF i <= at + Len(w) THEN w[i - at]
                     ELSE m[i - Len(w)]
    <2> HIDE DEF m, w, at
    <2> QED
      BY <1>1, <1>3, <1>5, Spliced DEF r
  <1>8. Len(m) \in Nat /\ Len(w) \in Nat /\ at \in 0..Len(m)
    BY <1>1, <1>3, <1>5
  <1> HIDE DEF m, w, at
  <1>9. ASSUME NEW i \in 1..Len(m)
        PROVE  \E j \in 1..Len(r) : r[j] = m[i]
    <2>1. CASE i <= at
      <3>1. i \in 1..Len(r)
        BY <1>7, <1>8
      <3>2. r[i] = m[i]
        BY <1>7, <2>1, <3>1
      <3> QED
        BY <3>1, <3>2
    <2>2. CASE i > at
      <3>1. i + Len(w) \in 1..Len(r) /\ ~(i + Len(w) <= at) /\ ~(i + Len(w) <= at + Len(w))
        BY <1>7, <1>8, <2>2
      <3>2. r[i + Len(w)] = m[(i + Len(w)) - Len(w)]
        BY <1>7, <3>1
      <3>3. (i + Len(w)) - Len(w) = i
        BY <1>8
      <3> QED
        BY <3>1, <3>2, <3>3
    <2> QED
      BY <1>8, <2>1, <2>2
  <1>10. ASSUME NEW i \in 1..Len(w)
         PROVE  \E j \in 1..Len(r) : r[j] = w[i]
    <2>1. at + i \in 1..Len(r) /\ ~(at + i <= at) /\ at + i <= at + Len(w)
      BY <1>7, <1>8
    <2>2. r[at + i] = w[(at + i) - at]
      BY <1>7, <2>1
    <2>3. (at + i) - at = i
      BY <1>8
    <2> QED
      BY <2>1, <2>2, <2>3
  <1> DEFINE Old(j) == j <= at \/ j > at + Len(w)
             From(j) == IF j <= at THEN j ELSE j - Len(w)
  <1>11. ASSUME NEW j \in 1..Len(r)
         PROVE  /\ Old(j) => From(j) \in 1..Len(m) /\ r[j] = m[From(j)]
                /\ ~Old(j) => j - at \in 1..Len(w) /\ r[j] = w[j - at]
    BY <1>7, <1>8
  <1>12. \A j, k \in 1..Len(r) : Old(j) /\ Old(k) /\ From(j) = From(k) => j = k
    BY <1>7, <1>8
  <1> HIDE DEF Old, From
  <1>13. \A pkg \in F : \E j \in 1..Len(r) : r[j] = NewLine(needed, pkg)
    BY <1>4, <1>10
  <1>14. \A j \in 1..Len(r) : \/ \E i \in 1..Len(lines) : r[j] = m[i]
                              \/ \E pkg \in F : r[j] = NewLine(needed, pkg)
    <2> SUFFICES ASSUME NEW j \in 1..Len(r)
                 PROVE  \/ \E i \in 1..Len(lines) : r[j] = m[i]
                        \/ \E pkg \in F : r[j] = NewLine(needed, pkg)
      OBVIOUS
    <2>1. CASE Old(j)
      BY <1>1, <1>11, <2>1
    <2>2. CASE ~Old(j)
      <3>1. j - at \in 1..Len(w) /\ r[j] = w[j - at]
        BY <1>11, <2>2
      <3>2. w[j - at] \in L
        BY <1>4, <3>1
      <3> QED
        BY <3>1, <3>2
    <2> QED
      BY <2>1, <2>2
  <1>15. ASSUME F = {}
         PROVE  r = m
    <2>1. Len(w) = 0
      BY <1>4, <1>15, FS_EmptySet
    <2>2. Len(r) = Len(m)
      BY <1>7, <1>8, <2>1
    <2>3. ASSUME NEW i \in 1..Len(r)
          PROVE  r[i] = m[i]
      BY <1>7, <1>8, <2>1
    <2> QED
      BY <1>1, <1>7, <2>2, <2>3
  <1>16. ASSUME r = lines
         PROVE  F = {}
    <2>1. Len(w) = 0
      BY <1>1, <1>7, <1>8, <1>16
    <2>2. \A i \in 1..Len(w) : FALSE
      BY <2>1
    <2>3. L = {}
      BY <1>4, <2>2, Zenon
    <2> QED
      BY <2>3
  <1>17. ASSUME OneLineEach(lines),
                NEW j \in 1..Len(r), NEW k \in 1..Len(r),
                LooksLikeImport(r[j]), LooksLikeImport(r[k]), r[j].pkg = r[k].pkg
         PROVE  j = k
    <2>1. ASSUME NEW i \in 1..Len(m), LooksLikeImport(m[i])
          PROVE  LooksLikeImport(lines[i]) /\ lines[i].pkg = m[i].pkg
      <3>1. m[i] = lines[i] \/ (MergedInto(lines, i) /\ m[i].pkg = lines[i].pkg)
        BY <1>0, <1>1
      <3> QED
        BY <2>1, <3>1 DEF MergedInto
    <2>2. ASSUME NEW i \in 1..Len(w)
          PROVE  \E pkg \in F : w[i] = NewLine(needed, pkg) /\ w[i].pkg = pkg
      BY <1>4 DEF NewLine, Import
    <2>3. ASSUME NEW i \in 1..Len(lines), LooksLikeImport(lines[i])
          PROVE  lines[i].pkg \notin F
      BY <2>3, MergeLineIsFirst DEF Fresh
    <2>4. CASE Old(j) /\ Old(k)
      <3>1. From(j) \in 1..Len(m) /\ From(k) \in 1..Len(m) /\ r[j] = m[From(j)] /\ r[k] = m[From(k)]
        BY <1>11, <2>4
      <3>2. /\ LooksLikeImport(lines[From(j)]) /\ LooksLikeImport(lines[From(k)])
            /\ lines[From(j)].pkg = lines[From(k)].pkg
        BY <1>17, <2>1, <3>1
      <3>3. From(j) \in DOMAIN lines /\ From(k) \in DOMAIN lines
        BY <1>1, <3>1
      <3>4. From(j) = From(k)
        BY <1>17, <3>2, <3>3, Zenon DEF OneLineEach
      <3> QED
        BY <1>12, <2>4, <3>4
    <2>5. CASE Old(j) /\ ~Old(k)
      <3>1. From(j) \in 1..Len(m) /\ r[j] = m[From(j)]
        BY <1>11, <2>5
      <3>2. k - at \in 1..Len(w) /\ r[k] = w[k - at]
        BY <1>11, <2>5
      <3>3. r[j].pkg \notin F
        BY <1>1, <1>17, <2>1, <2>3, <3>1
      <3>4. r[k].pkg \in F
        BY <2>2, <3>2
      <3> QED
        BY <1>17, <3>3, <3>4
    <2>6. CASE ~Old(j) /\ Old(k)
      <3>1. From(k) \in 1..Len(m) /\ r[k] = m[From(k)]
        BY <1>11, <2>6
      <3>2. j - at \in 1..Len(w) /\ r[j] = w[j - at]
        BY <1>11, <2>6
      <3>3. r[k].pkg \notin F
        BY <1>1, <1>17, <2>1, <2>3, <3>1
      <3>4. r[j].pkg \in F
        BY <2>2, <3>2
      <3> QED
        BY <1>17, <3>3, <3>4
    <2>7. CASE ~Old(j) /\ ~Old(k)
      <3>1. /\ j - at \in 1..Len(w) /\ k - at \in 1..Len(w)
            /\ r[j] = w[j - at] /\ r[k] = w[k - at]
        BY <1>11, <2>7
      <3>2. w[j - at] = w[k - at]
        BY <1>17, <2>2, <3>1
      <3>3. j - at = k - at
        BY <1>4, <3>1, <3>2
      <3> QED
        BY <1>8, <3>3
    <2> QED
      BY <2>4, <2>5, <2>6, <2>7
  <1>18. OneLineEach(lines) => OneLineEach(r)
    BY <1>7, <1>17 DEF OneLineEach
  <1> QED
    BY <1>1, <1>6, <1>7, <1>9, <1>13, <1>14, <1>15, <1>16, <1>18 DEF m

-----------------------------------------------------------------------------
(* In a plain text the compiler sees the imports the line reader sees.     *)
PlainText(lines) ==
    \A i \in DOMAIN lines :
        /\ lines[i].k \notin {"open", "close"}
        /\ lines[i].k = "import" => lines[i].code

EdgeOf(line) == [pkg |-> line.pkg, wild |-> line.wild, items |-> line.items]

LEMMA PlainImports ==
  ASSUME NEW lines, PlainText(lines)
  PROVE  ParseImports(lines) =
            {EdgeOf(lines[i]) : i \in {j \in DOMAIN lines : lines[j].k = "import"}}
  BY DEF ParseImports, PlainText, EdgeOf

(* No line of a plain text turns into another kind of line.                *)
LEMMA FixedLines ==
  ASSUME NEW lines \in Seq(Line), PlainText(lines),
         NEW needed \in SUBSET Needs, IsFiniteSet(needed)
  PROVE  LET r == ApplyImports(lines, needed)
         IN  /\ r \in Seq(Line)
             /\ PlainText(r)
             /\ needed = {} => r = lines
  <1> DEFINE r == ApplyImports(lines, needed)
             m == MergeExisting(lines, needed)
  <1>1. r \in Seq(Line)
    BY Surgery
  <1>2. \A i \in 1..Len(lines) :
            /\ m[i].k = lines[i].k
            /\ m[i].k = "import" => m[i].code
    <2> SUFFICES ASSUME NEW i \in 1..Len(lines)
                 PROVE  /\ m[i].k = lines[i].k
                        /\ m[i].k = "import" => m[i].code
      OBVIOUS
    <2>1. lines[i].k = "import" => lines[i].code
      BY DEF PlainText
    <2>2. CASE MergedInto(lines, i)
      <3>1. m[i] \in ImportLine /\ m[i].code = lines[i].code /\ lines[i].k = "import"
        BY <2>2, Merging DEF MergedInto, LooksLikeImport
      <3> QED
        BY <2>1, <3>1 DEF ImportLine
    <2>3. CASE ~MergedInto(lines, i)
      <3>1. m[i] = lines[i]
        BY <2>3, Merging
      <3> QED
        BY <2>1, <3>1
    <2> QED
      BY <2>2, <2>3
  <1>3. PlainText(r)
    <2> SUFFICES ASSUME NEW j \in 1..Len(r)
                 PROVE  r[j].k \notin {"open", "close"} /\ (r[j].k = "import" => r[j].code)
      BY <1>1 DEF PlainText
    <2>1. \/ \E i \in 1..Len(lines) : r[j] = m[i]
          \/ \E pkg \in Fresh(lines, needed) : r[j] = NewLine(needed, pkg)
      BY Surgery
    <2>2. \A pkg : NewLine(needed, pkg).k = "import" /\ NewLine(needed, pkg).code
      BY DEF NewLine, Import
    <2>3. \A i \in 1..Len(lines) : lines[i].k \notin {"open", "close"}
      BY DEF PlainText
    <2> HIDE DEF r, m
    <2>4. CASE \E i \in 1..Len(lines) : r[j] = m[i]
      BY <1>2, <2>3, <2>4
    <2>5. CASE \E pkg \in Fresh(lines, needed) : r[j] = NewLine(needed, pkg)
      BY <2>2, <2>5
    <2> QED
      BY <2>1, <2>4, <2>5
  <1>4. ASSUME needed = {}
        PROVE  r = lines
    <2>1. r = m
      BY <1>4, Surgery DEF Fresh
    <2>2. m \in Seq(Line) /\ Len(m) = Len(lines)
      BY Merging
    <2>3. ASSUME NEW i \in 1..Len(lines), MergedInto(lines, i)
          PROVE  m[i] = lines[i]
      <3>1. lines[i] \in ImportLine /\ lines[i].wild = FALSE
        BY <2>3, ImportLines DEF MergedInto, LooksLikeImport, ImportLine
      <3>2. /\ m[i] \in ImportLine
            /\ m[i].pkg = lines[i].pkg /\ m[i].wild = FALSE /\ m[i].code = lines[i].code
            /\ m[i].items = lines[i].items \cup NamesFor(needed, lines[i].pkg)
        BY <2>3, Merging
      <3>3. NamesFor(needed, lines[i].pkg) = {}
        BY <1>4 DEF NamesFor
      <3>4. m[i].items = lines[i].items
        BY <3>2, <3>3
      <3> QED
        BY <3>1, <3>2, <3>4 DEF ImportLine
    <2>4. \A i \in 1..Len(lines) : m[i] = lines[i]
      BY <2>3, Merging
    <2> HIDE DEF r, m
    <2> QED
      BY <2>1, <2>2, <2>4
  <1> QED
    BY <1>1, <1>3, <1>4

(* The imports of a fixed text are those it had, and what was needed.      *)
LEMMA FixedImports ==
  ASSUME NEW lines \in Seq(Line), PlainText(lines),
         NEW needed \in SUBSET Needs, IsFiniteSet(needed)
  PROVE  LET before == ParseImports(lines)
             after == ParseImports(ApplyImports(lines, needed))
         IN  /\ \A e \in before : \E d \in after :
                   d.pkg = e.pkg /\ d.wild = e.wild /\ e.items \subseteq d.items
             /\ \A n \in needed : \E d \in after :
                   d.pkg = n.pkg /\ ~d.wild /\ n.name \in d.items
             /\ \A d \in after : \A item \in d.items :
                   \/ \E e \in before : e.pkg = d.pkg /\ item \in e.items
                   \/ \E n \in needed : n.pkg = d.pkg /\ n.name = item
             /\ \A d \in after : d.wild => \E e \in before : e.pkg = d.pkg /\ e.wild
  <1> DEFINE r == ApplyImports(lines, needed)
             m == MergeExisting(lines, needed)
             before == ParseImports(lines)
             after == ParseImports(r)
  <1>1. before = {EdgeOf(lines[i]) : i \in {j \in 1..Len(lines) : lines[j].k = "import"}}
    BY PlainImports
  <1>2. after = {EdgeOf(r[i]) : i \in {j \in 1..Len(r) : r[j].k = "import"}}
    <2>1. PlainText(r) /\ r \in Seq(Line)
      BY FixedLines
    <2> HIDE DEF r
    <2> QED
      BY <2>1, PlainImports
  <1>3. ASSUME NEW i \in 1..Len(lines), lines[i].k = "import"
        PROVE  /\ m[i].k = "import" /\ m[i].pkg = lines[i].pkg /\ m[i].wild = lines[i].wild
               /\ lines[i].items \subseteq m[i].items
               /\ m[i].items \subseteq lines[i].items \cup NamesFor(needed, lines[i].pkg)
    <2>1. CASE MergedInto(lines, i)
      <3>1. lines[i].wild = FALSE
        <4>1. lines[i] \in Line
          OBVIOUS
        <4> QED
          BY <1>3, <2>1, <4>1, ImportLines DEF MergedInto, LooksLikeImport, ImportLine
      <3>2. m[i] \in ImportLine /\ m[i].pkg = lines[i].pkg /\ m[i].wild = FALSE
            /\ m[i].items = lines[i].items \cup NamesFor(needed, lines[i].pkg)
        BY <2>1, Merging
      <3> QED
        BY <3>1, <3>2 DEF ImportLine
    <2>2. CASE ~MergedInto(lines, i)
      <3>1. m[i] = lines[i]
        BY <2>2, Merging
      <3> QED
        BY <1>3, <3>1
    <2> QED
      BY <2>1, <2>2
  <1>4. \A i \in 1..Len(lines) : m[i].k = "import" => lines[i].k = "import"
    BY Merging DEF MergedInto, LooksLikeImport
  <1>5. /\ \A i \in 1..Len(lines) : \E j \in 1..Len(r) : r[j] = m[i]
        /\ \A pkg \in Fresh(lines, needed) : \E j \in 1..Len(r) : r[j] = NewLine(needed, pkg)
        /\ \A j \in 1..Len(r) : \/ \E i \in 1..Len(lines) : r[j] = m[i]
                                \/ \E pkg \in Fresh(lines, needed) : r[j] = NewLine(needed, pkg)
    BY Surgery
  <1>6. \A pkg : /\ NewLine(needed, pkg).k = "import" /\ NewLine(needed, pkg).pkg = pkg
                 /\ NewLine(needed, pkg).wild = FALSE
                 /\ NewLine(needed, pkg).items = NamesFor(needed, pkg)
    BY DEF NewLine, Import
  <1>7. \A line : EdgeOf(line).pkg = line.pkg /\ EdgeOf(line).wild = line.wild
                  /\ EdgeOf(line).items = line.items
    BY DEF EdgeOf
  <1> HIDE DEF before, after, r
  <1>8. ASSUME NEW e \in before
        PROVE  \E d \in after : d.pkg = e.pkg /\ d.wild = e.wild /\ e.items \subseteq d.items
    <2>1. PICK i \in 1..Len(lines) : lines[i].k = "import" /\ e = EdgeOf(lines[i])
      BY <1>1
    <2>2. PICK j \in 1..Len(r) : r[j] = m[i]
      BY <1>5
    <2>3. EdgeOf(r[j]) \in after
      BY <1>2, <1>3, <2>1, <2>2
    <2> HIDE DEF m
    <2>4. EdgeOf(r[j]).pkg = e.pkg /\ EdgeOf(r[j]).wild = e.wild /\ e.items \subseteq EdgeOf(r[j]).items
      BY <1>3, <1>7, <2>1, <2>2
    <2> QED
      BY <2>3, <2>4
  <1>9. ASSUME NEW n \in needed
        PROVE  \E d \in after : d.pkg = n.pkg /\ ~d.wild /\ n.name \in d.items
    <2>1. n.name \in NamesFor(needed, n.pkg)
      BY DEF NamesFor
    <2>2. CASE MergeLine(lines, n.pkg) = 0
      <3>1. n.pkg \in Fresh(lines, needed)
        BY <2>2 DEF Fresh
      <3>2. PICK j \in 1..Len(r) : r[j] = NewLine(needed, n.pkg)
        BY <1>5, <3>1
      <3>3. EdgeOf(r[j]) \in after
        BY <1>2, <1>6, <3>2
      <3> QED
        BY <1>6, <1>7, <2>1, <3>2, <3>3
    <2>3. CASE MergeLine(lines, n.pkg) # 0
      <3> DEFINE i == MergeLine(lines, n.pkg)
      <3>1. i \in 1..Len(lines) /\ LooksLikeImport(lines[i]) /\ lines[i].pkg = n.pkg
        BY <2>3, MergeLineIsFirst
      <3>2. MergedInto(lines, i)
        BY <3>1 DEF MergedInto
      <3>a. /\ m[i] \in ImportLine /\ m[i].pkg = lines[i].pkg /\ m[i].wild = FALSE
            /\ m[i].items = lines[i].items \cup NamesFor(needed, lines[i].pkg)
        <4> HIDE DEF i
        <4> QED
          BY <3>1, <3>2, Merging
      <3>3. m[i].items = lines[i].items \cup NamesFor(needed, lines[i].pkg)
            /\ m[i].wild = FALSE /\ m[i].pkg = n.pkg /\ m[i].k = "import"
        <4> HIDE DEF i, m
        <4> QED
          BY <3>1, <3>a DEF ImportLine
      <3> HIDE DEF i, m
      <3>4. PICK j \in 1..Len(r) : r[j] = m[i]
        BY <1>5, <3>1
      <3>5. EdgeOf(r[j]) \in after
        BY <1>2, <3>3, <3>4
      <3> QED
        BY <1>7, <2>1, <3>1, <3>3, <3>4, <3>5
    <2> QED
      BY <2>2, <2>3
  <1>10. ASSUME NEW d \in after, NEW item \in d.items
         PROVE  \/ \E e \in before : e.pkg = d.pkg /\ item \in e.items
                \/ \E n \in needed : n.pkg = d.pkg /\ n.name = item
    <2>1. PICK j \in 1..Len(r) : r[j].k = "import" /\ d = EdgeOf(r[j])
      BY <1>2
    <2>2. \A pkg : item \in NamesFor(needed, pkg) => \E n \in needed : n.pkg = pkg /\ n.name = item
      BY DEF NamesFor
    <2> HIDE DEF m
    <2>3. CASE \E i \in 1..Len(lines) : r[j] = m[i]
      <3>1. PICK i \in 1..Len(lines) : r[j] = m[i]
        BY <2>3
      <3>2. lines[i].k = "import" /\ EdgeOf(lines[i]) \in before
        BY <1>1, <1>4, <2>1, <3>1
      <3>3. item \in lines[i].items \/ item \in NamesFor(needed, lines[i].pkg)
        BY <1>3, <1>7, <2>1, <3>1, <3>2
      <3>4. lines[i].pkg = d.pkg
        BY <1>3, <1>7, <2>1, <3>1, <3>2
      <3> QED
        BY <1>7, <2>2, <3>2, <3>3, <3>4
    <2>4. CASE \E pkg \in Fresh(lines, needed) : r[j] = NewLine(needed, pkg)
      BY <1>6, <1>7, <2>1, <2>2, <2>4
    <2> QED
      BY <1>5, <2>3, <2>4
  <1>11. ASSUME NEW d \in after, d.wild
         PROVE  \E e \in before : e.pkg = d.pkg /\ e.wild
    <2>1. PICK j \in 1..Len(r) : r[j].k = "import" /\ d = EdgeOf(r[j])
      BY <1>2
    <2> HIDE DEF m
    <2>2. ~\E pkg \in Fresh(lines, needed) : r[j] = NewLine(needed, pkg)
      BY <1>6, <1>7, <1>11, <2>1
    <2>3. PICK i \in 1..Len(lines) : r[j] = m[i]
      BY <1>5, <2>2
    <2>4. lines[i].k = "import" /\ EdgeOf(lines[i]) \in before
      BY <1>1, <1>4, <2>1, <2>3
    <2>5. lines[i].pkg = d.pkg /\ lines[i].wild = d.wild
      BY <1>3, <1>7, <2>1, <2>3, <2>4
    <2> QED
      BY <1>7, <1>11, <2>4, <2>5
  <1> QED
    BY <1>8, <1>9, <1>10, <1>11 DEF before, after, r

-----------------------------------------------------------------------------
(* A project keeps its shape; the index of a run is that of its project.   *)
FixerTypes ==
    /\ IsFiniteSet(elements)
    /\ \A e \in elements : e.pkg \in Package /\ e.name \in Name
    /\ \A f \in Target : IsFiniteSet(references[f])
    /\ text \in [Target -> Seq(Line)]
    /\ check \in BOOLEAN /\ attention \in BOOLEAN
    /\ changed \in Nat /\ runs \in Nat
    /\ exit = "none" => runs > 0
    /\ runs > 0 => global = BuildGlobalIndex

LEMMA DeclaringIs ==
  ASSUME global = BuildGlobalIndex
  PROVE  \A name : Declaring(name) = Declarers(name)
  BY DEF Declaring, BuildGlobalIndex, Declarers

LEMMA DeclarersAreFinite ==
  ASSUME FixerTypes, NEW name
  PROVE  IsFiniteSet(Declarers(name)) /\ Declarers(name) \in SUBSET Package
  <1> DEFINE M == {d \in elements : d.name = name /\ d.kind # "package"}
             D == Declarers(name)
             g == [e \in M |-> e.pkg]
  <1>1. IsFiniteSet(M)
    BY FS_Subset DEF FixerTypes
  <1>2. g \in Surjection(M, D)
    BY DEF Surjection, Declarers
  <1>3. D \in SUBSET Package
    BY DEF FixerTypes, Declarers
  <1> HIDE DEF M, D, g
  <1>4. IsFiniteSet(D)
    BY <1>1, <1>2, FS_Surjection
  <1> QED
    BY <1>3, <1>4 DEF D

LEMMA CandidatesAre ==
  ASSUME FixerTypes, global = BuildGlobalIndex, NEW f \in Target, NEW ref
  PROVE  /\ ref.qualifier = NoPackage =>
               Candidates(f, ref) = Declarers(ref.name) \ {package[f]}
         /\ ref.qualifier # NoPackage =>
               Candidates(f, ref) = Declarers(ref.name) \cap {ref.qualifier}
         /\ Cardinality(Candidates(f, ref)) = 1 <=>
               \E pkg \in Package : Candidates(f, ref) = {pkg}
  <1>1. Declaring(ref.name) = Declarers(ref.name)
    BY DeclaringIs
  <1>2. Candidates(f, ref) \in SUBSET Declarers(ref.name)
    BY <1>1 DEF Candidates
  <1>3. IsFiniteSet(Declarers(ref.name)) /\ Declarers(ref.name) \in SUBSET Package
    BY DeclarersAreFinite
  <1>4. IsFiniteSet(Candidates(f, ref))
    BY <1>2, <1>3, FS_Subset
  <1>5. Cardinality(Candidates(f, ref)) = 1 <=> \E pkg : Candidates(f, ref) = {pkg}
    BY <1>4, FS_Singleton
  <1> QED
    BY <1>1, <1>2, <1>3, <1>5 DEF Candidates

(* What a file's references need: one import for each that is out of scope *)
(* and has one package to come from.                                       *)
LEMMA NeededIs ==
  ASSUME FixerTypes, global = BuildGlobalIndex, NEW f \in Target
  PROVE  /\ Needed(f) \in SUBSET [pkg : Package, name : {ref.name : ref \in references[f]}]
         /\ IsFiniteSet(Needed(f))
         /\ \A n \in Needed(f) : \E ref \in references[f] :
               n.name = ref.name /\ ~InScope(f, ref) /\ Candidates(f, ref) = {n.pkg}
         /\ \A ref \in references[f] :
               ~InScope(f, ref) /\ Cardinality(Candidates(f, ref)) = 1 =>
                  \E n \in Needed(f) : n.name = ref.name /\ Candidates(f, ref) = {n.pkg}
  <1> DEFINE M == {r \in references[f] : ~InScope(f, r) /\ Cardinality(Candidates(f, r)) = 1}
             Need(ref) == [pkg |-> CHOOSE p \in Candidates(f, ref) : TRUE, name |-> ref.name]
             N == Needed(f)
             g == [r \in M |-> Need(r)]
  <1>1. N = {Need(ref) : ref \in M}
    BY DEF Needed
  <1>2. ASSUME NEW ref \in M
        PROVE  /\ Need(ref).pkg \in Package /\ Need(ref).name = ref.name
               /\ Candidates(f, ref) = {Need(ref).pkg}
    <2>1. PICK pkg \in Package : Candidates(f, ref) = {pkg}
      BY CandidatesAre
    <2> QED
      BY <2>1
  <1>3. IsFiniteSet(M)
    BY FS_Subset DEF FixerTypes
  <1>4. g \in Surjection(M, N)
    BY <1>1 DEF Surjection
  <1>5. IsFiniteSet(N)
    <2> HIDE DEF M, N, g
    <2> QED
      BY <1>3, <1>4, FS_Surjection
  <1>6. N \in SUBSET [pkg : Package, name : {ref.name : ref \in references[f]}]
    BY <1>1, <1>2
  <1>7. ASSUME NEW n \in N
        PROVE  \E ref \in references[f] :
                  n.name = ref.name /\ ~InScope(f, ref) /\ Candidates(f, ref) = {n.pkg}
    <2>1. PICK ref \in M : n = Need(ref)
      BY <1>1
    <2> HIDE DEF Need
    <2> QED
      BY <1>2, <2>1
  <1>8. ASSUME NEW ref \in references[f], ~InScope(f, ref), Cardinality(Candidates(f, ref)) = 1
        PROVE  \E n \in N : n.name = ref.name /\ Candidates(f, ref) = {n.pkg}
    <2>1. ref \in M
      BY <1>8
    <2> HIDE DEF Need, M
    <2> QED
      BY <1>1, <1>2, <2>1
  <1> QED
    BY <1>5, <1>6, <1>7, <1>8

(* Names that are needed are declared.                                     *)
LEMMA NeededIsTyped ==
  ASSUME FixerTypes, global = BuildGlobalIndex, NEW f \in Target
  PROVE  Needed(f) \in SUBSET Needs /\ IsFiniteSet(Needed(f))
  <1>1. ASSUME NEW n \in Needed(f)
        PROVE  n \in Needs
    <2>1. PICK ref \in references[f] : n.name = ref.name /\ Candidates(f, ref) = {n.pkg}
      BY NeededIs
    <2>2. n.pkg \in Declarers(ref.name)
      BY <2>1, CandidatesAre
    <2>3. n.name \in Name
      BY <2>1, <2>2 DEF FixerTypes, Declarers
    <2>4. n \in [pkg : Package, name : {r.name : r \in references[f]}]
      BY NeededIs
    <2> QED
      BY <2>3, <2>4 DEF Needs
  <1> QED
    BY <1>1, NeededIs

(* What the fixer takes as in scope and what the compiler resolves.        *)
LEMMA ResolvedIsInScope ==
  ASSUME global = BuildGlobalIndex, NEW f \in Target, NEW ref, Resolves(f, ref)
  PROVE  InScope(f, ref)
  <1>1. Declaring(ref.name) = Declarers(ref.name)
    BY DeclaringIs
  <1>2. CASE ref.qualifier # NoPackage
    BY <1>2 DEF InScope, Resolves
  <1>3. CASE ref.qualifier = NoPackage /\ \E pkg \in Package : Bindings(f, ref.name) = {pkg}
    <2>1. PICK edge \in ParseImports(text[f]) :
             edge.pkg \in Declarers(ref.name) /\ (edge.wild \/ ref.name \in edge.items)
      BY <1>3 DEF Bindings
    <2> QED
      BY <1>1, <1>3, <2>1 DEF InScope
  <1>4. CASE ref.qualifier = NoPackage /\ ~\E pkg \in Package : Bindings(f, ref.name) = {pkg}
    BY <1>1, <1>4 DEF InScope, Resolves
  <1> QED
    BY <1>2, <1>3, <1>4

(* A bare name that something binds is the one thing's or is ambiguous.    *)
LEMMA BoundNames ==
  ASSUME FixerTypes, NEW f \in Target, NEW ref, ref.qualifier = NoPackage,
         Bindings(f, ref.name) # {}
  PROVE  Resolves(f, ref) \/ Ambiguous(f, ref)
  <1>1. PICK pkg : pkg \in Bindings(f, ref.name)
    OBVIOUS
  <1>2. pkg \in Declarers(ref.name)
    BY <1>1 DEF Bindings
  <1>3. pkg \in Package
    BY <1>2, DeclarersAreFinite
  <1>4. CASE Bindings(f, ref.name) = {pkg}
    BY <1>3, <1>4 DEF Resolves
  <1>5. CASE Bindings(f, ref.name) # {pkg}
    BY <1>1, <1>5 DEF Ambiguous
  <1> QED
    BY <1>4, <1>5

LEMMA InScopeResolves ==
  ASSUME FixerTypes, global = BuildGlobalIndex, NEW f \in Target, NEW ref, Honest(f),
         InScope(f, ref),
         ref.qualifier # NoPackage => ref.qualifier \in Declarers(ref.name)
  PROVE  Resolves(f, ref) \/ Ambiguous(f, ref)
  <1>1. \A edge \in ParseImports(text[f]) : \A item \in edge.items : edge.pkg \in Declarers(item)
    BY DEF Honest, Declarers
  <1>2. Declaring(ref.name) = Declarers(ref.name)
    BY DeclaringIs
  <1>3. CASE ref.qualifier # NoPackage
    BY <1>3 DEF InScope, Resolves
  <1>4. CASE ref.qualifier = NoPackage /\ (ref.name \in Primitives \/ package[f] \in Declarers(ref.name))
    BY <1>4 DEF Resolves
  <1>5. CASE ref.qualifier = NoPackage /\ ~(ref.name \in Primitives \/ package[f] \in Declarers(ref.name))
    <2>1. PICK edge \in ParseImports(text[f]) :
             \/ ~edge.wild /\ ref.name \in edge.items
             \/ edge.wild /\ edge.pkg \in Declarers(ref.name)
      BY <1>2, <1>5 DEF InScope
    <2>2. edge.pkg \in Bindings(f, ref.name)
      BY <1>1, <2>1 DEF Bindings
    <2> QED
      BY <1>5, <2>2, BoundNames
  <1> QED
    BY <1>3, <1>4, <1>5

-----------------------------------------------------------------------------
LEMMA TypesHold == Spec => []FixerTypes
  <1>1. Init => FixerTypes
    <2> SUFFICES ASSUME Init
                 PROVE  FixerTypes
      OBVIOUS
    <2>1. check \in BOOLEAN /\ attention \in BOOLEAN
      BY Zenon DEF Init
    <2>2. changed \in Nat /\ runs \in Nat /\ exit # "none" /\ ~(runs > 0)
      BY DEF Init
    <2>3. /\ IsFiniteSet(elements)
          /\ \A e \in elements : e.pkg \in Package /\ e.name \in Name
          /\ \A f \in Target : IsFiniteSet(references[f])
          /\ text \in [Target -> Seq(Line)]
      BY FixerAssumption, Zenon DEF Init
    <2> QED
      BY <2>1, <2>2, <2>3 DEF FixerTypes
  <1>2. FixerTypes /\ [Next]_vars => FixerTypes'
    <2> SUFFICES ASSUME FixerTypes, [Next]_vars
                 PROVE  FixerTypes'
      OBVIOUS
    <2>1. UNCHANGED world
      BY DEF Next, RunFixImports, FixFile, SkipFile, Finish, Kill, vars
    <2>2. /\ IsFiniteSet(elements)'
          /\ \A e \in elements' : e.pkg \in Package /\ e.name \in Name
          /\ \A f \in Target : IsFiniteSet(references'[f])
          /\ BuildGlobalIndex' = BuildGlobalIndex
      BY <2>1 DEF world, FixerTypes, BuildGlobalIndex
    <2>3. CASE \E checkOnly \in BOOLEAN : RunFixImports(checkOnly)
      <3>1. PICK checkOnly \in BOOLEAN : RunFixImports(checkOnly)
        BY <2>3
      <3>2. check' \in BOOLEAN /\ attention' \in BOOLEAN
        BY <3>1, Zenon DEF RunFixImports
      <3>3. /\ changed' = 0 /\ runs' = runs + 1
            /\ global' = BuildGlobalIndex /\ text' = text
        BY <3>1 DEF RunFixImports
      <3>4. changed' \in Nat /\ runs' \in Nat /\ runs' > 0
        BY <3>3 DEF FixerTypes
      <3> QED
        BY <2>2, <3>2, <3>3, <3>4 DEF FixerTypes
    <2>4. CASE \E f \in Target : FixFile(f)
      <3>1. PICK f \in Target : FixFile(f)
        BY <2>4
      <3>2. global = BuildGlobalIndex /\ runs' > 0 /\ exit' = exit /\ global' = global
        BY <3>1 DEF FixFile, FixerTypes
      <3>3. Fixed(f) \in Seq(Line)
        BY <3>2, NeededIsTyped, Surgery DEF FixerTypes, Fixed
      <3>4. text' \in [Target -> Seq(Line)]
        BY <3>1, <3>3 DEF FixFile, FixerTypes
      <3>5. attention' \in BOOLEAN
        BY <3>1, Zenon DEF FixFile, FixerTypes
      <3>6. changed' \in Nat /\ check' \in BOOLEAN /\ runs' \in Nat
        BY <3>1 DEF FixFile, FixerTypes
      <3> QED
        BY <2>2, <3>2, <3>4, <3>5, <3>6 DEF FixerTypes
    <2>8. CASE \E f \in Target : SkipFile(f)
      <3>1. PICK f \in Target : SkipFile(f)
        BY <2>8
      <3>2. attention' \in BOOLEAN
        BY <3>1, Zenon DEF SkipFile, FixerTypes
      <3>3. changed' \in Nat
        BY <3>1 DEF SkipFile, FixerTypes
      <3>4. UNCHANGED <<text, check, global, runs>> /\ exit' = exit
        BY <3>1 DEF SkipFile
      <3> QED
        BY <2>2, <3>2, <3>3, <3>4 DEF FixerTypes
    <2>5. CASE Finish
      BY <2>2, <2>5 DEF Finish, FixerTypes
    <2>6. CASE Kill
      BY <2>2, <2>6 DEF Kill, FixerTypes
    <2>7. CASE UNCHANGED vars
      BY <2>2, <2>7 DEF vars, FixerTypes
    <2> QED
      BY <2>3, <2>4, <2>5, <2>6, <2>7, <2>8 DEF Next
  <1> QED
    BY <1>1, <1>2, PTL DEF Spec

LEMMA PlainTextIs ==
  ASSUME NEW f \in Target
  PROVE  Plain(f) <=> PlainText(text[f])
  BY DEF Plain, PlainText

(* Only the fix of a file changes its text.                                *)
LEMMA TextSteps ==
  ASSUME FixerTypes, [Next]_vars, NEW f \in Target, text'[f] # text[f]
  PROVE  /\ text'[f] = ApplyImports(text[f], Needed(f))
         /\ global = BuildGlobalIndex
         /\ UNCHANGED <<elements, package, references>>
  <1>1. CASE \E g \in Target : FixFile(g)
    <2>1. PICK g \in Target : FixFile(g)
      BY <1>1
    <2>2. text' = text \/ text' = [text EXCEPT ![g] = ApplyImports(text[g], Needed(g))]
      BY <2>1 DEF FixFile, Fixed
    <2>3. g = f /\ text'[f] = ApplyImports(text[f], Needed(f))
      BY <2>2 DEF FixerTypes
    <2> QED
      BY <2>1, <2>3 DEF FixFile, FixerTypes, world
  <1>2. CASE ~\E g \in Target : FixFile(g)
    BY <1>2 DEF Next, RunFixImports, SkipFile, Finish, Kill, vars
  <1> QED
    BY <1>1, <1>2

(* A file whose references all resolve is never touched: what one run      *)
(* fixed the next leaves as it is, however runs were killed before.        *)
THEOREM FixedStayFixed == Spec => FixedFilesStayFixed
  <1>1. ASSUME FixerTypes, global = BuildGlobalIndex, NEW f \in Target, Plain(f),
               \A ref \in references[f] : Resolves(f, ref)
        PROVE  ApplyImports(text[f], Needed(f)) = text[f]
    <2>1. \A ref \in references[f] : InScope(f, ref)
      BY <1>1, ResolvedIsInScope
    <2>2. Needed(f) = {}
      BY <1>1, <2>1, NeededIs
    <2>3. text[f] \in Seq(Line) /\ PlainText(text[f])
      BY <1>1, PlainTextIs DEF FixerTypes
    <2> QED
      BY <1>1, <2>2, <2>3, NeededIsTyped, FixedLines
  <1>2. FixerTypes /\ [Next]_vars =>
           \A f \in Target : Plain(f) /\ (\A ref \in references[f] : Resolves(f, ref))
                                => text'[f] = text[f] /\ (f \in torn' => f \in torn)
    <2> SUFFICES ASSUME FixerTypes, [Next]_vars, NEW f \in Target, Plain(f),
                        \A ref \in references[f] : Resolves(f, ref)
                 PROVE  text'[f] = text[f] /\ (f \in torn' => f \in torn)
      OBVIOUS
    <2>1. text'[f] = text[f]
      BY <1>1, TextSteps
    <2>2. ASSUME f \in torn', f \notin torn  PROVE FALSE
      <3>1. CASE Kill
        <4>1. PICK g \in todo \ torn : Fixed(g) # text[g] /\ torn' = torn \cup {g}
          BY <2>2, <3>1 DEF Kill
        <4>2. exit = "none" /\ g = f
          BY <2>2, <3>1, <4>1 DEF Kill
        <4>3. global = BuildGlobalIndex
          BY <4>2 DEF FixerTypes
        <4> QED
          BY <1>1, <4>1, <4>2, <4>3 DEF Fixed
      <3>2. CASE ~Kill
        BY <2>2, <3>2 DEF Next, RunFixImports, FixFile, SkipFile, Finish, vars
      <3> QED
        BY <3>1, <3>2
    <2> QED
      BY <2>1, <2>2
  <1> QED
    BY <1>2, TypesHold, PTL DEF Spec, FixedFilesStayFixed

(* A fix loses no import and doubles none, resolves every reference that   *)
(* one package alone declares, and adds only what a reference needs.       *)
THEOREM FixesAddWhatIsNeeded == Spec => FixAddsWhatIsNeeded
  <1>1. ASSUME FixerTypes, [Next]_vars, NEW f \in Target, Plain(f), text'[f] # text[f]
        PROVE  /\ EdgeItems(text[f]) \subseteq EdgeItems(text'[f])
               /\ OneLineEach(text[f]) => OneLineEach(text'[f])
               /\ Honest(f) =>
                    \A ref \in references[f] : DeclaredOnce(ref) => Resolves(f, ref)'
               /\ \A ref \in references[f] :
                    Resolves(f, ref) => Resolves(f, ref)' \/ AlsoQualified(f, ref)
               /\ \A pkg \in Package, name \in Name :
                    <<pkg, name>> \in EdgeItems(text'[f]) \ EdgeItems(text[f])
                      => NeededFrom(f, pkg, name)
    <2> DEFINE before == ParseImports(text[f])
               after == ParseImports(text'[f])
    <2>1. /\ text'[f] = ApplyImports(text[f], Needed(f)) /\ global = BuildGlobalIndex
          /\ UNCHANGED <<elements, package, references>>
      BY <1>1, TextSteps
    <2>2. text[f] \in Seq(Line) /\ PlainText(text[f])
      BY <1>1, PlainTextIs DEF FixerTypes
    <2>3. Needed(f) \in SUBSET Needs /\ IsFiniteSet(Needed(f))
      BY <1>1, <2>1, NeededIsTyped
    <2>4. /\ \A e \in before : \E d \in after :
                d.pkg = e.pkg /\ d.wild = e.wild /\ e.items \subseteq d.items
          /\ \A n \in Needed(f) : \E d \in after :
                d.pkg = n.pkg /\ ~d.wild /\ n.name \in d.items
          /\ \A d \in after : \A item \in d.items :
                \/ \E e \in before : e.pkg = d.pkg /\ item \in e.items
                \/ \E n \in Needed(f) : n.pkg = d.pkg /\ n.name = item
          /\ \A d \in after : d.wild => \E e \in before : e.pkg = d.pkg /\ e.wild
      BY <2>1, <2>2, <2>3, FixedImports
    <2> HIDE DEF before, after
    <2>5. EdgeItems(text[f]) \subseteq EdgeItems(text'[f])
      <3>1. \A lines : EdgeItems(lines) =
               UNION {{<<e.pkg, item>> : item \in e.items} : e \in ParseImports(lines)}
        BY Zenon DEF EdgeItems
      <3>2. ASSUME NEW e \in before, NEW item \in e.items
            PROVE  \E d \in after : item \in d.items /\ <<d.pkg, item>> = <<e.pkg, item>>
        BY <2>4
      <3> QED
        BY <3>1, <3>2 DEF before, after
    <2>6. OneLineEach(text[f]) => OneLineEach(text'[f])
      BY <2>1, <2>2, <2>3, Surgery
    <2> DEFINE now(name) == {edge.pkg : edge \in {e \in after :
                               e.pkg \in Declarers(name) /\ (e.wild \/ name \in e.items)}}
    <2>9. \A ref : Resolves(f, ref)' <=>
            IF ref.qualifier = NoPackage
            THEN \/ ref.name \in Primitives
                 \/ package[f] \in Declarers(ref.name)
                 \/ \E pkg \in Package : now(ref.name) = {pkg}
            ELSE ref.qualifier \in Declarers(ref.name)
                    \cap ({package[f]} \cup {edge.pkg : edge \in after})
      BY <2>1 DEF Resolves, Bindings, Declarers, after
    <2>10. \A name : Bindings(f, name) =
             {edge.pkg : edge \in {e \in before :
                 e.pkg \in Declarers(name) /\ (e.wild \/ name \in e.items)}}
      BY DEF Bindings, before
    <2>11. \A name : Bindings(f, name) \subseteq now(name)
      <3>1. ASSUME NEW name, NEW pkg \in Bindings(f, name)  PROVE pkg \in now(name)
        <4>1. PICK e \in before :
                 e.pkg = pkg /\ pkg \in Declarers(name) /\ (e.wild \/ name \in e.items)
          BY <2>10, <3>1
        <4>2. PICK d \in after : d.pkg = e.pkg /\ d.wild = e.wild /\ e.items \subseteq d.items
          BY <2>4
        <4> QED
          BY <4>1, <4>2
      <3> QED
        BY <3>1
    <2>12. ASSUME NEW name, NEW pkg \in now(name), pkg \notin Bindings(f, name)
           PROVE  \E n \in Needed(f) : n.pkg = pkg /\ n.name = name
      <3>1. PICK d \in after :
               d.pkg = pkg /\ pkg \in Declarers(name) /\ (d.wild \/ name \in d.items)
        BY <2>12
      <3>2. CASE d.wild
        <4>1. PICK e \in before : e.pkg = d.pkg /\ e.wild
          BY <2>4, <3>2
        <4> QED
          BY <2>10, <2>12, <3>1, <4>1
      <3>3. CASE name \in d.items
        <4>1. ~\E e \in before : e.pkg = d.pkg /\ name \in e.items
          BY <2>10, <2>12, <3>1
        <4> QED
          BY <2>4, <3>1, <3>3, <4>1
      <3> QED
        BY <3>1, <3>2, <3>3
    <2>7. ASSUME Honest(f), NEW ref \in references[f], DeclaredOnce(ref)
          PROVE  Resolves(f, ref)'
      <3>1. CASE ref.qualifier = NoPackage
        <4>1. PICK pkg \in Package : Declarers(ref.name) = {pkg}
          BY <2>7, <3>1 DEF DeclaredOnce
        <4>2. now(ref.name) \subseteq {pkg}
          BY <4>1
        <4>3. CASE InScope(f, ref)
          <5>1. Resolves(f, ref) \/ Ambiguous(f, ref)
            BY <1>1, <2>1, <2>7, <3>1, <4>3, InScopeResolves
          <5>2. Bindings(f, ref.name) \subseteq {pkg}
            BY <2>11, <4>2
          <5>3. Resolves(f, ref)
            BY <5>1, <5>2 DEF Ambiguous
          <5> HIDE DEF now
          <5>4. \/ ref.name \in Primitives \/ package[f] \in Declarers(ref.name)
                \/ Bindings(f, ref.name) # {}
            BY <3>1, <5>3 DEF Resolves
          <5>5. now(ref.name) = {pkg} \/ Bindings(f, ref.name) = {}
            BY <2>11, <4>2
          <5> QED
            BY <2>9, <3>1, <5>4, <5>5
        <4>4. CASE ~InScope(f, ref)
          <5>1. package[f] \notin Declarers(ref.name)
            BY <2>1, <3>1, <4>4, DeclaringIs DEF InScope
          <5>2. Candidates(f, ref) = {pkg}
            BY <1>1, <2>1, <3>1, <4>1, <5>1, CandidatesAre
          <5>3. PICK n \in Needed(f) : n.name = ref.name /\ n.pkg = pkg
            BY <1>1, <2>1, <4>4, <5>2, NeededIs, CandidatesAre
          <5>4. PICK d \in after : d.pkg = n.pkg /\ ~d.wild /\ n.name \in d.items
            BY <2>4
          <5>5. pkg \in now(ref.name)
            BY <4>1, <5>3, <5>4
          <5> HIDE DEF now
          <5> QED
            BY <2>9, <3>1, <4>2, <5>5
        <4> QED
          BY <4>3, <4>4
      <3>2. CASE ref.qualifier # NoPackage
        <4>1. ref.qualifier \in Declarers(ref.name)
          BY <2>7, <3>2 DEF DeclaredOnce
        <4>2. CASE InScope(f, ref)
          <5>1. ref.qualifier = package[f] \/ \E e \in before : e.pkg = ref.qualifier
            BY <3>2, <4>2 DEF InScope, before
          <5>2. ref.qualifier = package[f] \/ \E d \in after : d.pkg = ref.qualifier
            BY <2>4, <5>1
          <5> QED
            BY <2>9, <3>2, <4>1, <5>2
        <4>3. CASE ~InScope(f, ref)
          <5>1. Candidates(f, ref) = {ref.qualifier} /\ ref.qualifier \in Package
            BY <1>1, <2>1, <3>2, <4>1, CandidatesAre, DeclarersAreFinite
          <5>2. PICK n \in Needed(f) : n.name = ref.name /\ n.pkg = ref.qualifier
            BY <1>1, <2>1, <4>3, <5>1, NeededIs, CandidatesAre
          <5>3. \E d \in after : d.pkg = ref.qualifier
            BY <2>4, <5>2
          <5> QED
            BY <2>9, <3>2, <4>1, <5>3
        <4> QED
          BY <4>2, <4>3
      <3> QED
        BY <3>1, <3>2
    <2>14. ASSUME NEW ref \in references[f], Resolves(f, ref), ~AlsoQualified(f, ref)
           PROVE  Resolves(f, ref)'
      <3>1. CASE ref.qualifier # NoPackage
        <4>1. ref.qualifier = package[f] \/ \E e \in before : e.pkg = ref.qualifier
          BY <2>14, <3>1 DEF Resolves, before
        <4>2. ref.qualifier = package[f] \/ \E d \in after : d.pkg = ref.qualifier
          BY <2>4, <4>1
        <4> QED
          BY <2>9, <2>14, <3>1, <4>2 DEF Resolves
      <3>2. CASE ref.qualifier = NoPackage
        <4>1. \A other \in references[f] : other.name = ref.name => other.qualifier = NoPackage
          BY <2>14, <3>2 DEF AlsoQualified
        <4>2. \A other \in references[f] : other.name = ref.name => InScope(f, other)
          <5>1. InScope(f, ref)
            BY <2>1, <2>14, ResolvedIsInScope
          <5> QED
            BY <3>2, <4>1, <5>1 DEF InScope
        <4>3. \A n \in Needed(f) : n.name # ref.name
          BY <1>1, <2>1, <4>2, NeededIs
        <4>4. now(ref.name) = Bindings(f, ref.name)
          <5>1. \A pkg \in now(ref.name) : pkg \in Bindings(f, ref.name)
            BY <2>12, <4>3
          <5> HIDE DEF now
          <5> QED
            BY <2>11, <5>1
        <4> HIDE DEF now
        <4> QED
          BY <2>9, <2>14, <3>2, <4>4 DEF Resolves
      <3> QED
        BY <3>1, <3>2
    <2>8. ASSUME NEW pkg \in Package, NEW name \in Name,
                 <<pkg, name>> \in EdgeItems(text'[f]), <<pkg, name>> \notin EdgeItems(text[f])
          PROVE  NeededFrom(f, pkg, name)
      <3>1. PICK d \in after : d.pkg = pkg /\ name \in d.items
        <4>1. PICK d \in after : \E item \in d.items : <<pkg, name>> = <<d.pkg, item>>
          BY <2>8 DEF EdgeItems, after
        <4> QED
          BY <4>1
      <3>2. ~\E e \in before : e.pkg = pkg /\ name \in e.items
        BY <2>8 DEF EdgeItems, before
      <3>3. PICK n \in Needed(f) : n.pkg = pkg /\ n.name = name
        BY <2>4, <3>1, <3>2
      <3>4. PICK ref \in references[f] :
               ref.name = name /\ ~InScope(f, ref) /\ Candidates(f, ref) = {pkg}
        BY <1>1, <2>1, <3>3, NeededIs
      <3>5. ref.qualifier = NoPackage => Declarers(name) = {pkg}
        <4>1. ref.qualifier = NoPackage => package[f] \notin Declarers(name)
          BY <2>1, <3>4, DeclaringIs DEF InScope
        <4> QED
          BY <1>1, <2>1, <3>4, <4>1, CandidatesAre
      <3>6. ref.qualifier \in {NoPackage, pkg}
        BY <1>1, <2>1, <3>4, CandidatesAre
      <3> QED
        BY <3>4, <3>5, <3>6 DEF NeededFrom
    <2> QED
      BY <2>5, <2>6, <2>7, <2>8, <2>14
  <1>2. FixerTypes /\ [Next]_vars =>
           \A f \in Target : Plain(f) /\ text'[f] # text[f] =>
               /\ EdgeItems(text[f]) \subseteq EdgeItems(text'[f])
               /\ OneLineEach(text[f]) => OneLineEach(text'[f])
               /\ Honest(f) =>
                    \A ref \in references[f] : DeclaredOnce(ref) => Resolves(f, ref)'
               /\ \A ref \in references[f] :
                    Resolves(f, ref) => Resolves(f, ref)' \/ AlsoQualified(f, ref)
               /\ \A pkg \in Package, name \in Name :
                    <<pkg, name>> \in EdgeItems(text'[f]) \ EdgeItems(text[f])
                      => NeededFrom(f, pkg, name)
    BY <1>1, Zenon
  <1> QED
    BY <1>2, TypesHold, PTL DEF Spec, FixAddsWhatIsNeeded

-----------------------------------------------------------------------------
(* Nothing was to be done for a file and nothing to be reported of it.     *)
Settled(f) ==
    /\ Fixed(f) = text[f]
    /\ ~NeedsAttention(f)

(* A --check run changes no text, so the files it has passed without       *)
(* counting or reporting anything are settled still when it exits.         *)
CheckedSoFar ==
    /\ check /\ exit = "none" /\ changed = 0 /\ ~attention =>
           \A f \in Target \ (todo \cup skipped) : Settled(f)
    /\ check /\ exit = "ok" /\ runs > 0 => \A f \in Target \ skipped : Settled(f)

LEMMA SettledStays ==
  ASSUME UNCHANGED <<elements, package, references, text, global>>
  PROVE  \A f : Settled(f)' <=> Settled(f)
  <1>1. \A name : Declaring(name)' = Declaring(name)
    BY DEF Declaring
  <1>2. \A f, ref : InScope(f, ref)' <=> InScope(f, ref)
    BY <1>1 DEF InScope
  <1>3. \A f, ref : Candidates(f, ref)' = Candidates(f, ref)
    BY <1>1 DEF Candidates
  <1>4. \A f : Needed(f)' = Needed(f)
    BY <1>2, <1>3 DEF Needed
  <1>5. \A f : NeedsAttention(f)' <=> NeedsAttention(f)
    BY <1>2, <1>3 DEF NeedsAttention
  <1> QED
    BY <1>4, <1>5 DEF Settled, Fixed

LEMMA ChecksAdvance ==
  ASSUME FixerTypes, CheckedSoFar, [Next]_vars
  PROVE  CheckedSoFar'
  <1>1. CASE \E checkOnly \in BOOLEAN : RunFixImports(checkOnly)
    BY <1>1 DEF RunFixImports, CheckedSoFar
  <1>2. CASE \E f \in Target : FixFile(f)
    <2>1. PICK g \in Target : FixFile(g)
      BY <1>2
    <2>2. exit' = "none" /\ exit = "none" /\ check' = check /\ todo' = todo \ {g}
          /\ skipped' = skipped
      BY <2>1 DEF FixFile
    <2> SUFFICES ASSUME check, changed' = 0, ~attention', NEW f \in Target \ (todo' \cup skipped')
                 PROVE  Settled(f)'
      BY <2>2 DEF CheckedSoFar
    <2>3. UNCHANGED <<elements, package, references, text, global>>
      BY <2>1 DEF FixFile, world
    <2>4. changed = 0 /\ Fixed(g) = text[g]
      BY <2>1 DEF FixFile, FixerTypes
    <2>5. ~attention /\ ~NeedsAttention(g)
      BY <2>1 DEF FixFile
    <2>6. Settled(f)
      BY <2>2, <2>4, <2>5 DEF Settled, CheckedSoFar
    <2> QED
      BY <2>3, <2>6, SettledStays
  <1>6. CASE \E f \in Target : SkipFile(f)
    <2>1. PICK g \in Target : SkipFile(g)
      BY <1>6
    <2>2. exit' = "none" /\ exit = "none" /\ check' = check /\ todo' = todo \ {g}
          /\ UNCHANGED <<elements, package, references, text, global>>
      BY <2>1 DEF SkipFile, world
    <2> SUFFICES ASSUME check, changed' = 0, ~attention', NEW f \in Target \ (todo' \cup skipped')
                 PROVE  Settled(f)'
      BY <2>2 DEF CheckedSoFar
    <2>3. skipped' = skipped \cup {g} /\ ~attention
      BY <2>1 DEF SkipFile
    <2>4. changed = 0
      BY <2>1 DEF SkipFile, FixerTypes
    <2>5. Settled(f)
      BY <2>2, <2>3, <2>4 DEF CheckedSoFar
    <2> QED
      BY <2>2, <2>5, SettledStays
  <1>3. CASE Finish
    <2>1. UNCHANGED <<elements, package, references, text, global>> /\ exit' # "none"
          /\ check' = check /\ todo = {} /\ exit = "none" /\ skipped' = skipped
      BY <1>3 DEF Finish, world
    <2> SUFFICES ASSUME check, exit' = "ok", NEW f \in Target \ skipped
                 PROVE  Settled(f)'
      BY <2>1 DEF CheckedSoFar
    <2>2. changed = 0 /\ ~attention
      BY <1>3 DEF Finish, FixerTypes
    <2> QED
      BY <2>1, <2>2, SettledStays DEF CheckedSoFar
  <1>4. CASE Kill
    BY <1>4 DEF Kill, CheckedSoFar
  <1>5. CASE UNCHANGED vars
    <2>1. UNCHANGED <<elements, package, references, text, global>>
      BY <1>5 DEF vars, world
    <2>2. UNCHANGED <<check, exit, changed, attention, todo, skipped, runs>>
      BY <1>5 DEF vars
    <2> QED
      BY <2>1, <2>2, SettledStays DEF CheckedSoFar
  <1> QED
    BY <1>1, <1>2, <1>3, <1>4, <1>5, <1>6 DEF Next

(* A clean --check is a proof that every reference of every target         *)
(* resolves, for any project and after any history of runs and kills.      *)
THEOREM CleanIsResolved == Spec => []CleanMeansResolved
  <1>1. Init => CheckedSoFar
    BY DEF Init, CheckedSoFar
  <1>2. FixerTypes /\ CheckedSoFar /\ [Next]_vars => CheckedSoFar'
    BY ChecksAdvance
  <1>3. FixerTypes /\ CheckedSoFar => CleanMeansResolved
    <2> SUFFICES ASSUME FixerTypes, CheckedSoFar, AllPlain, check, exit = "ok", runs > 0,
                        NEW f \in Target \ skipped, NEW ref \in references[f]
                 PROVE  Resolves(f, ref) \/ Ambiguous(f, ref)
      BY DEF CleanMeansResolved
    <2>1. global = BuildGlobalIndex /\ Settled(f) /\ Plain(f) /\ Honest(f)
      BY DEF FixerTypes, CheckedSoFar, AllPlain
    <2>2. \/ \E pkg \in Package : Candidates(f, ref) = {pkg}
          \/ ref.qualifier = NoPackage /\ InScope(f, ref)
      BY <2>1, CandidatesAre DEF Settled, NeedsAttention
    <2>3. InScope(f, ref)
      <3> SUFFICES ASSUME ~InScope(f, ref)
                   PROVE  FALSE
        OBVIOUS
      <3>1. PICK n \in Needed(f) : n.name = ref.name /\ Candidates(f, ref) = {n.pkg}
        BY <2>1, <2>2, NeededIs, CandidatesAre
      <3>2. \E d \in ParseImports(text[f]) : d.pkg = n.pkg /\ ~d.wild /\ n.name \in d.items
        <4>1. text[f] \in Seq(Line) /\ PlainText(text[f])
          BY <2>1, PlainTextIs DEF FixerTypes
        <4>2. Needed(f) \in SUBSET Needs /\ IsFiniteSet(Needed(f))
          BY <2>1, NeededIsTyped
        <4>3. ApplyImports(text[f], Needed(f)) = text[f]
          BY <2>1 DEF Settled, Fixed
        <4> QED
          BY <4>1, <4>2, <4>3, FixedImports
      <3>3. ref.qualifier # NoPackage => n.pkg = ref.qualifier
        BY <2>1, <3>1, CandidatesAre
      <3> QED
        BY <3>1, <3>2, <3>3 DEF InScope
    <2>4. ref.qualifier # NoPackage => ref.qualifier \in Declarers(ref.name)
      BY <2>1, <2>2, CandidatesAre
    <2> QED
      BY <2>1, <2>3, <2>4, InScopeResolves
  <1> QED
    BY <1>1, <1>2, <1>3, TypesHold, PTL DEF Spec

=============================================================================
