----------------------------- MODULE CJsonProofs ------------------------------
(***************************************************************************)
(* Proofs about cJSON.c.  Printing, for all values, buffer sizes and       *)
(* hooks: nothing outside the buffer is touched, no buffer is left behind, *)
(* and what is printed is the whole text of the value.  Lists of items,    *)
(* for all memories: each operation changes one list, as its name says,    *)
(* and deleting frees a tree with its strings, each item once.             *)
(***************************************************************************)
EXTENDS CJsonPrint, ItemLists, FiniteSetTheorems, SequenceTheorems, SequencesExt,
        WellFoundedInduction, TLAPS

-----------------------------------------------------------------------------
(* Sums of sequences of numbers.                                             *)

\* A set of numbers has a least one.
LEMMA Smallest ==
  ASSUME NEW T \in SUBSET Nat, T # {}
  PROVE  \E m \in T : \A k \in T : m <= k
<1> DEFINE U == {0 .. k : k \in T}
<1>1. U \subseteq FiniteSubsetsOf(Nat) /\ U # {}
  <2>1. \A k \in Nat : IsFiniteSet(0 .. k) /\ 0 .. k \subseteq Nat
    BY FS_Interval
  <2> QED
    BY <2>1 DEF FiniteSubsetsOf
<1>2. IsWellFoundedOn(StrictSubsetOrdering(Nat), FiniteSubsetsOf(Nat))
  BY FS_StrictSubsetOrderingWellFounded
<1>3. PICK x \in U : \A y \in U : ~ (<<y, x>> \in StrictSubsetOrdering(Nat))
  BY <1>1, <1>2, WFMin
<1>4. PICK m \in T : x = 0 .. m
  OBVIOUS
<1>5. ASSUME NEW k \in T, k < m PROVE FALSE
  <2>1. 0 .. k \in U /\ 0 .. k \subseteq 0 .. m /\ m \in 0 .. m /\ m \notin 0 .. k
    BY <1>5
  <2>2. 0 .. k # 0 .. m
    BY <2>1
  <2>3. <<0 .. k, 0 .. m>> \in StrictSubsetOrdering(Nat)
    BY <2>1, <2>2 DEF StrictSubsetOrdering
  <2> QED
    BY <1>3, <1>4, <2>1, <2>3
<1> QED
  BY <1>5

\* sum holds the sums of the first numbers of s, n of them at most.
Adds(sum, s, n) == sum = [i \in 0 .. n |-> IF i = 0 THEN 0 ELSE sum[i - 1] + s[i]]

\* Such a function exists, and its values are numbers.
LEMMA SumsExist ==
  ASSUME NEW s \in Seq(Nat)
  PROVE  \E sum : Adds(sum, s, Len(s))
<1> DEFINE T == {n \in 0 .. Len(s) : ~ \E sum : Adds(sum, s, n)}
<1>0. Len(s) \in Nat
  OBVIOUS
<1>1. SUFFICES ASSUME T # {} PROVE FALSE
  <2>1. Len(s) \in 0 .. Len(s)
    BY <1>0
  <2> QED
    BY <1>1, <2>1
<1>2. PICK n \in T : \A k \in T : n <= k
  <2>1. T \in SUBSET Nat
    OBVIOUS
  <2> HIDE DEF T
  <2> QED
    BY <1>1, <2>1, Smallest
<1>3. n \in 0 .. Len(s) /\ ~ \E sum : Adds(sum, s, n)
  BY <1>2
<1>4. n # 0
  <2> DEFINE g == [i \in 0 .. 0 |-> 0]
  <2>1. Adds(g, s, 0)
    BY DEF Adds
  <2> HIDE DEF g
  <2> QED
    BY <1>3, <2>1
<1>5. n - 1 \in 0 .. Len(s) /\ ~(n <= n - 1)
  BY <1>0, <1>3, <1>4
<1>6. n - 1 \notin T
  <2> HIDE DEF T
  <2> QED
    BY <1>2, <1>5
<1>7. PICK f : Adds(f, s, n - 1)
  BY <1>5, <1>6
<1> DEFINE g == [i \in 0 .. n |-> IF i = n THEN f[n - 1] + s[n] ELSE f[i]]
<1>8. ASSUME NEW i \in 0 .. n PROVE g[i] = IF i = 0 THEN 0 ELSE g[i - 1] + s[i]
  <2>1. CASE i = n
    <3>1. n - 1 \in 0 .. n /\ n - 1 # n /\ i # 0
      BY <1>3, <1>4, <2>1
    <3> QED
      BY <2>1, <3>1
  <2>2. CASE i # n /\ i # 0
    <3>1. i \in 0 .. n - 1 /\ i - 1 \in 0 .. n /\ i - 1 # n
      BY <1>3, <2>2
    <3>2. f[i] = f[i - 1] + s[i]
      BY <1>7, <2>2, <3>1 DEF Adds
    <3> QED
      BY <2>2, <3>1, <3>2
  <2>3. CASE i # n /\ i = 0
    <3>1. 0 \in 0 .. n - 1
      BY <1>3, <1>4
    <3>2. f[0] = 0
      BY <1>7, <3>1 DEF Adds
    <3> QED
      BY <2>3, <3>2
  <2> QED
    BY <2>1, <2>2, <2>3
<1>9. Adds(g, s, n)
  <2>1. g = [i \in 0 .. n |-> g[i]]
    OBVIOUS
  <2> HIDE DEF g
  <2> QED
    BY <1>8, <2>1 DEF Adds
<1> HIDE DEF g
<1> QED
  BY <1>3, <1>9

\* What the sums are, and that they do not decrease.
LEMMA SumsAre ==
  ASSUME NEW s \in Seq(Nat)
  PROVE  /\ Sums(s)[0] = 0
         /\ \A i \in 1 .. Len(s) : Sums(s)[i] = Sums(s)[i - 1] + s[i]
         /\ \A i \in 0 .. Len(s) : Sums(s)[i] \in Nat
<1>0. Len(s) \in Nat
  OBVIOUS
<1>1. Adds(Sums(s), s, Len(s))
  <2> DEFINE Def(g) == g = [i \in 0 .. Len(s) |-> IF i = 0 THEN 0 ELSE g[i - 1] + s[i]]
  <2>1. \E g : Def(g)
    BY SumsExist DEF Adds
  <2>2. Def(CHOOSE g : Def(g))
    <3> HIDE DEF Def
    <3> QED
      BY <2>1
  <2>3. Sums(s) = CHOOSE g : Def(g)
    BY DEF Sums
  <2> QED
    BY <2>2, <2>3 DEF Adds
<1>2. Sums(s)[0] = 0
  <2>1. 0 \in 0 .. Len(s)
    BY <1>0
  <2> QED
    BY <1>1, <2>1 DEF Adds
<1>3. ASSUME NEW i \in 1 .. Len(s) PROVE Sums(s)[i] = Sums(s)[i - 1] + s[i]
  <2>1. i \in 0 .. Len(s) /\ i # 0
    BY <1>0
  <2> QED
    BY <1>1, <2>1 DEF Adds
<1> DEFINE T == {i \in 0 .. Len(s) : Sums(s)[i] \notin Nat}
<1>4. T = {}
  <2>1. SUFFICES ASSUME T # {} PROVE FALSE
    OBVIOUS
  <2>2. PICK n \in T : \A k \in T : n <= k
    <3>1. T \in SUBSET Nat
      OBVIOUS
    <3> HIDE DEF T
    <3> QED
      BY <2>1, <3>1, Smallest
  <2>3. n \in 0 .. Len(s) /\ Sums(s)[n] \notin Nat
    BY <2>2
  <2>4. n # 0
    BY <1>2, <2>3
  <2>5. n - 1 \in 0 .. Len(s) /\ ~(n <= n - 1) /\ n \in 1 .. Len(s)
    BY <1>0, <2>3, <2>4
  <2>6. n - 1 \notin T
    <3> HIDE DEF T
    <3> QED
      BY <2>2, <2>5
  <2>7. Sums(s)[n - 1] \in Nat /\ s[n] \in Nat
    BY <2>5, <2>6
  <2> QED
    BY <1>3, <2>3, <2>5, <2>7
<1> QED
  BY <1>2, <1>3, <1>4

LEMMA SumsGrow ==
  ASSUME NEW s \in Seq(Nat), NEW j \in 0 .. Len(s)
  PROVE  Sums(s)[j] <= Sums(s)[Len(s)]
<1> DEFINE T == {d \in 0 .. Len(s) - j : ~(Sums(s)[j] <= Sums(s)[j + d])}
<1>0. Len(s) \in Nat /\ j \in Nat
  OBVIOUS
<1>1. T = {}
  <2>1. SUFFICES ASSUME T # {} PROVE FALSE
    OBVIOUS
  <2>2. PICK n \in T : \A k \in T : n <= k
    <3>1. T \in SUBSET Nat
      BY <1>0
    <3> HIDE DEF T
    <3> QED
      BY <2>1, <3>1, Smallest
  <2>3. n \in 0 .. Len(s) - j /\ ~(Sums(s)[j] <= Sums(s)[j + n])
    BY <2>2
  <2>4. Sums(s)[j] \in Nat
    BY SumsAre
  <2>5. n # 0
    BY <1>0, <2>3, <2>4
  <2>6. n - 1 \in 0 .. Len(s) - j /\ ~(n <= n - 1) /\ j + n \in 1 .. Len(s)
        /\ j + n - 1 = j + (n - 1) /\ j + (n - 1) \in 0 .. Len(s)
    BY <1>0, <2>3, <2>5
  <2>7. n - 1 \notin T
    <3> HIDE DEF T
    <3> QED
      BY <2>2, <2>6
  <2>8. Sums(s)[j] <= Sums(s)[j + (n - 1)]
    BY <2>6, <2>7
  <2>9. Sums(s)[j + n] = Sums(s)[j + (n - 1)] + s[j + n]
    BY <2>6, SumsAre
  <2>10. s[j + n] \in Nat /\ Sums(s)[j + (n - 1)] \in Nat
    BY <2>6, SumsAre
  <2> QED
    BY <2>3, <2>4, <2>8, <2>9, <2>10
<1>2. Len(s) - j \in 0 .. Len(s) - j /\ j + (Len(s) - j) = Len(s)
  BY <1>0
<1> QED
  BY <1>1, <1>2

-----------------------------------------------------------------------------
(* The size of a text.                                                       *)

\* The sizes of the members of a box whose texts are as f says; depth is theirs.
SizesBy(f, doc, fmt, depth) ==
  [i \in 1 .. Len(doc.items) |->
    MemberSize(doc, i, fmt, depth, f[doc.items[i]][fmt][depth])]

\* The size of a text, when those of the members are as f says.
Texts(f, doc) ==
  [fmt \in BOOLEAN |-> [depth \in Nat |->
    TextOf(doc, fmt, depth, SizesBy(f, doc, fmt, depth + 1))]]

\* The values less than k deep.
Below(k) == {doc \in Docs : Height[doc] < k}

MembersOf(doc) == {doc.items[i] : i \in 1 .. Len(doc.items)}

\* f says of each of them what the text of its members implies.
Fixed(f, k) == f = [doc \in Below(k) |-> Texts(f, doc)]

\* A value has its members, which are values less deep, in a sequence.
LEMMA DocIs ==
  ASSUME NEW doc \in Docs
  PROVE  /\ doc.kind \in Kinds /\ doc.size \in Nat /\ doc.name \in Nat
         /\ doc.items \in Seq(Docs) /\ Len(doc.items) \in Nat
         /\ Height[doc] \in Nat
         /\ \A e \in MembersOf(doc) : e \in Docs /\ Height[e] \in Nat /\ Height[e] < Height[doc]
<1>1. doc \in [kind : Kinds, size : Nat, name : Nat, items : Seq(Docs)]
  BY CJsonPrintAssumption
<1>2. /\ doc.kind \in Kinds /\ doc.size \in Nat /\ doc.name \in Nat
      /\ doc.items \in Seq(Docs)
  BY <1>1
<1>3. Len(doc.items) \in Nat /\ DOMAIN doc.items = 1 .. Len(doc.items)
  BY <1>2
<1>4. ASSUME NEW i \in 1 .. Len(doc.items)
      PROVE  /\ doc.items[i] \in Docs /\ Height[doc.items[i]] \in Nat
             /\ Height[doc.items[i]] < Height[doc]
  <2>1. doc.items[i] \in Docs
    BY <1>2
  <2> QED
    BY <2>1, <1>3, CJsonPrintAssumption
<1>5. Height[doc] \in Nat
  BY CJsonPrintAssumption
<1> QED
  BY <1>2, <1>3, <1>4, <1>5 DEF MembersOf

\* The text of a value depends on those of its members alone.
LEMMA TextsSame ==
  ASSUME NEW doc \in Docs, NEW f, NEW g, \A e \in MembersOf(doc) : f[e] = g[e]
  PROVE  Texts(f, doc) = Texts(g, doc)
<1>1. ASSUME NEW fmt \in BOOLEAN, NEW depth \in Nat
      PROVE  SizesBy(f, doc, fmt, depth + 1) = SizesBy(g, doc, fmt, depth + 1)
  <2>1. \A i \in 1 .. Len(doc.items) : f[doc.items[i]] = g[doc.items[i]]
    BY DEF MembersOf
  <2> QED
    BY <2>1 DEF SizesBy
<1> QED
  BY <1>1 DEF Texts

LEMMA FixedAgree ==
  ASSUME NEW j \in Nat, NEW k \in Nat, NEW f, NEW g, Fixed(f, j), Fixed(g, k)
  PROVE  \A doc \in Below(j) \cap Below(k) : f[doc] = g[doc]
<1> DEFINE Bad == {doc \in Below(j) \cap Below(k) : f[doc] # g[doc]}
    T == {Height[doc] : doc \in Bad}
<1>1. SUFFICES ASSUME Bad # {} PROVE FALSE
  OBVIOUS
<1>2. PICK n \in T : \A h \in T : n <= h
  <2>1. T # {} /\ T \in SUBSET Nat
    BY <1>1, DocIs DEF Below
  <2> HIDE DEF T
  <2> QED
    BY <2>1, Smallest
<1>3. PICK doc \in Bad : Height[doc] = n
  BY <1>2
<1>4. /\ doc \in Docs /\ doc \in Below(j) /\ doc \in Below(k)
      /\ f[doc] # g[doc] /\ Height[doc] \in Nat
  BY <1>3, DocIs DEF Below
<1>5. ASSUME NEW e \in MembersOf(doc) PROVE f[e] = g[e]
  <2>1. e \in Docs /\ Height[e] \in Nat /\ Height[e] < Height[doc]
    BY <1>4, DocIs
  <2>2. ~(n <= Height[e])
    BY <1>3, <1>4, <2>1
  <2>3. Height[e] \notin T
    <3> HIDE DEF T
    <3> QED
      BY <1>2, <2>2
  <2>4. e \notin Bad
    BY <2>3
  <2>5. e \in Below(j) /\ e \in Below(k)
    <3>1. Height[doc] < j /\ Height[doc] < k
      BY <1>4 DEF Below
    <3> QED
      BY <2>1, <3>1, <1>4 DEF Below
  <2> QED
    BY <2>4, <2>5
<1>6. f[doc] = Texts(f, doc) /\ g[doc] = Texts(g, doc)
  BY <1>4 DEF Fixed
<1> QED
  BY <1>4, <1>5, <1>6, TextsSame

\* There is such a function for the values of every depth.
LEMMA FixedExist ==
  ASSUME NEW k0 \in Nat
  PROVE  \E f : Fixed(f, k0)
<1> DEFINE T == {k \in Nat : ~ \E f : Fixed(f, k)}
<1>1. SUFFICES ASSUME T # {} PROVE FALSE
  OBVIOUS
<1>2. PICK n \in T : \A k \in T : n <= k
  <2>1. T \in SUBSET Nat
    OBVIOUS
  <2> HIDE DEF T
  <2> QED
    BY <1>1, <2>1, Smallest
<1>3. n \in Nat /\ ~ \E f : Fixed(f, n)
  BY <1>2
<1>4. n # 0
  <2>1. Below(0) = {}
    BY DocIs DEF Below
  <2> DEFINE g == [doc \in Below(0) |-> 0]
  <2>2. Fixed(g, 0)
    BY <2>1 DEF Fixed
  <2> HIDE DEF g
  <2> QED
    BY <1>3, <2>2
<1>5. n - 1 \in Nat /\ ~(n <= n - 1)
  BY <1>3, <1>4
<1>6. n - 1 \notin T
  <2> HIDE DEF T
  <2> QED
    BY <1>2, <1>5
<1>7. PICK f : Fixed(f, n - 1)
  BY <1>5, <1>6
<1> DEFINE g == [doc \in Below(n) |-> Texts(f, doc)]
<1>8. ASSUME NEW doc \in Below(n), NEW e \in MembersOf(doc) PROVE f[e] = g[e]
  <2>1. doc \in Docs /\ Height[doc] < n
    BY DEF Below
  <2>2. e \in Docs /\ Height[e] \in Nat /\ Height[e] < Height[doc] /\ Height[doc] \in Nat
    BY <2>1, DocIs
  <2>3. Height[e] < n - 1 /\ Height[e] < n
    BY <1>3, <2>1, <2>2
  <2>4. e \in Below(n - 1) /\ e \in Below(n)
    BY <2>2, <2>3 DEF Below
  <2>5. f[e] = Texts(f, e)
    BY <1>7, <2>4 DEF Fixed
  <2> QED
    BY <2>4, <2>5
<1>9. Fixed(g, n)
  <2>1. ASSUME NEW doc \in Below(n) PROVE Texts(f, doc) = Texts(g, doc)
    <3>1. doc \in Docs
      BY DEF Below
    <3> HIDE DEF g
    <3> QED
      BY <1>8, <3>1, TextsSame
  <2> QED
    BY <2>1 DEF Fixed
<1> HIDE DEF g
<1> QED
  BY <1>3, <1>9

\* TextSize is what its definition says.
LEMMA TextSizeIs ==
  ASSUME NEW doc \in Docs
  PROVE  TextSize[doc] = Texts(TextSize, doc)
<1> DEFINE Def(g) == g = [d \in Docs |-> Texts(g, d)]
    F(k) == CHOOSE f : Fixed(f, k)
    G == [d \in Docs |-> F(Height[d] + 1)[d]]
<1>1. \A k \in Nat : Fixed(F(k), k)
  BY FixedExist
<1> HIDE DEF F
<1>2. ASSUME NEW d \in Docs PROVE G[d] = Texts(G, d)
  <2>1. Height[d] \in Nat /\ Height[d] + 1 \in Nat /\ d \in Below(Height[d] + 1)
    BY DocIs DEF Below
  <2> DEFINE f == F(Height[d] + 1)
  <2>2. Fixed(f, Height[d] + 1) /\ G[d] = f[d]
    BY <1>1, <2>1
  <2>3. f[d] = Texts(f, d)
    BY <2>1, <2>2 DEF Fixed
  <2>4. ASSUME NEW e \in MembersOf(d) PROVE f[e] = G[e]
    <3>1. e \in Docs /\ Height[e] \in Nat /\ Height[e] + 1 \in Nat /\ Height[e] < Height[d]
      BY DocIs
    <3>2. e \in Below(Height[e] + 1) /\ e \in Below(Height[d] + 1)
      BY <2>1, <3>1 DEF Below
    <3>3. Fixed(F(Height[e] + 1), Height[e] + 1) /\ G[e] = F(Height[e] + 1)[e]
      BY <1>1, <3>1
    <3> HIDE DEF G, f
    <3> QED
      BY <2>1, <2>2, <3>1, <3>2, <3>3, FixedAgree
  <2> HIDE DEF G, f
  <2>5. Texts(f, d) = Texts(G, d)
    BY <2>4, TextsSame
  <2> QED
    BY <2>2, <2>3, <2>5
<1>3. Def(G)
  <2>1. G = [d \in Docs |-> G[d]]
    OBVIOUS
  <2> HIDE DEF G
  <2> QED
    BY <1>2, <2>1
<1>4. Def(CHOOSE g : Def(g))
  <2> HIDE DEF Def, G
  <2> QED
    BY <1>3
<1>5. TextSize = CHOOSE g : Def(g)
  BY DEF TextSize, Texts, SizesBy
<1>6. TextSize = [d \in Docs |-> Texts(TextSize, d)]
  BY <1>4, <1>5
<1> QED
  BY <1>6

\* The sizes of the members of a box, and of a text.
MemberSizes(doc, fmt, depth) == SizesBy(TextSize, doc, fmt, depth)

LEMMA TextSizeAt ==
  ASSUME NEW doc \in Docs, NEW fmt \in BOOLEAN, NEW depth \in Nat
  PROVE  TextSize[doc][fmt][depth] = TextOf(doc, fmt, depth, MemberSizes(doc, fmt, depth + 1))
<1>1. Texts(TextSize, doc)[fmt] =
        [d \in Nat |-> TextOf(doc, fmt, d, SizesBy(TextSize, doc, fmt, d + 1))]
  BY Zenon DEF Texts
<1>2. TextSize[doc][fmt][depth] = TextOf(doc, fmt, depth, SizesBy(TextSize, doc, fmt, depth + 1))
  <2>1. TextSize[doc][fmt] = Texts(TextSize, doc)[fmt]
    BY TextSizeIs, Zenon
  <2> QED
    BY <1>1, <2>1, Zenon
<1> QED
  BY <1>2 DEF MemberSizes

LEMMA WideIs ==
  ASSUME NEW fmt \in BOOLEAN, NEW doc
  PROVE  Wide(fmt) \in {1, 2} /\ Comma(doc, fmt) \in {1, 2}
BY DEF Wide, Comma

LEMMA TextOfNat ==
  ASSUME NEW doc \in Docs, NEW fmt \in BOOLEAN, NEW depth \in Nat,
         NEW sizes \in Seq(Nat)
  PROVE  TextOf(doc, fmt, depth, sizes) \in Nat
<1>1. doc.kind \in Kinds /\ doc.size \in Nat
  BY DocIs
<1>2. Len(sizes) \in Nat /\ Len(sizes) \in 0 .. Len(sizes)
  OBVIOUS
<1>3. Sums(sizes)[Len(sizes)] \in Nat
  BY <1>2, SumsAre
<1>4. (IF Len(sizes) = 0 THEN 0 ELSE Comma(doc, fmt) * (Len(sizes) - 1)) \in Nat
  <2>1. CASE Comma(doc, fmt) = 1
    BY <1>2, <2>1
  <2>2. CASE Comma(doc, fmt) = 2
    BY <1>2, <2>2
  <2> QED
    BY <2>1, <2>2, WideIs
<1>5. (IF doc.kind = "object" /\ fmt THEN depth + 1 ELSE 0) \in Nat
  OBVIOUS
<1>6. 2 + Sums(sizes)[Len(sizes)]
        + (IF Len(sizes) = 0 THEN 0 ELSE Comma(doc, fmt) * (Len(sizes) - 1))
        + (IF doc.kind = "object" /\ fmt THEN depth + 1 ELSE 0) \in Nat
  BY <1>3, <1>4, <1>5
<1>7. CASE doc.kind \in Boxes
  <2>1. TextOf(doc, fmt, depth, sizes)
          = 2 + Sums(sizes)[Len(sizes)]
              + (IF Len(sizes) = 0 THEN 0 ELSE Comma(doc, fmt) * (Len(sizes) - 1))
              + (IF doc.kind = "object" /\ fmt THEN depth + 1 ELSE 0)
    BY <1>7 DEF TextOf, Boxes
  <2> QED
    BY <1>6, <2>1
<1>8. CASE doc.kind \notin Boxes
  BY <1>1, <1>8 DEF TextOf, Kinds, Boxes
<1> QED
  BY <1>7, <1>8

LEMMA MemberSizeNat ==
  ASSUME NEW doc \in Docs, NEW i \in 1 .. Len(doc.items), NEW fmt \in BOOLEAN,
         NEW depth \in Nat, NEW size \in Nat
  PROVE  MemberSize(doc, i, fmt, depth, size) \in Nat
<1>1. doc.items[i] \in Docs
  BY DocIs DEF MembersOf
<1>2. doc.items[i].name \in Nat
  BY <1>1, DocIs
<1> QED
  BY <1>2 DEF MemberSize

LEMMA TextSizeNat ==
  \A doc \in Docs, fmt \in BOOLEAN, depth \in Nat : TextSize[doc][fmt][depth] \in Nat
<1> DEFINE Bad == {doc \in Docs : ~ \A fmt \in BOOLEAN, depth \in Nat :
                                    TextSize[doc][fmt][depth] \in Nat}
    T == {Height[doc] : doc \in Bad}
<1>1. SUFFICES ASSUME Bad # {} PROVE FALSE
  OBVIOUS
<1>2. PICK n \in T : \A h \in T : n <= h
  <2>1. T # {} /\ T \in SUBSET Nat
    BY <1>1, DocIs
  <2> HIDE DEF T
  <2> QED
    BY <2>1, Smallest
<1>3. PICK doc \in Bad : Height[doc] = n
  BY <1>2
<1>4. doc \in Docs /\ Height[doc] \in Nat
  BY <1>3, DocIs
<1>5. PICK fmt \in BOOLEAN, depth \in Nat : TextSize[doc][fmt][depth] \notin Nat
  BY <1>3
<1>6. ASSUME NEW e \in MembersOf(doc)
      PROVE  TextSize[e][fmt][depth + 1] \in Nat
  <2>1. e \in Docs /\ Height[e] \in Nat /\ Height[e] < Height[doc]
    BY <1>4, DocIs
  <2>2. ~(n <= Height[e])
    BY <1>3, <1>4, <2>1
  <2>3. Height[e] \notin T
    <3> HIDE DEF T
    <3> QED
      BY <1>2, <2>2
  <2>4. e \notin Bad
    BY <2>3
  <2>5. depth + 1 \in Nat
    OBVIOUS
  <2> QED
    BY <2>1, <2>4, <2>5
<1>7. MemberSizes(doc, fmt, depth + 1) \in Seq(Nat)
  <2>1. ASSUME NEW i \in 1 .. Len(doc.items)
        PROVE  MemberSize(doc, i, fmt, depth + 1,
                          TextSize[doc.items[i]][fmt][depth + 1]) \in Nat
    <3>1. TextSize[doc.items[i]][fmt][depth + 1] \in Nat
      BY <1>6 DEF MembersOf
    <3>2. depth + 1 \in Nat
      OBVIOUS
    <3> QED
      BY <1>4, <3>1, <3>2, MemberSizeNat
  <2>2. Len(doc.items) \in Nat
    BY <1>4, DocIs
  <2> QED
    BY <2>1, <2>2 DEF MemberSizes, SizesBy
<1>8. TextOf(doc, fmt, depth, MemberSizes(doc, fmt, depth + 1)) \in Nat
  BY <1>4, <1>7, TextOfNat
<1> QED
  BY <1>4, <1>5, <1>8, TextSizeAt

\* The sizes of the members are numbers, one for each.
LEMMA SizesAre ==
  ASSUME NEW doc \in Docs, NEW fmt \in BOOLEAN, NEW depth \in Nat
  PROVE  /\ MemberSizes(doc, fmt, depth) \in Seq(Nat)
         /\ Len(MemberSizes(doc, fmt, depth)) = Len(doc.items)
         /\ \A i \in 1 .. Len(doc.items) :
              MemberSizes(doc, fmt, depth)[i]
                = MemberSize(doc, i, fmt, depth, TextSize[doc.items[i]][fmt][depth])
<1>1. Len(doc.items) \in Nat
  BY DocIs
<1>2. ASSUME NEW i \in 1 .. Len(doc.items)
      PROVE  MemberSize(doc, i, fmt, depth, TextSize[doc.items[i]][fmt][depth]) \in Nat
  <2>1. doc.items[i] \in Docs
    BY DocIs DEF MembersOf
  <2>2. TextSize[doc.items[i]][fmt][depth] \in Nat
    BY <2>1, TextSizeNat
  <2> QED
    BY <2>2, MemberSizeNat
<1> QED
  BY <1>1, <1>2 DEF MemberSizes, SizesBy

\* The text of the members of a box from the i-th on, with their commas.
Left(doc, i, fmt, depth) ==
  LET n == Len(doc.items)
      sums == Sums(MemberSizes(doc, fmt, depth))
  IN sums[n] - sums[i - 1] + (IF i < n THEN Comma(doc, fmt) * (n - i) ELSE 0)

LEMMA LeftNat ==
  ASSUME NEW doc \in Docs, NEW fmt \in BOOLEAN, NEW depth \in Nat,
         NEW i \in 1 .. Len(doc.items) + 1
  PROVE  Left(doc, i, fmt, depth) \in Nat
<1> DEFINE n == Len(doc.items)
    m == MemberSizes(doc, fmt, depth)
<1>1. n \in Nat /\ m \in Seq(Nat) /\ Len(m) = n
  BY DocIs, SizesAre
<1>2. i - 1 \in 0 .. n /\ n \in 0 .. n
  BY <1>1
<1>3. Sums(m)[i - 1] \in Nat /\ Sums(m)[n] \in Nat /\ Sums(m)[i - 1] <= Sums(m)[n]
  <2> HIDE DEF m, n
  <2> QED
    BY <1>1, <1>2, SumsAre, SumsGrow
<1>4. (IF i < n THEN Comma(doc, fmt) * (n - i) ELSE 0) \in Nat
  <2>1. CASE Comma(doc, fmt) = 1
    BY <1>1, <2>1
  <2>2. CASE Comma(doc, fmt) = 2
    BY <1>1, <2>2
  <2> QED
    BY <2>1, <2>2, WideIs
<1> HIDE DEF n, m
<1>5. Sums(m)[n] - Sums(m)[i - 1] \in Nat
  BY <1>3
<1> QED
  BY <1>4, <1>5 DEF Left, n, m

\* A box is its brackets and what stands between them.
LEMMA LeftFirst ==
  ASSUME NEW doc \in Docs, NEW fmt \in BOOLEAN, NEW depth \in Nat, doc.kind \in Boxes
  PROVE  TextSize[doc][fmt][depth]
           = 2 + Left(doc, 1, fmt, depth + 1) + (IF doc.kind = "object" /\ fmt THEN depth + 1 ELSE 0)
<1> DEFINE n == Len(doc.items)
    m == MemberSizes(doc, fmt, depth + 1)
<1>1. n \in Nat /\ m \in Seq(Nat) /\ Len(m) = n
  BY DocIs, SizesAre
<1>2. TextSize[doc][fmt][depth] = TextOf(doc, fmt, depth, m)
  BY TextSizeAt
<1> HIDE DEF n, m
<1>3. TextOf(doc, fmt, depth, m)
        = 2 + Sums(m)[n] + (IF n = 0 THEN 0 ELSE Comma(doc, fmt) * (n - 1))
            + (IF doc.kind = "object" /\ fmt THEN depth + 1 ELSE 0)
  BY <1>1 DEF TextOf, Boxes
<1>4. Left(doc, 1, fmt, depth + 1)
        = Sums(m)[n] - Sums(m)[0] + (IF 1 < n THEN Comma(doc, fmt) * (n - 1) ELSE 0)
  BY DEF Left, n, m
<1>5. Sums(m)[0] = 0 /\ Sums(m)[n] \in Nat
  BY <1>1, SumsAre
<1>6. (IF n = 0 THEN 0 ELSE Comma(doc, fmt) * (n - 1))
        = (IF 1 < n THEN Comma(doc, fmt) * (n - 1) ELSE 0)
  <2>1. CASE Comma(doc, fmt) = 1
    BY <1>1, <2>1
  <2>2. CASE Comma(doc, fmt) = 2
    BY <1>1, <2>2
  <2> QED
    BY <2>1, <2>2, WideIs
<1>7. (IF 1 < n THEN Comma(doc, fmt) * (n - 1) ELSE 0) \in Nat
  <2>1. CASE Comma(doc, fmt) = 1
    BY <1>1, <2>1
  <2>2. CASE Comma(doc, fmt) = 2
    BY <1>1, <2>2
  <2> QED
    BY <2>1, <2>2, WideIs
<1>8. PICK c \in Nat : c = IF 1 < n THEN Comma(doc, fmt) * (n - 1) ELSE 0
  BY <1>7
<1>9. PICK d \in Nat : d = IF doc.kind = "object" /\ fmt THEN depth + 1 ELSE 0
  OBVIOUS
<1>10. Left(doc, 1, fmt, depth + 1) = Sums(m)[n] + c
  BY <1>4, <1>5, <1>8
<1>11. TextSize[doc][fmt][depth] = 2 + Sums(m)[n] + c + d
  BY <1>2, <1>3, <1>6, <1>8, <1>9
<1>12. TextSize[doc][fmt][depth] = 2 + Left(doc, 1, fmt, depth + 1) + d
  BY <1>5, <1>10, <1>11
<1> QED
  BY <1>9, <1>12

\* The i-th member, a comma if it is not the last, and the rest.
LEMMA LeftNext ==
  ASSUME NEW doc \in Docs, NEW fmt \in BOOLEAN, NEW depth \in Nat,
         NEW i \in 1 .. Len(doc.items)
  PROVE  Left(doc, i, fmt, depth)
           = MemberSize(doc, i, fmt, depth, TextSize[doc.items[i]][fmt][depth])
             + (IF i < Len(doc.items) THEN Comma(doc, fmt) ELSE 0)
             + Left(doc, i + 1, fmt, depth)
<1> DEFINE n == Len(doc.items)
    m == MemberSizes(doc, fmt, depth)
    Commas(k) == IF k < n THEN Comma(doc, fmt) * (n - k) ELSE 0
<1>1. n \in Nat /\ m \in Seq(Nat) /\ Len(m) = n
  BY DocIs, SizesAre
<1>2. m[i] = MemberSize(doc, i, fmt, depth, TextSize[doc.items[i]][fmt][depth])
  BY SizesAre
<1>3. Left(doc, i, fmt, depth) = Sums(m)[n] - Sums(m)[i - 1] + Commas(i)
  BY DEF Left
<1>4. Left(doc, i + 1, fmt, depth) = Sums(m)[n] - Sums(m)[i] + Commas(i + 1)
  <2>1. i + 1 - 1 = i
    OBVIOUS
  <2> QED
    BY <2>1 DEF Left
<1>5. Commas(i) = (IF i < n THEN Comma(doc, fmt) ELSE 0) + Commas(i + 1)
      /\ Commas(i) \in Nat /\ Commas(i + 1) \in Nat
  <2>1. PICK c \in {1, 2} : c = Comma(doc, fmt)
    BY WideIs
  <2>2. i \in Nat /\ i <= n
    BY <1>1
  <2>3. CASE i = n
    BY <1>1, <2>1, <2>2, <2>3
  <2>4. CASE i < n
    <3>1. PICK k \in Nat : n = i + 1 + k
      <4> HIDE DEF n, m
      <4>1. n - i - 1 \in Nat /\ n = i + 1 + (n - i - 1)
        BY <1>1, <2>2, <2>4
      <4> QED
        BY <4>1
    <3>2. n - i = k + 1 /\ n - (i + 1) = k
      BY <2>2, <3>1
    <3>3. i + 1 < n <=> k # 0
      BY <2>2, <3>1
    <3>4. Commas(i) = c * (k + 1)
      BY <2>1, <2>4, <3>2
    <3>5. Commas(i + 1) = c * k
      BY <2>1, <3>1, <3>2, <3>3
    <3>6. c * (k + 1) = c + c * k /\ c * (k + 1) \in Nat /\ c * k \in Nat
      BY <2>1, <3>1
    <3> HIDE DEF Commas
    <3> QED
      BY <2>1, <2>4, <3>4, <3>5, <3>6
  <2> QED
    BY <2>2, <2>3, <2>4, <1>1
<1>6. i \in 1 .. n /\ i - 1 \in 0 .. n /\ n \in 0 .. n /\ i \in 0 .. n
  BY <1>1
<1> HIDE DEF m, n, Commas
<1>7. /\ Sums(m)[i] = Sums(m)[i - 1] + m[i]
      /\ Sums(m)[i - 1] \in Nat /\ Sums(m)[n] \in Nat /\ m[i] \in Nat
  <2>1. Sums(m)[i] = Sums(m)[i - 1] + m[i]
    BY <1>1, <1>6, SumsAre
  <2>2. Sums(m)[i - 1] \in Nat /\ Sums(m)[n] \in Nat
    BY <1>1, <1>6, SumsAre
  <2>3. m[i] \in Nat
    BY <1>1, <1>6
  <2> QED
    BY <2>1, <2>2, <2>3
<1>8. (IF i < n THEN Comma(doc, fmt) ELSE 0) \in Nat
  BY WideIs
<1>9. Left(doc, i, fmt, depth)
        = m[i] + (IF i < n THEN Comma(doc, fmt) ELSE 0) + Left(doc, i + 1, fmt, depth)
  BY <1>3, <1>4, <1>5, <1>7, <1>8
<1> QED
  BY <1>2, <1>9 DEF n

LEMMA LeftDone ==
  ASSUME NEW doc \in Docs, NEW fmt \in BOOLEAN, NEW depth \in Nat
  PROVE  Left(doc, Len(doc.items) + 1, fmt, depth) = 0
<1> DEFINE n == Len(doc.items)
    m == MemberSizes(doc, fmt, depth)
<1>1. n \in Nat /\ m \in Seq(Nat) /\ Len(m) = n
  BY DocIs, SizesAre
<1>2. n + 1 - 1 = n /\ ~(n + 1 < n)
  BY <1>1
<1>3. Left(doc, n + 1, fmt, depth) = Sums(m)[n] - Sums(m)[n] + 0
  BY <1>2 DEF Left
<1> HIDE DEF m, n
<1>4. Sums(m)[n] \in Nat
  BY <1>1, SumsAre
<1>5. Left(doc, n + 1, fmt, depth) = 0
  BY <1>3, <1>4
<1> QED
  BY <1>5 DEF n

-----------------------------------------------------------------------------
(* What is left to print.                                                    *)

PutWork ==
  {w \in [do : {"put"}, need : Nat, put : Nat, end : BOOLEAN, advance : Nat] :
     /\ w.put <= w.need /\ w.need <= w.put + 1
     /\ w.advance = w.put \/ (w.advance = 0 /\ w.end)}
ScanWork == [do : {"scan"}]
ValueWork == [do : {"value"}, doc : Docs, depth : Nat]
MembersWork ==
  {w \in [do : {"members"}, doc : Docs, i : Nat, depth : Nat] :
     w.doc.kind \in Boxes /\ w.i \in 1 .. Len(w.doc.items) + 1}
Work == PutWork \cup ScanWork \cup ValueWork \cup MembersWork

\* The characters it prints.
Chars(w, fmt) ==
  CASE w.do = "put" -> w.put
    [] w.do = "scan" -> 0
    [] w.do = "value" -> TextSize[w.doc][fmt][w.depth]
    [] w.do = "members" -> Left(w.doc, w.i, fmt, w.depth)

\* It leaves a NUL behind; it may leave the offset before what it printed.
Ends(w) == w.do = "value" \/ (w.do = "put" /\ w.end)
Lags(w) == w.do = "value" \/ (w.do = "put" /\ w.advance # w.put)

\* w can be printed before r.
Closed(r) == r = <<>> \/ Head(r).do = "scan"
Fit(w, r) == (Closed(r) => Ends(w)) /\ (Lags(w) => Closed(r))

\* Each piece fits what follows it, and at its place a in the text begins what is left
\* of the z characters.
AllFit(r) == \A i \in 1 .. Len(r) :
  /\ (i = Len(r) \/ r[i + 1].do = "scan") => Ends(r[i])
  /\ Lags(r[i]) => (i = Len(r) \/ r[i + 1].do = "scan")

Lies(r, fmt, a, z) ==
  \E at \in [1 .. Len(r) + 1 -> 0 .. z] :
    /\ at[1] = a /\ at[Len(r) + 1] = z
    /\ \A i \in 1 .. Len(r) : at[i + 1] = at[i] + Chars(r[i], fmt)

Good(r, fmt, a, z) == r \in Seq(Work) /\ AllFit(r) /\ Lies(r, fmt, a, z)

LEMMA CharsNat ==
  ASSUME NEW w \in Work, NEW fmt \in BOOLEAN
  PROVE  Chars(w, fmt) \in Nat
<1>1. CASE w \in PutWork
  BY <1>1 DEF PutWork, Chars
<1>2. CASE w \in ScanWork
  BY <1>2 DEF ScanWork, Chars
<1>3. CASE w \in ValueWork
  <2>1. w.do = "value" /\ w.doc \in Docs /\ w.depth \in Nat
    BY <1>3 DEF ValueWork
  <2>2. TextSize[w.doc][fmt][w.depth] \in Nat
    BY <2>1, TextSizeNat
  <2> QED
    BY <2>1, <2>2 DEF Chars
<1>4. CASE w \in MembersWork
  <2>1. /\ w.do = "members" /\ w.doc \in Docs /\ w.depth \in Nat
        /\ w.i \in 1 .. Len(w.doc.items) + 1
    BY <1>4 DEF MembersWork
  <2>2. Left(w.doc, w.i, fmt, w.depth) \in Nat
    BY <2>1, LeftNat
  <2> QED
    BY <2>1, <2>2 DEF Chars
<1> QED
  BY <1>1, <1>2, <1>3, <1>4 DEF Work

\* The whole text is printed.
LEMMA GoodEmpty ==
  ASSUME NEW fmt, NEW z \in Nat
  PROVE  Good(<<>>, fmt, z, z)
<1> DEFINE at == [i \in 1 .. 1 |-> z]
<1>1. at \in [1 .. 0 + 1 -> 0 .. z] /\ at[1] = z
  OBVIOUS
<1>2. Len(<<>>) = 0 /\ <<>> \in Seq(Work)
  OBVIOUS
<1>3. Lies(<<>>, fmt, z, z)
  <2>1. Len(<<>>) + 1 = 1 /\ 1 .. Len(<<>>) = {}
    OBVIOUS
  <2> HIDE DEF at
  <2> QED
    BY <1>1, <2>1 DEF Lies
<1> QED
  BY <1>2, <1>3 DEF Good, AllFit

LEMMA GoodWhole ==
  ASSUME NEW fmt, NEW a, NEW z, Good(<<>>, fmt, a, z)
  PROVE  a = z
<1>1. PICK at : at[1] = a /\ at[Len(<<>>) + 1] = z
  BY DEF Good, Lies
<1> QED
  BY <1>1

\* A piece more before what is left.
LEMMA Prepend ==
  ASSUME NEW fmt \in BOOLEAN, NEW a \in Nat, NEW z \in Nat, NEW w \in Work, NEW r,
         Good(r, fmt, a + Chars(w, fmt), z), Fit(w, r)
  PROVE  Good(<<w>> \o r, fmt, a, z)
<1> DEFINE n == Len(r)
    q == <<w>> \o r
<1>1. r \in Seq(Work) /\ n \in Nat
  BY DEF Good
<1>2. /\ q \in Seq(Work) /\ Len(q) = n + 1 /\ q[1] = w
      /\ \A i \in 1 .. n : q[i + 1] = r[i]
  <2>1. <<w>> \in Seq(Work) /\ Len(<<w>>) = 1 /\ <<w>>[1] = w
    OBVIOUS
  <2> HIDE DEF n
  <2>2. /\ q \in Seq(Work) /\ Len(q) = 1 + n
        /\ \A i \in 1 .. 1 + n : q[i] = IF i <= 1 THEN <<w>>[i] ELSE r[i - 1]
    BY <1>1, <2>1, ConcatProperties DEF n
  <2>3. Len(q) = n + 1 /\ q[1] = w
    BY <1>1, <2>1, <2>2
  <2>4. ASSUME NEW i \in 1 .. n PROVE q[i + 1] = r[i]
    <3>1. i + 1 \in 1 .. 1 + n /\ ~(i + 1 <= 1) /\ i + 1 - 1 = i
      BY <1>1
    <3> QED
      BY <2>2, <3>1
  <2> QED
    BY <2>2, <2>3, <2>4
<1> HIDE DEF q
<1>3. Closed(r) <=> (n = 0 \/ r[1].do = "scan")
  <2>1. n = 0 <=> r = <<>>
    BY <1>1
  <2>2. r # <<>> => Head(r) = r[1]
    BY <1>1
  <2> QED
    BY <2>1, <2>2 DEF Closed
<1>4. AllFit(q)
  <2> SUFFICES ASSUME NEW i \in 1 .. n + 1
               PROVE  /\ (i = n + 1 \/ q[i + 1].do = "scan") => Ends(q[i])
                      /\ Lags(q[i]) => (i = n + 1 \/ q[i + 1].do = "scan")
    BY <1>2 DEF AllFit
  <2>1. CASE i = 1
    <3>1. n # 0 => q[2] = r[1]
      <4>1. n # 0 => 1 \in 1 .. n
        BY <1>1
      <4> QED
        BY <1>2, <4>1
    <3>2. (n = 0 \/ r[1].do = "scan") <=> (i = n + 1 \/ q[i + 1].do = "scan")
      <4>1. n = 0 <=> i = n + 1
        BY <1>1, <2>1
      <4>2. i + 1 = 2
        BY <2>1
      <4> QED
        BY <3>1, <4>1, <4>2
    <3> QED
      BY <1>2, <1>3, <2>1, <3>2 DEF Fit
  <2>2. CASE i # 1
    <3>1. /\ i - 1 \in 1 .. n /\ i - 1 + 1 = i
          /\ i = n + 1 <=> i - 1 = n
          /\ i - 1 # n => i \in 1 .. n
      BY <1>1, <2>2
    <3>2. q[i] = r[i - 1] /\ (i - 1 # n => q[i + 1] = r[i])
      BY <1>2, <3>1
    <3>3. /\ (i - 1 = n \/ r[i - 1 + 1].do = "scan") => Ends(r[i - 1])
          /\ Lags(r[i - 1]) => (i - 1 = n \/ r[i - 1 + 1].do = "scan")
      BY <3>1 DEF Good, AllFit
    <3> QED
      BY <3>1, <3>2, <3>3
  <2> QED
    BY <2>1, <2>2
<1>5. PICK at \in [1 .. n + 1 -> 0 .. z] :
        /\ at[1] = a + Chars(w, fmt) /\ at[n + 1] = z
        /\ \A i \in 1 .. n : at[i + 1] = at[i] + Chars(r[i], fmt)
  BY DEF Good, Lies
<1>6. Lies(q, fmt, a, z)
  <2> DEFINE bt == [i \in 1 .. n + 2 |-> IF i = 1 THEN a ELSE at[i - 1]]
  <2>1. a \in 0 .. z
    <3>1. at[1] \in 0 .. z
      BY <1>1, <1>5
    <3> QED
      BY <1>5, <3>1, CharsNat
  <2>2. ASSUME NEW i \in 1 .. n + 2 PROVE bt[i] \in 0 .. z
    <3>1. i # 1 => i - 1 \in 1 .. n + 1
      BY <1>1
    <3> QED
      BY <1>5, <2>1, <3>1
  <2>3. bt[1] = a /\ bt[n + 2] = z
    <3>1. 1 \in 1 .. n + 2 /\ n + 2 \in 1 .. n + 2 /\ n + 2 # 1 /\ n + 2 - 1 = n + 1
      BY <1>1
    <3> QED
      BY <1>5, <3>1
  <2>4. ASSUME NEW i \in 1 .. n + 1 PROVE bt[i + 1] = bt[i] + Chars(q[i], fmt)
    <3>1. i + 1 \in 1 .. n + 2 /\ i \in 1 .. n + 2 /\ i + 1 # 1 /\ i + 1 - 1 = i
      BY <1>1
    <3>2. bt[i + 1] = at[i]
      BY <3>1
    <3>3. CASE i = 1
      BY <1>2, <1>5, <3>1, <3>2, <3>3
    <3>4. CASE i # 1
      <4>1. i - 1 \in 1 .. n /\ i - 1 + 1 = i
        BY <1>1, <3>4
      <4>2. at[i] = at[i - 1] + Chars(r[i - 1], fmt) /\ q[i] = r[i - 1]
        BY <1>2, <1>5, <4>1
      <4> QED
        BY <3>1, <3>2, <3>4, <4>2
    <3> QED
      BY <3>3, <3>4
  <2>5. bt \in [1 .. n + 2 -> 0 .. z]
    BY <2>2
  <2>6. Len(q) + 1 = n + 2
    BY <1>1, <1>2
  <2> HIDE DEF bt
  <2> QED
    BY <1>2, <2>3, <2>4, <2>5, <2>6 DEF Lies
<1> QED
  BY <1>2, <1>4, <1>6 DEF Good, q

\* A piece less.
LEMMA Shorten ==
  ASSUME NEW fmt \in BOOLEAN, NEW a \in Nat, NEW z \in Nat, NEW r, r # <<>>,
         Good(r, fmt, a, z)
  PROVE  /\ Head(r) \in Work
         /\ a + Chars(Head(r), fmt) <= z
         /\ Good(Tail(r), fmt, a + Chars(Head(r), fmt), z)
         /\ Fit(Head(r), Tail(r))
<1> DEFINE n == Len(r)
    q == Tail(r)
<1>1. r \in Seq(Work) /\ n \in Nat /\ n # 0 /\ 1 \in 1 .. n
  <2>1. r \in Seq(Work)
    BY DEF Good
  <2> QED
    BY <2>1
<1>2. /\ Head(r) = r[1] /\ r[1] \in Work
      /\ q \in Seq(Work) /\ Len(q) = n - 1
      /\ \A i \in 1 .. n - 1 : q[i] = r[i + 1]
  BY <1>1
<1> HIDE DEF q, n
<1>3. PICK at \in [1 .. n + 1 -> 0 .. z] :
        /\ at[1] = a /\ at[n + 1] = z
        /\ \A i \in 1 .. n : at[i + 1] = at[i] + Chars(r[i], fmt)
  BY DEF Good, Lies, n
<1>4. at[2] = a + Chars(r[1], fmt) /\ at[2] \in 0 .. z
  <2>1. 2 \in 1 .. n + 1 /\ 1 + 1 = 2
    BY <1>1
  <2> QED
    BY <1>1, <1>3, <2>1
<1>5. AllFit(q)
  <2> SUFFICES ASSUME NEW i \in 1 .. n - 1
               PROVE  /\ (i = n - 1 \/ q[i + 1].do = "scan") => Ends(q[i])
                      /\ Lags(q[i]) => (i = n - 1 \/ q[i + 1].do = "scan")
    BY <1>2 DEF AllFit
  <2>1. /\ i + 1 \in 1 .. n
        /\ i + 1 = n <=> i = n - 1
        /\ i # n - 1 => i + 1 \in 1 .. n - 1
    BY <1>1
  <2>2. q[i] = r[i + 1] /\ (i # n - 1 => q[i + 1] = r[i + 1 + 1])
    BY <1>2, <2>1
  <2>3. /\ (i + 1 = n \/ r[i + 1 + 1].do = "scan") => Ends(r[i + 1])
        /\ Lags(r[i + 1]) => (i + 1 = n \/ r[i + 1 + 1].do = "scan")
    BY <2>1 DEF Good, AllFit, n
  <2> QED
    BY <2>1, <2>2, <2>3
<1>6. Lies(q, fmt, a + Chars(r[1], fmt), z)
  <2> DEFINE bt == [i \in 1 .. n |-> at[i + 1]]
  <2>1. bt \in [1 .. n -> 0 .. z]
    <3>1. \A i \in 1 .. n : i + 1 \in 1 .. n + 1
      BY <1>1
    <3> QED
      BY <1>3, <3>1
  <2>2. bt[1] = at[2] /\ bt[n] = z
    <3>1. 1 \in 1 .. n /\ n \in 1 .. n /\ 1 + 1 = 2
      BY <1>1
    <3> QED
      BY <1>3, <3>1
  <2>3. ASSUME NEW i \in 1 .. n - 1 PROVE bt[i + 1] = bt[i] + Chars(q[i], fmt)
    <3>1. i + 1 \in 1 .. n /\ i \in 1 .. n
      BY <1>1
    <3>2. at[i + 1 + 1] = at[i + 1] + Chars(r[i + 1], fmt) /\ q[i] = r[i + 1]
      BY <1>2, <1>3, <3>1
    <3> QED
      BY <3>1, <3>2
  <2>4. Len(q) + 1 = n /\ 1 .. Len(q) = 1 .. n - 1
    BY <1>1, <1>2
  <2> HIDE DEF bt
  <2> QED
    BY <1>4, <2>1, <2>2, <2>3, <2>4 DEF Lies
<1>7. Fit(r[1], q)
  <2>1. Closed(q) <=> (1 = n \/ r[1 + 1].do = "scan")
    <3>1. q = <<>> <=> n = 1
      BY <1>1, <1>2
    <3>2. q # <<>> => Head(q) = q[1] /\ 1 \in 1 .. n - 1
      BY <1>1, <1>2
    <3> QED
      BY <1>2, <3>1, <3>2 DEF Closed
  <2>2. /\ (1 = n \/ r[1 + 1].do = "scan") => Ends(r[1])
        /\ Lags(r[1]) => (1 = n \/ r[1 + 1].do = "scan")
    BY <1>1 DEF Good, AllFit, n
  <2> QED
    BY <2>1, <2>2 DEF Fit
<1> QED
  BY <1>2, <1>4, <1>5, <1>6, <1>7 DEF Good, q

\* How what is left begins.
LEMMA Begins ==
  ASSUME NEW r \in Seq(Work), NEW w \in Work
  PROVE  /\ <<w>> \in Seq(Work) /\ <<w>> \o r \in Seq(Work)
         /\ <<w>> \o r # <<>> /\ Head(<<w>> \o r) = w
         /\ Closed(<<w>> \o r) <=> w.do = "scan"
<1>1. <<w>> \in Seq(Work) /\ Len(<<w>>) = 1 /\ <<w>>[1] = w
  OBVIOUS
<1>2. /\ <<w>> \o r \in Seq(Work) /\ Len(<<w>> \o r) = 1 + Len(r)
      /\ \A i \in 1 .. 1 + Len(r) : (<<w>> \o r)[i] = IF i <= 1 THEN <<w>>[i] ELSE r[i - 1]
  BY <1>1, ConcatProperties
<1>3. Len(r) \in Nat /\ 1 \in 1 .. 1 + Len(r)
  OBVIOUS
<1>4. (<<w>> \o r)[1] = w
  BY <1>1, <1>2, <1>3
<1> DEFINE q == <<w>> \o r
<1> HIDE DEF q
<1>5. q \in Seq(Work) /\ Len(q) # 0 /\ q[1] = w
  BY <1>2, <1>3, <1>4 DEF q
<1>6. q # <<>> /\ Head(q) = w
  BY <1>5
<1> QED
  BY <1>1, <1>2, <1>6 DEF Closed, q

\* x prints c characters before what is left; whether that is Closed, and whether the
\* whole is.
Prints(x, fmt, c, before, after) ==
  /\ x \in Seq(Work) /\ c \in Nat
  /\ \A r \in Seq(Work), a \in Nat, z \in Nat :
       Good(r, fmt, a + c, z) /\ (Closed(r) <=> before) =>
         Good(x \o r, fmt, a, z) /\ (Closed(x \o r) <=> after)

LEMMA OnePrints ==
  ASSUME NEW fmt \in BOOLEAN, NEW w \in Work, NEW before \in BOOLEAN, NEW after \in BOOLEAN,
         before => Ends(w), Lags(w) => before, after <=> w.do = "scan"
  PROVE  Prints(<<w>>, fmt, Chars(w, fmt), before, after)
<1>1. <<w>> \in Seq(Work) /\ Chars(w, fmt) \in Nat
  BY CharsNat
<1>2. ASSUME NEW r \in Seq(Work), NEW a \in Nat, NEW z \in Nat,
             Good(r, fmt, a + Chars(w, fmt), z), Closed(r) <=> before
      PROVE  Good(<<w>> \o r, fmt, a, z) /\ (Closed(<<w>> \o r) <=> after)
  <2>1. Fit(w, r)
    BY <1>2 DEF Fit
  <2>3. Closed(<<w>> \o r) <=> after
    BY Begins
  <2>4. Good(<<w>> \o r, fmt, a, z)
    BY <1>2, <2>1, Prepend
  <2> QED
    BY <2>3, <2>4
<1> QED
  BY <1>1, <1>2 DEF Prints

\* One after the other.
LEMMA Chain ==
  ASSUME NEW fmt \in BOOLEAN, NEW x, NEW y, NEW c, NEW d,
         NEW before \in BOOLEAN, NEW between \in BOOLEAN, NEW after \in BOOLEAN,
         Prints(x, fmt, c, between, after), Prints(y, fmt, d, before, between)
  PROVE  Prints(x \o y, fmt, c + d, before, after)
<1>1. x \in Seq(Work) /\ y \in Seq(Work) /\ c \in Nat /\ d \in Nat
  BY DEF Prints
<1>2. x \o y \in Seq(Work) /\ c + d \in Nat
  BY <1>1, ConcatProperties
<1>3. ASSUME NEW r \in Seq(Work), NEW a \in Nat, NEW z \in Nat,
             Good(r, fmt, a + (c + d), z), Closed(r) <=> before
      PROVE  /\ Good((x \o y) \o r, fmt, a, z)
             /\ Closed((x \o y) \o r) <=> after
  <2>1. a + (c + d) = (a + c) + d /\ a + c \in Nat
    BY <1>1
  <2>2. Good(y \o r, fmt, a + c, z) /\ (Closed(y \o r) <=> between)
    BY <1>3, <2>1 DEF Prints
  <2>3. y \o r \in Seq(Work)
    BY <2>2 DEF Good
  <2>4. Good(x \o (y \o r), fmt, a, z) /\ (Closed(x \o (y \o r)) <=> after)
    BY <2>1, <2>2, <2>3 DEF Prints
  <2>5. (x \o y) \o r = x \o (y \o r)
    BY <1>1, ConcatAssociative
  <2> QED
    BY <2>4, <2>5
<1> QED
  BY <1>2, <1>3 DEF Prints

LEMMA NothingPrints ==
  ASSUME NEW fmt, NEW before
  PROVE  Prints(<<>>, fmt, 0, before, before)
<1>1. ASSUME NEW r \in Seq(Work), NEW a \in Nat, NEW z \in Nat, Good(r, fmt, a + 0, z)
      PROVE  Good(<<>> \o r, fmt, a, z) /\ <<>> \o r = r
  <2>2. <<>> \o r = r
    BY ConcatEmptySeq
  <2>3. a + 0 = a
    OBVIOUS
  <2> QED
    BY <1>1, <2>2, <2>3
<1> QED
  BY <1>1 DEF Prints

LEMMA PutPrints ==
  ASSUME NEW fmt \in BOOLEAN, NEW need \in Nat, NEW put \in Nat, NEW end \in BOOLEAN,
         NEW advance \in Nat, NEW before \in BOOLEAN,
         put <= need, need <= put + 1, advance = put \/ (advance = 0 /\ end),
         before => end, advance # put => before
  PROVE  Prints(Put(need, put, end, advance), fmt, put, before, FALSE)
<1> DEFINE w == [do |-> "put", need |-> need, put |-> put, end |-> end, advance |-> advance]
<1>1. /\ w.do = "put" /\ w.need = need /\ w.put = put /\ w.end = end /\ w.advance = advance
      /\ w \in [do : {"put"}, need : Nat, put : Nat, end : BOOLEAN, advance : Nat]
  OBVIOUS
<1>2. Put(need, put, end, advance) = <<w>>
  BY DEF Put
<1> HIDE DEF w
<1>3. w \in Work
  BY <1>1 DEF Work, PutWork
<1>4. Chars(w, fmt) = put /\ (before => Ends(w)) /\ (Lags(w) => before)
  BY <1>1 DEF Chars, Ends, Lags
<1>5. FALSE <=> w.do = "scan"
  BY <1>1
<1> QED
  BY <1>2, <1>3, <1>4, <1>5, OnePrints

LEMMA ScanPrints ==
  ASSUME NEW fmt \in BOOLEAN
  PROVE  Prints(UpdateOffset, fmt, 0, FALSE, TRUE)
<1> DEFINE w == [do |-> "scan"]
<1>1. w.do = "scan" /\ w \in [do : {"scan"}]
  OBVIOUS
<1>2. UpdateOffset = <<w>>
  BY DEF UpdateOffset
<1> HIDE DEF w
<1>3. w \in Work
  BY <1>1 DEF Work, ScanWork
<1>4. Chars(w, fmt) = 0 /\ ~Lags(w) /\ (TRUE <=> w.do = "scan")
  BY <1>1 DEF Chars, Lags
<1> QED
  BY <1>2, <1>3, <1>4, OnePrints

LEMMA ValuePrints ==
  ASSUME NEW fmt \in BOOLEAN, NEW doc \in Docs, NEW depth \in Nat
  PROVE  Prints(Value(doc, depth), fmt, TextSize[doc][fmt][depth], TRUE, FALSE)
<1> DEFINE w == [do |-> "value", doc |-> doc, depth |-> depth]
<1>1. /\ w.do = "value" /\ w.doc = doc /\ w.depth = depth
      /\ w \in [do : {"value"}, doc : Docs, depth : Nat]
  OBVIOUS
<1>2. Value(doc, depth) = <<w>>
  BY DEF Value
<1> HIDE DEF w
<1>3. w \in Work
  BY <1>1 DEF Work, ValueWork
<1>4. Chars(w, fmt) = TextSize[doc][fmt][depth] /\ Ends(w) /\ (FALSE <=> w.do = "scan")
  BY <1>1 DEF Chars, Ends
<1> QED
  BY <1>2, <1>3, <1>4, OnePrints

LEMMA MembersPrint ==
  ASSUME NEW fmt \in BOOLEAN, NEW doc \in Docs, doc.kind \in Boxes,
         NEW i \in 1 .. Len(doc.items) + 1, NEW depth \in Nat
  PROVE  Prints(Members(doc, i, depth), fmt, Left(doc, i, fmt, depth), FALSE, FALSE)
<1> DEFINE w == [do |-> "members", doc |-> doc, i |-> i, depth |-> depth]
<1>0. i \in Nat
  OBVIOUS
<1>1. /\ w.do = "members" /\ w.doc = doc /\ w.i = i /\ w.depth = depth
      /\ w \in [do : {"members"}, doc : Docs, i : Nat, depth : Nat]
  BY <1>0
<1>2. Members(doc, i, depth) = <<w>>
  BY DEF Members
<1> HIDE DEF w
<1>3. w \in Work
  BY <1>1 DEF Work, MembersWork
<1>4. Chars(w, fmt) = Left(doc, i, fmt, depth) /\ ~Lags(w) /\ (FALSE <=> w.do = "scan")
  BY <1>1 DEF Chars, Lags
<1> QED
  BY <1>2, <1>3, <1>4, OnePrints

\* What print_value prints of a value takes the place of the value.
LEMMA PiecesPrint ==
  ASSUME NEW fmt \in BOOLEAN, NEW doc \in Docs, doc.kind # "invalid", NEW depth \in Nat
  PROVE  Prints(Pieces(doc, fmt, depth), fmt, TextSize[doc][fmt][depth], TRUE, FALSE)
<1>0. doc.kind \in Kinds /\ doc.size \in Nat
  BY DocIs
<1> DEFINE t == TextSize[doc][fmt][depth]
<1>1. t = TextOf(doc, fmt, depth, MemberSizes(doc, fmt, depth + 1)) /\ t \in Nat
  BY TextSizeAt, TextSizeNat
<1> HIDE DEF t
<1>2. CASE doc.kind = "literal"
  <2>1. Pieces(doc, fmt, depth) = Put(doc.size + 1, doc.size, TRUE, 0)
    BY <1>2 DEF Pieces
  <2>2. t = doc.size
    BY <1>1, <1>2 DEF TextOf, Boxes
  <2>3. Prints(Put(doc.size + 1, doc.size, TRUE, 0), fmt, doc.size, TRUE, FALSE)
    <3>1. /\ doc.size + 1 \in Nat /\ doc.size \in Nat /\ 0 \in Nat
          /\ doc.size <= doc.size + 1 /\ doc.size + 1 <= doc.size + 1
      BY <1>0
    <3> QED
      BY <3>1, PutPrints
  <2> QED
    BY <2>1, <2>2, <2>3 DEF t
<1>3. CASE doc.kind = "number"
  <2>1. Pieces(doc, fmt, depth) = Put(doc.size + 1, doc.size, TRUE, doc.size)
    BY <1>3 DEF Pieces, Number
  <2>2. t = doc.size
    BY <1>1, <1>3 DEF TextOf, Boxes
  <2>3. Prints(Put(doc.size + 1, doc.size, TRUE, doc.size), fmt, doc.size, TRUE, FALSE)
    <3>1. /\ doc.size + 1 \in Nat /\ doc.size \in Nat /\ 0 \in Nat
          /\ doc.size <= doc.size + 1 /\ doc.size + 1 <= doc.size + 1
      BY <1>0
    <3> QED
      BY <3>1, PutPrints
  <2> QED
    BY <2>1, <2>2, <2>3 DEF t
<1>4. CASE doc.kind = "string"
  <2>1. Pieces(doc, fmt, depth) = Put(doc.size + 3, doc.size + 2, TRUE, 0)
    BY <1>4 DEF Pieces, Quoted
  <2>2. t = doc.size + 2
    BY <1>1, <1>4 DEF TextOf, Boxes
  <2>3. Prints(Put(doc.size + 3, doc.size + 2, TRUE, 0), fmt, doc.size + 2, TRUE, FALSE)
    <3>1. /\ doc.size + 3 \in Nat /\ doc.size + 2 \in Nat /\ 0 \in Nat
          /\ doc.size + 2 <= doc.size + 3 /\ doc.size + 3 <= doc.size + 2 + 1
      BY <1>0
    <3> QED
      BY <3>1, PutPrints
  <2> QED
    BY <2>1, <2>2, <2>3 DEF t
<1>5. CASE doc.kind \in Boxes
  <2> DEFINE open == IF doc.kind = "array" THEN 1 ELSE Wide(fmt)
      need == IF doc.kind = "array" THEN 1 ELSE Wide(fmt) + 1
      close == IF doc.kind = "object" /\ fmt THEN depth + 1 ELSE 1
      left == Left(doc, 1, fmt, depth + 1)
      first == Put(need, open, FALSE, open)
      loop == Members(doc, 1, depth + 1)
      last == Put(close + 1, close, TRUE, 0)
  <2>1. Pieces(doc, fmt, depth) = first \o loop \o last
    <3>1. CASE doc.kind = "array"
      <4>1. need = 1 /\ open = 1 /\ close = 1 /\ close + 1 = 2
        BY <3>1
      <4> QED
        BY <3>1, <4>1 DEF Pieces, Array
    <3>2. CASE doc.kind = "object"
      <4>1. /\ need = Wide(fmt) + 1 /\ open = Wide(fmt)
            /\ close = (IF fmt THEN depth + 1 ELSE 1)
            /\ close + 1 = (IF fmt THEN depth + 2 ELSE 2)
        BY <3>2
      <4> QED
        BY <3>2, <4>1 DEF Pieces, Object
    <3> QED
      BY <1>5, <3>1, <3>2 DEF Boxes
  <2>2. 1 \in 1 .. Len(doc.items) + 1 /\ depth + 1 \in Nat
    BY DocIs
  <2>3. open \in Nat /\ need \in Nat /\ close \in Nat /\ open <= need /\ need <= open + 1
    BY DEF Wide
  <2>4. left \in Nat
    BY <2>2, LeftNat
  <2>5. t = open + left + close
    <3>1. t = 2 + left + (IF doc.kind = "object" /\ fmt THEN depth + 1 ELSE 0)
      BY <1>5, LeftFirst DEF t
    <3>2. open + close = 2 + (IF doc.kind = "object" /\ fmt THEN depth + 1 ELSE 0)
      BY <1>5 DEF Wide, Boxes
    <3>3. PICK d \in Nat : d = IF doc.kind = "object" /\ fmt THEN depth + 1 ELSE 0
      OBVIOUS
    <3> HIDE DEF left, open, close
    <3> QED
      BY <2>3, <2>4, <3>1, <3>2, <3>3
  <2>6. Prints(loop, fmt, left, FALSE, FALSE)
    BY <1>5, <2>2, MembersPrint
  <2> HIDE DEF left, open, close, need
  <2>7. Prints(first, fmt, open, FALSE, FALSE)
    BY <2>3, PutPrints
  <2>8. Prints(last, fmt, close, TRUE, FALSE)
    <3>1. close + 1 \in Nat /\ close <= close + 1 /\ close + 1 <= close + 1 /\ 0 \in Nat
      BY <2>3
    <3> QED
      BY <2>3, <3>1, PutPrints
  <2> HIDE DEF first, loop, last
  <2>9. Prints(first \o loop, fmt, open + left, FALSE, FALSE)
    BY <2>6, <2>7, Chain
  <2>10. Prints(first \o loop \o last, fmt, open + left + close, TRUE, FALSE)
    BY <2>8, <2>9, Chain
  <2> QED
    BY <2>1, <2>5, <2>10 DEF t
<1> QED
  BY <1>0, <1>2, <1>3, <1>4, <1>5 DEF Kinds

\* What a round of the loop prints takes the place of the member it is about.
LEMMA ElementPrints ==
  ASSUME NEW fmt \in BOOLEAN, NEW doc \in Docs, doc.kind = "array",
         NEW i \in 1 .. Len(doc.items), NEW depth \in Nat
  PROVE  Prints(Element(doc, i, fmt, depth), fmt,
                MemberSize(doc, i, fmt, depth, TextSize[doc.items[i]][fmt][depth])
                  + (IF i < Len(doc.items) THEN Comma(doc, fmt) ELSE 0), FALSE, FALSE)
<1> DEFINE v == doc.items[i]
    t == TextSize[v][fmt][depth]
    c == IF i < Len(doc.items) THEN Comma(doc, fmt) ELSE 0
    comma == IF i < Len(doc.items) THEN Put(Wide(fmt) + 1, Wide(fmt), TRUE, Wide(fmt)) ELSE <<>>
<1>1. v \in Docs
  BY DocIs DEF MembersOf
<1>2. t \in Nat
  BY <1>1, TextSizeNat
<1>3. Element(doc, i, fmt, depth) = Value(v, depth) \o UpdateOffset \o comma
  BY DEF Element
<1>4. MemberSize(doc, i, fmt, depth, t) = t
  BY DEF MemberSize
<1>5. Prints(comma, fmt, c, FALSE, FALSE)
  <2>1. CASE i < Len(doc.items)
    <3>1. comma = Put(Wide(fmt) + 1, Wide(fmt), TRUE, Wide(fmt)) /\ c = Wide(fmt)
      BY <2>1 DEF Comma
    <3>2. /\ Wide(fmt) \in Nat /\ Wide(fmt) + 1 \in Nat
          /\ Wide(fmt) <= Wide(fmt) + 1 /\ Wide(fmt) + 1 <= Wide(fmt) + 1
      BY WideIs
    <3> HIDE DEF comma, c
    <3> QED
      BY <3>1, <3>2, PutPrints
  <2>2. CASE ~(i < Len(doc.items))
    <3>1. comma = <<>> /\ c = 0
      BY <2>2
    <3> HIDE DEF comma, c
    <3> QED
      BY <3>1, NothingPrints
  <2> QED
    BY <2>1, <2>2
<1>6. Prints(Value(v, depth), fmt, t, TRUE, FALSE)
  BY <1>1, ValuePrints
<1>7. Prints(UpdateOffset, fmt, 0, FALSE, TRUE)
  BY ScanPrints
<1> HIDE DEF t, c, comma, v
<1>8. Prints(Value(v, depth) \o UpdateOffset, fmt, t + 0, FALSE, FALSE)
  BY <1>6, <1>7, Chain
<1>9. Prints((Value(v, depth) \o UpdateOffset) \o comma, fmt, t + 0 + c, FALSE, FALSE)
  BY <1>5, <1>8, Chain
<1>10. t + 0 + c = t + c
  BY <1>2
<1>11. Prints(Element(doc, i, fmt, depth), fmt,
              MemberSize(doc, i, fmt, depth, t) + c, FALSE, FALSE)
  BY <1>3, <1>4, <1>9, <1>10
<1> QED
  BY <1>11 DEF t, c, v

LEMMA MemberPrints ==
  ASSUME NEW fmt \in BOOLEAN, NEW doc \in Docs, doc.kind = "object",
         NEW i \in 1 .. Len(doc.items), NEW depth \in Nat
  PROVE  Prints(Member(doc, i, fmt, depth), fmt,
                MemberSize(doc, i, fmt, depth, TextSize[doc.items[i]][fmt][depth])
                  + (IF i < Len(doc.items) THEN Comma(doc, fmt) ELSE 0), FALSE, FALSE)
<1> DEFINE v == doc.items[i]
    t == TextSize[v][fmt][depth]
    name == v.name
    w == Wide(fmt)
    e == (IF fmt THEN 1 ELSE 0) + (IF i < Len(doc.items) THEN 1 ELSE 0)
    d == IF fmt THEN depth ELSE 0
    tabs == IF fmt THEN Put(depth, depth, FALSE, depth) ELSE <<>>
    key == Quoted(name)
    colon == Put(w, w, FALSE, w)
    value == Value(v, depth)
    end == Put(e + 1, e, TRUE, e)
<1>1. v \in Docs /\ name \in Nat
  <2>1. v \in Docs
    BY DocIs DEF MembersOf
  <2> QED
    BY <2>1, DocIs
<1>2. t \in Nat
  BY <1>1, TextSizeNat
<1>3. Member(doc, i, fmt, depth)
        = tabs \o key \o UpdateOffset \o colon \o value \o UpdateOffset \o end
  BY DEF Member
<1>4. d \in Nat /\ e \in Nat /\ w \in Nat
  BY WideIs
<1>5. MemberSize(doc, i, fmt, depth, t) + (IF i < Len(doc.items) THEN Comma(doc, fmt) ELSE 0)
        = d + (name + 2) + 0 + w + t + 0 + e
  <2>1. MemberSize(doc, i, fmt, depth, t) = t + name + 3 + (IF fmt THEN depth + 2 ELSE 0)
    BY DEF MemberSize
  <2>2. Comma(doc, fmt) = 1
    BY DEF Comma
  <2>3. PICK k \in {0, 1} : k = IF i < Len(doc.items) THEN 1 ELSE 0
    OBVIOUS
  <2>4. (IF i < Len(doc.items) THEN Comma(doc, fmt) ELSE 0) = k
    BY <2>2, <2>3
  <2>5. CASE fmt
    <3>1. d = depth /\ w = 2 /\ e = 1 + k
      BY <2>3, <2>5 DEF Wide
    <3>2. MemberSize(doc, i, fmt, depth, t) = t + name + 3 + (depth + 2)
      BY <2>1, <2>5
    <3> HIDE DEF t, name, d, w, e
    <3> QED
      BY <1>1, <1>2, <2>3, <2>4, <3>1, <3>2
  <2>6. CASE ~fmt
    <3>1. d = 0 /\ w = 1 /\ e = k
      BY <2>3, <2>6 DEF Wide
    <3>2. MemberSize(doc, i, fmt, depth, t) = t + name + 3
      BY <1>1, <1>2, <2>1, <2>6
    <3> HIDE DEF t, name, d, w, e
    <3> QED
      BY <1>1, <1>2, <2>3, <2>4, <3>1, <3>2
  <2> QED
    BY <2>5, <2>6
<1>6. Prints(tabs, fmt, d, FALSE, FALSE)
  <2>1. CASE fmt
    <3>1. tabs = Put(depth, depth, FALSE, depth) /\ d = depth
      BY <2>1
    <3>2. depth <= depth /\ depth <= depth + 1
      OBVIOUS
    <3> HIDE DEF tabs, d
    <3> QED
      BY <3>1, <3>2, PutPrints
  <2>2. CASE ~fmt
    <3>1. tabs = <<>> /\ d = 0
      BY <2>2
    <3> HIDE DEF tabs, d
    <3> QED
      BY <3>1, NothingPrints
  <2> QED
    BY <2>1, <2>2
<1>7. Prints(key, fmt, name + 2, TRUE, FALSE)
  <2>1. key = Put(name + 3, name + 2, TRUE, 0)
    BY DEF Quoted
  <2> HIDE DEF key, name
  <2>2. /\ name + 3 \in Nat /\ name + 2 \in Nat /\ 0 \in Nat
        /\ name + 2 <= name + 3 /\ name + 3 <= name + 2 + 1
    BY <1>1
  <2> QED
    BY <2>1, <2>2, PutPrints
<1>8. Prints(UpdateOffset, fmt, 0, FALSE, TRUE)
  BY ScanPrints
<1>9. Prints(value, fmt, t, TRUE, FALSE)
  BY <1>1, ValuePrints
<1> HIDE DEF w, e, t, name, d, v
<1>10. Prints(colon, fmt, w, FALSE, FALSE)
  <2>1. w <= w /\ w <= w + 1
    BY <1>4
  <2> QED
    BY <1>4, <2>1, PutPrints
<1>11. Prints(end, fmt, e, FALSE, FALSE)
  <2>1. e + 1 \in Nat /\ e <= e + 1 /\ e + 1 <= e + 1
    BY <1>4
  <2> QED
    BY <1>4, <2>1, PutPrints
<1> HIDE DEF tabs, key, colon, value, end
<1>12. Prints(tabs \o key, fmt, d + (name + 2), TRUE, FALSE)
  BY <1>6, <1>7, Chain
<1>13. Prints(tabs \o key \o UpdateOffset, fmt, d + (name + 2) + 0, FALSE, FALSE)
  BY <1>8, <1>12, Chain
<1>14. Prints(tabs \o key \o UpdateOffset \o colon, fmt, d + (name + 2) + 0 + w, FALSE, FALSE)
  BY <1>10, <1>13, Chain
<1>15. Prints(tabs \o key \o UpdateOffset \o colon \o value, fmt,
              d + (name + 2) + 0 + w + t, TRUE, FALSE)
  BY <1>9, <1>14, Chain
<1>16. Prints(tabs \o key \o UpdateOffset \o colon \o value \o UpdateOffset, fmt,
              d + (name + 2) + 0 + w + t + 0, FALSE, FALSE)
  BY <1>8, <1>15, Chain
<1>17. Prints(tabs \o key \o UpdateOffset \o colon \o value \o UpdateOffset \o end, fmt,
              d + (name + 2) + 0 + w + t + 0 + e, FALSE, FALSE)
  BY <1>11, <1>16, Chain
<1> QED
  BY <1>3, <1>5, <1>17 DEF t, v

-----------------------------------------------------------------------------
(* The inductive invariant.                                                  *)

CallType ==
  [fun : {"print", "buffered", "preallocated"}, doc : Docs, fmt : BOOLEAN,
   size : 0 .. IntMax, realloc : BOOLEAN]

\* What the call asked for.
Called ==
  pc # "idle" =>
    /\ call \in CallType
    /\ noalloc <=> call.fun = "preallocated"
    /\ call.fun = "print" => call.size = Default

Fresh ==
  pc = "idle" =>
    /\ rest = <<>> /\ length = 0 /\ offset = 0 /\ filled = 0 /\ buffers = 0
    /\ ~noalloc /\ ~nul /\ ~bad

\* There is room for a NUL behind what is printed, but in a buffer of no length.
Roomy == filled < length \/ (length = 0 /\ filled = 0 /\ ~nul /\ call.size = 0)

\* What is printed and what is left make up the text, and the offset is at its end
\* when the next piece asks for room.
Printing ==
  pc = "printing" =>
    /\ Good(rest, call.fmt, filled, Size)
    /\ Closed(rest) => nul
    /\ ~Closed(rest) => offset = filled
    /\ offset <= filled
    /\ Roomy
    /\ noalloc => length = call.size

Trimming ==
  pc = "trimming" =>
    call.fun = "print" /\ offset = filled /\ filled = Size /\ nul /\ filled < length

Counted == pc \in {"printing", "trimming"} => buffers = IF noalloc THEN 0 ELSE 1

PrintInv ==
  /\ TypeOK /\ Called /\ Fresh /\ Printing /\ Trimming /\ Counted
  /\ InBounds /\ PrintedWhole /\ BuffersReturned /\ RoomSuffices

LEMMA CallIs ==
  ASSUME PrintInv, pc # "idle"
  PROVE  /\ call \in CallType /\ call.doc \in Docs /\ call.fmt \in BOOLEAN
         /\ call.size \in Nat /\ call.realloc \in BOOLEAN /\ Size \in Nat
<1>1. call \in CallType
  BY DEF PrintInv, Called
<1>2. /\ call.doc \in Docs /\ call.fmt \in BOOLEAN /\ call.size \in 0 .. IntMax
      /\ call.realloc \in BOOLEAN
  BY <1>1 DEF CallType
<1>3. Size \in Nat
  BY <1>2, TextSizeNat DEF Size
<1>4. IntMax \in Nat
  BY CJsonPrintAssumption
<1> QED
  BY <1>1, <1>2, <1>3, <1>4

\* A value that is printed or a round of a loop changes only what is left.
LEMMA Reworked ==
  ASSUME PrintInv, pc = "printing", ~Closed(rest),
         Good(rest', call.fmt, filled, Size), ~Closed(rest'),
         UNCHANGED <<pc, call, buffer, buffers, bad>>
  PROVE  PrintInv'
<1>1. /\ pc' = pc /\ call' = call /\ length' = length /\ offset' = offset
      /\ noalloc' = noalloc /\ filled' = filled /\ nul' = nul /\ buffers' = buffers
      /\ bad' = bad
  BY DEF buffer
<1>2. Size' = Size
  BY <1>1 DEF Size
<1>3. TypeOK'
  BY <1>1 DEF PrintInv, TypeOK
<1>4. Called' /\ Fresh' /\ Trimming' /\ Counted'
  BY <1>1 DEF PrintInv, Called, Fresh, Trimming, Counted
<1>5. Printing'
  BY <1>1, <1>2 DEF PrintInv, Printing, Roomy
<1>6. InBounds' /\ PrintedWhole' /\ BuffersReturned' /\ RoomSuffices'
  BY <1>1 DEF PrintInv, InBounds, PrintedWhole, BuffersReturned, RoomSuffices
<1> QED
  BY <1>3, <1>4, <1>5, <1>6 DEF PrintInv

\* What is next, and what is left behind it.
LEMMA NextIs ==
  ASSUME PrintInv, pc = "printing", rest # <<>>
  PROVE  /\ Head(rest) \in Work /\ filled \in Nat /\ Size \in Nat /\ call.fmt \in BOOLEAN
         /\ filled + Chars(Head(rest), call.fmt) <= Size
         /\ Good(Tail(rest), call.fmt, filled + Chars(Head(rest), call.fmt), Size)
         /\ Fit(Head(rest), Tail(rest)) /\ Tail(rest) \in Seq(Work)
         /\ Closed(rest) <=> Head(rest).do = "scan"
<1>1. Good(rest, call.fmt, filled, Size)
  BY DEF PrintInv, Printing
<1>2. filled \in Nat
  BY CJsonPrintAssumption DEF PrintInv, TypeOK
<1>3. Size \in Nat /\ call.fmt \in BOOLEAN
  BY CallIs
<1>4. /\ Head(rest) \in Work
      /\ filled + Chars(Head(rest), call.fmt) <= Size
      /\ Good(Tail(rest), call.fmt, filled + Chars(Head(rest), call.fmt), Size)
      /\ Fit(Head(rest), Tail(rest))
  BY <1>1, <1>2, <1>3, Shorten
<1>5. Tail(rest) \in Seq(Work)
  BY <1>4 DEF Good
<1> QED
  BY <1>2, <1>3, <1>4, <1>5 DEF Closed

\* The piece, value or loop that is next.
LEMMA PutIs ==
  ASSUME NEW w \in Work, w.do = "put"
  PROVE  /\ w.need \in Nat /\ w.put \in Nat /\ w.end \in BOOLEAN /\ w.advance \in Nat
         /\ w.put <= w.need /\ w.need <= w.put + 1
         /\ w.advance = w.put \/ (w.advance = 0 /\ w.end)
BY DEF Work, PutWork, ScanWork, ValueWork, MembersWork

LEMMA ValueIs ==
  ASSUME NEW w \in Work, w.do = "value"
  PROVE  w.doc \in Docs /\ w.depth \in Nat
BY DEF Work, PutWork, ScanWork, ValueWork, MembersWork

LEMMA LoopIs ==
  ASSUME NEW w \in Work, w.do = "members"
  PROVE  /\ w.doc \in Docs /\ w.depth \in Nat /\ w.doc.kind \in Boxes
         /\ w.i \in 1 .. Len(w.doc.items) + 1
BY DEF Work, PutWork, ScanWork, ValueWork, MembersWork

-----------------------------------------------------------------------------
(* Every step keeps it.                                                      *)

LEMMA InitKeeps ==
  ASSUME Init
  PROVE  PrintInv
<1>1. 0 \in 0 .. IntMax
  BY CJsonPrintAssumption
<1>2. TypeOK
  <2>1. 0 \in 0 .. 2 /\ {FALSE} \subseteq BOOLEAN
    OBVIOUS
  <2> QED
    BY <1>1, <2>1 DEF Init, TypeOK
<1>3. Called /\ Fresh /\ Printing /\ Trimming /\ Counted
  BY DEF Init, Called, Fresh, Printing, Trimming, Counted
<1>4. InBounds /\ PrintedWhole /\ BuffersReturned /\ RoomSuffices
  BY DEF Init, InBounds, PrintedWhole, BuffersReturned, RoomSuffices
<1> QED
  BY <1>2, <1>3, <1>4 DEF PrintInv

LEMMA BeginKeeps ==
  ASSUME PrintInv, Begin
  PROVE  PrintInv'
<1>0. PICK fun \in {"print", "buffered", "preallocated"} :
        /\ Asked(fun)
        /\ noalloc' = (fun = "preallocated")
        /\ buffers' = IF fun = "preallocated" THEN 0 ELSE 1
  BY DEF Begin
<1>1. PICK doc \in Docs, fmt \in BOOLEAN, size \in Sizes, realloc \in BOOLEAN :
        /\ fun = "print" => size = Default
        /\ call' = [fun |-> fun, doc |-> doc, fmt |-> fmt, size |-> size, realloc |-> realloc]
  BY <1>0 DEF Asked
<1>2. /\ pc = "idle" /\ pc' = "printing" /\ offset' = offset /\ filled' = filled
      /\ nul' = nul /\ bad' = bad
  BY DEF Begin
<1>3. offset' = 0 /\ filled' = 0 /\ ~nul' /\ ~bad'
  BY <1>2 DEF PrintInv, Fresh
<1>4. size \in 0 .. IntMax /\ IntMax \in Nat /\ size \in Nat /\ 0 \in 0 .. IntMax
  BY CJsonPrintAssumption
<1>5. /\ call' \in CallType /\ call'.fun = fun /\ call'.doc = doc /\ call'.fmt = fmt
      /\ call'.size = size /\ rest' = Value(doc, 0) /\ length' = size
  BY <1>1, <1>4 DEF CallType, Begin
<1> DEFINE t == TextSize[doc][fmt][0]
<1>6. Size' = t /\ t \in Nat
  <2>1. t \in Nat
    BY TextSizeNat
  <2> QED
    BY <1>5, <2>1 DEF Size
<1> HIDE DEF t
<1>7. Good(rest', fmt, 0, t) /\ ~Closed(rest')
  <2>1. Prints(Value(doc, 0), fmt, t, TRUE, FALSE)
    BY ValuePrints DEF t
  <2>2. Good(<<>>, fmt, 0 + t, t) /\ <<>> \in Seq(Work) /\ Closed(<<>>)
    <3>1. 0 + t = t
      BY <1>6
    <3>2. Good(<<>>, fmt, t, t)
      BY <1>6, GoodEmpty
    <3> QED
      BY <3>1, <3>2 DEF Closed
  <2>3. Good(Value(doc, 0) \o <<>>, fmt, 0, t) /\ ~Closed(Value(doc, 0) \o <<>>)
    BY <1>6, <2>1, <2>2 DEF Prints
  <2>4. Value(doc, 0) \o <<>> = Value(doc, 0)
    <3>1. Value(doc, 0) \in Seq(Work)
      BY <2>1 DEF Prints
    <3> QED
      BY <3>1, ConcatEmptySeq
  <2> QED
    BY <1>5, <2>3, <2>4
<1>8. TypeOK'
  <2>1. noalloc' \in BOOLEAN /\ nul' \in BOOLEAN /\ bad' \in BOOLEAN
    BY <1>0, <1>2 DEF PrintInv, TypeOK
  <2>2. buffers' \in 0 .. 2
    BY <1>0
  <2>3. length' \in 0 .. IntMax /\ offset' \in 0 .. IntMax /\ filled' \in 0 .. IntMax
    BY <1>3, <1>4, <1>5
  <2>4. pc' = "printing"
    BY <1>2
  <2> QED
    BY <2>1, <2>2, <2>3, <2>4 DEF TypeOK
<1>9. Called'
  BY <1>0, <1>1, <1>5 DEF Called
<1>10. Printing'
  <2>1. Roomy'
    BY <1>3, <1>4, <1>5 DEF Roomy
  <2> QED
    BY <1>3, <1>5, <1>6, <1>7, <2>1 DEF Printing
<1>11. Fresh' /\ Trimming'
  BY <1>2 DEF Fresh, Trimming
<1>12. Counted'
  BY <1>0 DEF Counted
<1>13. InBounds' /\ PrintedWhole' /\ BuffersReturned' /\ RoomSuffices'
  BY <1>2, <1>3 DEF InBounds, PrintedWhole, BuffersReturned, RoomSuffices
<1> QED
  BY <1>8, <1>9, <1>10, <1>11, <1>12, <1>13 DEF PrintInv

LEMMA BeginFailsKeeps ==
  ASSUME PrintInv, BeginFails
  PROVE  PrintInv'
<1>1. PICK fun \in {"print", "buffered"} : Asked(fun)
  BY DEF BeginFails
<1>2. PICK doc \in Docs, fmt \in BOOLEAN, size \in Sizes, realloc \in BOOLEAN :
        /\ fun = "print" => size = Default
        /\ call' = [fun |-> fun, doc |-> doc, fmt |-> fmt, size |-> size, realloc |-> realloc]
  BY <1>1 DEF Asked
<1>3. /\ pc = "idle" /\ pc' = "failed"
      /\ UNCHANGED <<rest, length, offset, noalloc, filled, nul, buffers, bad>>
  BY DEF BeginFails, buffer
<1>4. size \in 0 .. IntMax
  BY CJsonPrintAssumption
<1>5. call' \in CallType /\ call'.fun = fun /\ call'.size = size
  BY <1>2, <1>4 DEF CallType
<1>6. ~noalloc /\ buffers = 0 /\ ~bad
  BY <1>3 DEF PrintInv, Fresh
<1>7. TypeOK'
  BY <1>3 DEF PrintInv, TypeOK
<1>8. Called'
  BY <1>2, <1>3, <1>5, <1>6 DEF Called
<1>9. Fresh' /\ Printing' /\ Trimming' /\ Counted'
  BY <1>3 DEF Fresh, Printing, Trimming, Counted
<1>10. InBounds' /\ PrintedWhole' /\ BuffersReturned' /\ RoomSuffices'
  BY <1>3, <1>5, <1>6 DEF InBounds, PrintedWhole, BuffersReturned, RoomSuffices
<1> QED
  BY <1>7, <1>8, <1>9, <1>10 DEF PrintInv

LEMMA ValueKeeps ==
  ASSUME PrintInv, print_value
  PROVE  PrintInv'
<1> DEFINE v == Head(rest)
    r == Tail(rest)
    t == TextSize[v.doc][call.fmt][v.depth]
<1>1. /\ pc = "printing" /\ rest # <<>> /\ v.do = "value" /\ v.doc.kind # "invalid"
      /\ rest' = Pieces(v.doc, call.fmt, v.depth) \o r
      /\ UNCHANGED <<pc, call, buffer, buffers, bad>>
  BY DEF print_value, Ahead
<1>2. /\ v \in Work /\ filled \in Nat /\ Size \in Nat /\ call.fmt \in BOOLEAN
      /\ Good(r, call.fmt, filled + Chars(v, call.fmt), Size)
      /\ Fit(v, r) /\ r \in Seq(Work)
      /\ Closed(rest) <=> v.do = "scan"
  BY <1>1, NextIs
<1> HIDE DEF v, r
<1>3. v.doc \in Docs /\ v.depth \in Nat
  BY <1>1, <1>2, ValueIs
<1>4. Chars(v, call.fmt) = t /\ Closed(r) /\ ~Closed(rest)
  BY <1>1, <1>2 DEF Chars, Fit, Lags
<1>5. Prints(Pieces(v.doc, call.fmt, v.depth), call.fmt, t, TRUE, FALSE)
  BY <1>1, <1>2, <1>3, PiecesPrint
<1> HIDE DEF t
<1>6. Good(rest', call.fmt, filled, Size) /\ ~Closed(rest')
  BY <1>1, <1>2, <1>4, <1>5 DEF Prints
<1> QED
  BY <1>1, <1>4, <1>6, Reworked

LEMMA NextMemberKeeps ==
  ASSUME PrintInv, NextMember
  PROVE  PrintInv'
<1> DEFINE m == Head(rest)
    r == Tail(rest)
    d == m.doc
    i == m.i
    fmt == call.fmt
    one == IF d.kind = "array" THEN Element(d, i, fmt, m.depth) ELSE Member(d, i, fmt, m.depth)
    size == MemberSize(d, i, fmt, m.depth, TextSize[d.items[i]][fmt][m.depth])
    comma == IF i < Len(d.items) THEN Comma(d, fmt) ELSE 0
    left == Left(d, i + 1, fmt, m.depth)
<1>1. /\ pc = "printing" /\ rest # <<>> /\ m.do = "members" /\ i <= Len(d.items)
      /\ rest' = one \o Members(d, i + 1, m.depth) \o r
      /\ UNCHANGED <<pc, call, buffer, buffers, bad>>
  BY DEF NextMember, Ahead
<1>2. /\ m \in Work /\ filled \in Nat /\ Size \in Nat /\ fmt \in BOOLEAN
      /\ Good(r, fmt, filled + Chars(m, fmt), Size)
      /\ Fit(m, r) /\ r \in Seq(Work)
      /\ Closed(rest) <=> m.do = "scan"
  BY <1>1, NextIs
<1> HIDE DEF m, r, fmt
<1>3. d \in Docs /\ m.depth \in Nat /\ d.kind \in Boxes /\ i \in 1 .. Len(d.items) + 1
  BY <1>1, <1>2, LoopIs
<1>4. i \in 1 .. Len(d.items) /\ i + 1 \in 1 .. Len(d.items) + 1
  <2>1. Len(d.items) \in Nat
    BY <1>3, DocIs
  <2> QED
    BY <1>1, <1>3, <2>1
<1>5. Chars(m, fmt) = Left(d, i, fmt, m.depth) /\ ~Closed(r) /\ ~Closed(rest)
  BY <1>1, <1>2 DEF Chars, Fit, Ends
<1>6. Prints(one, fmt, size + comma, FALSE, FALSE)
  <2>1. CASE d.kind = "array"
    <3>1. one = Element(d, i, fmt, m.depth)
      BY <2>1
    <3>2. Prints(Element(d, i, fmt, m.depth), fmt, size + comma, FALSE, FALSE)
      BY <1>2, <1>3, <1>4, <2>1, ElementPrints
    <3> HIDE DEF one, size, comma, d, i
    <3> QED
      BY <3>1, <3>2
  <2>2. CASE d.kind = "object"
    <3>1. one = Member(d, i, fmt, m.depth)
      BY <2>2
    <3>2. Prints(Member(d, i, fmt, m.depth), fmt, size + comma, FALSE, FALSE)
      BY <1>2, <1>3, <1>4, <2>2, MemberPrints
    <3> HIDE DEF one, size, comma, d, i
    <3> QED
      BY <3>1, <3>2
  <2> QED
    BY <1>3, <2>1, <2>2 DEF Boxes
<1>7. Prints(Members(d, i + 1, m.depth), fmt, left, FALSE, FALSE)
  BY <1>2, <1>3, <1>4, MembersPrint
<1>8. Left(d, i, fmt, m.depth) = size + comma + left
  BY <1>2, <1>3, <1>4, LeftNext
<1> HIDE DEF one, size, comma, left, d, i
<1>9. Prints(one \o Members(d, i + 1, m.depth), fmt, size + comma + left, FALSE, FALSE)
  BY <1>2, <1>6, <1>7, Chain
<1>10. Good(r, fmt, filled + (size + comma + left), Size)
  BY <1>2, <1>5, <1>8
<1>11. Good(rest', fmt, filled, Size) /\ ~Closed(rest')
  BY <1>1, <1>2, <1>5, <1>9, <1>10 DEF Prints
<1> QED
  BY <1>1, <1>5, <1>11, Reworked DEF fmt

LEMMA NoMemberKeeps ==
  ASSUME PrintInv, NoMember
  PROVE  PrintInv'
<1> DEFINE m == Head(rest)
    r == Tail(rest)
<1>1. /\ pc = "printing" /\ rest # <<>> /\ m.do = "members" /\ m.i > Len(m.doc.items)
      /\ rest' = r
      /\ UNCHANGED <<pc, call, buffer, buffers, bad>>
  BY DEF NoMember, Ahead
<1>2. /\ m \in Work /\ filled \in Nat /\ Size \in Nat /\ call.fmt \in BOOLEAN
      /\ Good(r, call.fmt, filled + Chars(m, call.fmt), Size)
      /\ Fit(m, r) /\ r \in Seq(Work)
      /\ Closed(rest) <=> m.do = "scan"
  BY <1>1, NextIs
<1> HIDE DEF m, r
<1>3. m.doc \in Docs /\ m.depth \in Nat /\ m.i \in 1 .. Len(m.doc.items) + 1
  BY <1>1, <1>2, LoopIs
<1>4. m.i = Len(m.doc.items) + 1
  <2>1. Len(m.doc.items) \in Nat
    BY <1>3, DocIs
  <2> QED
    BY <1>1, <1>3, <2>1
<1>5. Chars(m, call.fmt) = Left(m.doc, m.i, call.fmt, m.depth) /\ ~Closed(r) /\ ~Closed(rest)
  BY <1>1, <1>2 DEF Chars, Fit, Ends
<1>6. Left(m.doc, m.i, call.fmt, m.depth) = 0
  BY <1>2, <1>3, <1>4, LeftDone
<1>7. filled + Chars(m, call.fmt) = filled
  BY <1>2, <1>5, <1>6
<1>8. Good(rest', call.fmt, filled, Size) /\ ~Closed(rest')
  BY <1>1, <1>2, <1>5, <1>7
<1> QED
  BY <1>1, <1>5, <1>8, Reworked

\* A call that goes no further keeps what it has printed.
LEMMA Stops ==
  ASSUME PrintInv, pc \in {"printing", "trimming"}, pc' \in {"printed", "failed"},
         UNCHANGED <<call, rest, offset, noalloc, filled, nul>>,
         length' \in 0 .. IntMax, bad' = bad,
         buffers' = IF pc' = "printed" /\ call.fun # "preallocated" THEN 1 ELSE 0,
         PrintedWhole', RoomSuffices'
  PROVE  PrintInv'
<1>1. TypeOK'
  <2>1. buffers' \in 0 .. 2
    OBVIOUS
  <2> QED
    BY <2>1 DEF PrintInv, TypeOK
<1>2. Called' /\ Fresh' /\ Printing' /\ Trimming' /\ Counted'
  BY DEF PrintInv, Called, Fresh, Printing, Trimming, Counted
<1>3. InBounds' /\ BuffersReturned'
  BY DEF PrintInv, InBounds, BuffersReturned
<1> QED
  BY <1>1, <1>2, <1>3 DEF PrintInv

LEMMA NoTextKeeps ==
  ASSUME PrintInv, NoText
  PROVE  PrintInv'
<1>1. /\ pc = "printing" /\ pc' = "failed"
      /\ Head(rest).do = "value" /\ Head(rest).doc.kind = "invalid"
      /\ buffers' = (IF noalloc THEN buffers ELSE buffers - 1)
      /\ UNCHANGED <<call, rest, length, offset, noalloc, filled, nul, bad>>
  BY DEF NoText, Ahead, buffer
<1>2. buffers' = 0
  BY <1>1 DEF PrintInv, Counted
<1>3. PrintedWhole' /\ RoomSuffices'
  BY <1>1 DEF PrintedWhole, RoomSuffices
<1>4. length' \in 0 .. IntMax
  BY <1>1 DEF PrintInv, TypeOK
<1> QED
  BY <1>1, <1>2, <1>3, <1>4, Stops

\* Before a piece is put, the offset is at the end of what is printed.
LEMMA PutNext ==
  ASSUME PrintInv, Asks
  PROVE  /\ pc = "printing" /\ rest # <<>> /\ ~Closed(rest) /\ offset = filled
         /\ Head(rest) \in Work /\ Head(rest).do = "put"
         /\ filled \in Nat /\ length \in 0 .. IntMax /\ length \in Nat /\ IntMax \in Nat
         /\ Size \in Nat /\ Roomy /\ Valid
         /\ filled + Head(rest).put <= Size
         /\ Good(Tail(rest), call.fmt, filled + Head(rest).put, Size)
         /\ Fit(Head(rest), Tail(rest))
         /\ Needed = Head(rest).need + filled + 1 /\ Needed \in Nat
<1>1. pc = "printing" /\ rest # <<>> /\ Head(rest).do = "put"
  BY DEF Asks, Ahead
<1>2. /\ Head(rest) \in Work /\ filled \in Nat /\ Size \in Nat
      /\ filled + Chars(Head(rest), call.fmt) <= Size
      /\ Good(Tail(rest), call.fmt, filled + Chars(Head(rest), call.fmt), Size)
      /\ Fit(Head(rest), Tail(rest))
      /\ Closed(rest) <=> Head(rest).do = "scan"
  BY <1>1, NextIs
<1>3. Chars(Head(rest), call.fmt) = Head(rest).put
  BY <1>1 DEF Chars
<1>4. ~Closed(rest) /\ offset = filled /\ Roomy
  BY <1>1, <1>2 DEF PrintInv, Printing
<1>5. length \in 0 .. IntMax /\ IntMax \in Nat
  BY CJsonPrintAssumption DEF PrintInv, TypeOK
<1>6. Valid
  BY <1>4 DEF Roomy, Valid
<1>7. Needed = Head(rest).need + filled + 1 /\ Needed \in Nat
  <2>1. Head(rest).need \in Nat
    BY <1>1, <1>2, PutIs
  <2> QED
    BY <1>2, <1>4, <2>1 DEF Needed
<1> QED
  BY <1>1, <1>2, <1>3, <1>4, <1>5, <1>6, <1>7

LEMMA WriteKeeps ==
  ASSUME PrintInv, Write
  PROVE  PrintInv'
<1> DEFINE w == Head(rest)
    r == Tail(rest)
<1>1. /\ Asks /\ Needed <= length
      /\ filled' = offset + w.put /\ nul' = w.end /\ offset' = offset + w.advance /\ rest' = r
      /\ bad' = (bad \/ offset > filled
                   \/ offset + w.put + (IF w.end THEN 1 ELSE 0) > length)
      /\ pc' = pc /\ call' = call /\ length' = length /\ noalloc' = noalloc
      /\ buffers' = buffers
  BY DEF Write, Written, Fits
<1>2. /\ pc = "printing" /\ rest # <<>> /\ offset = filled
      /\ w \in Work /\ w.do = "put"
      /\ filled \in Nat /\ length \in 0 .. IntMax /\ IntMax \in Nat /\ length \in Nat
      /\ Good(r, call.fmt, filled + w.put, Size)
      /\ Fit(w, r) /\ Needed = w.need + filled + 1
  BY <1>1, PutNext
<1> HIDE DEF w, r
<1>3. /\ w.need \in Nat /\ w.put \in Nat /\ w.end \in BOOLEAN /\ w.advance \in Nat
      /\ w.put <= w.need /\ (w.advance = w.put \/ (w.advance = 0 /\ w.end))
  BY <1>2, PutIs
<1>4. filled + w.put + 1 <= length
  BY <1>1, <1>2, <1>3
<1>5. bad' = bad
  <2>1. ~(offset > filled) /\ ~(offset + w.put + (IF w.end THEN 1 ELSE 0) > length)
    BY <1>2, <1>3, <1>4
  <2>2. bad \in BOOLEAN
    BY DEF PrintInv, TypeOK
  <2> QED
    BY <1>1, <2>1, <2>2
<1>6. filled' = filled + w.put /\ offset' <= filled' /\ offset' \in Nat /\ filled' < length
  BY <1>1, <1>2, <1>3, <1>4
<1>7. TypeOK'
  <2>1. offset' \in 0 .. IntMax /\ filled' \in 0 .. IntMax
    <3>1. filled' \in Nat
      BY <1>2, <1>3, <1>6
    <3>2. PICK o \in Nat, f \in Nat : o = offset' /\ f = filled'
      BY <1>6, <3>1
    <3>3. o <= f /\ f < length /\ length <= IntMax
      BY <1>2, <1>6, <3>2
    <3>4. o \in 0 .. IntMax /\ f \in 0 .. IntMax
      BY <1>2, <3>2, <3>3
    <3> QED
      BY <3>2, <3>4
  <2>2. noalloc' \in BOOLEAN /\ nul' \in BOOLEAN /\ bad' \in BOOLEAN /\ buffers' \in 0 .. 2
    BY <1>1, <1>3, <1>5 DEF PrintInv, TypeOK
  <2> QED
    BY <1>1, <1>2, <2>1, <2>2 DEF TypeOK
<1>8. Size' = Size
  BY <1>1 DEF Size
<1>9. Printing'
  <2>1. Good(rest', call'.fmt, filled', Size')
    BY <1>1, <1>2, <1>6, <1>8
  <2>2. Closed(r) => nul'
    BY <1>1, <1>2 DEF Fit, Ends
  <2>3. ~Closed(r) => offset' = filled'
    BY <1>1, <1>2 DEF Fit, Lags
  <2>4. Roomy'
    BY <1>1, <1>6 DEF Roomy
  <2>5. noalloc' => length' = call'.size
    BY <1>1, <1>2 DEF PrintInv, Printing
  <2> QED
    BY <1>1, <1>6, <2>1, <2>2, <2>3, <2>4, <2>5 DEF Printing
<1>10. Called' /\ Fresh' /\ Trimming' /\ Counted'
  BY <1>1, <1>2 DEF PrintInv, Called, Fresh, Trimming, Counted
<1>11. InBounds'
  BY <1>1, <1>5 DEF PrintInv, InBounds
<1>12. PrintedWhole' /\ BuffersReturned' /\ RoomSuffices'
  BY <1>1, <1>2 DEF PrintedWhole, BuffersReturned, RoomSuffices
<1> QED
  BY <1>7, <1>9, <1>10, <1>11, <1>12 DEF PrintInv

LEMMA NewSizeIs ==
  ASSUME Needed \in Nat, Needed <= IntMax
  PROVE  NewSize \in Nat /\ Needed <= NewSize /\ NewSize <= IntMax
<1>1. IntMax \in Nat
  BY CJsonPrintAssumption
<1>2. IntMax \div 2 \in Nat /\ 2 * (IntMax \div 2) <= IntMax
  BY <1>1
<1>3. PICK h \in Nat : h = IntMax \div 2
  BY <1>2
<1>4. PICK n \in Nat : n = Needed
  OBVIOUS
<1>5. CASE n > h
  BY <1>1, <1>3, <1>4, <1>5 DEF NewSize
<1>6. CASE ~(n > h)
  <2>1. NewSize = n * 2
    BY <1>3, <1>4, <1>6 DEF NewSize
  <2> QED
    BY <1>1, <1>2, <1>3, <1>4, <1>6, <2>1
<1> QED
  BY <1>5, <1>6

LEMMA GrowKeeps ==
  ASSUME PrintInv, Grow
  PROVE  PrintInv'
<1>1. /\ Asks /\ ~noalloc /\ Needed <= IntMax
      /\ length' = NewSize
      /\ bad' = (bad \/ (~call.realloc /\ offset + 1 > length))
      /\ filled' = (IF call.realloc \/ filled <= offset THEN filled ELSE offset + 1)
      /\ nul' = (nul /\ (call.realloc \/ filled <= offset))
      /\ pc' = pc /\ call' = call /\ rest' = rest /\ offset' = offset /\ noalloc' = noalloc
      /\ buffers' = buffers
  BY DEF Grow, Grows
<1>2. /\ pc = "printing" /\ offset = filled /\ filled \in Nat /\ length \in Nat
      /\ Head(rest) \in Work /\ Head(rest).do = "put" /\ IntMax \in Nat
      /\ Roomy /\ Needed = Head(rest).need + filled + 1 /\ Needed \in Nat
  BY <1>1, PutNext
<1>3. filled' = filled
  BY <1>1, <1>2
<1>4. nul' = nul
  <2>1. nul \in BOOLEAN /\ filled <= offset
    BY <1>2 DEF PrintInv, TypeOK
  <2> QED
    BY <1>1, <2>1
<1>5. NewSize \in Nat /\ Needed <= NewSize /\ NewSize <= IntMax
  BY <1>1, <1>2, NewSizeIs
<1>6. filled < length' /\ length' \in 0 .. IntMax
  <2>1. Head(rest).need \in Nat
    BY <1>2, PutIs
  <2> QED
    BY <1>1, <1>2, <1>5, <2>1
<1>7. Size' = Size
  BY <1>1 DEF Size
<1>8. TypeOK'
  <2>1. bad' \in BOOLEAN
    BY <1>1 DEF PrintInv, TypeOK
  <2> QED
    BY <1>1, <1>2, <1>3, <1>4, <1>6, <2>1 DEF PrintInv, TypeOK
<1>9. Printing'
  <2>1. Roomy'
    BY <1>3, <1>6 DEF Roomy
  <2> QED
    BY <1>1, <1>2, <1>3, <1>4, <1>7, <2>1 DEF PrintInv, Printing
<1>10. Called' /\ Fresh' /\ Trimming' /\ Counted'
  BY <1>1, <1>2 DEF PrintInv, Called, Fresh, Trimming, Counted
<1>11. InBounds'
  <2>1. CASE bad
    BY <1>1, <2>1 DEF PrintInv, InBounds
  <2>2. CASE ~call.realloc /\ offset + 1 > length
    <3>1. call.size = 0
      BY <1>2, <2>2 DEF Roomy
    <3>2. call.fun # "print"
      BY <1>2, <3>1, CJsonPrintAssumption DEF PrintInv, Called
    <3>3. call.fun # "preallocated" /\ call \in CallType
      BY <1>1, <1>2 DEF PrintInv, Called
    <3>4. call.fun = "buffered"
      BY <3>2, <3>3 DEF CallType
    <3> QED
      BY <1>1, <2>2, <3>1, <3>4 DEF InBounds
  <2> QED
    BY <1>1, <2>1, <2>2 DEF InBounds
<1>12. PrintedWhole' /\ BuffersReturned' /\ RoomSuffices'
  BY <1>1, <1>2 DEF PrintedWhole, BuffersReturned, RoomSuffices
<1> QED
  BY <1>8, <1>9, <1>10, <1>11, <1>12 DEF PrintInv

LEMMA GrowFailsKeeps ==
  ASSUME PrintInv, GrowFails
  PROVE  PrintInv'
<1>1. /\ Asks /\ ~noalloc /\ pc' = "failed" /\ length' = 0 /\ buffers' = buffers - 1
      /\ UNCHANGED <<call, rest, offset, noalloc, filled, nul, bad>>
  BY DEF GrowFails, Grows
<1>2. pc = "printing" /\ 0 \in 0 .. IntMax
  BY <1>1, CJsonPrintAssumption DEF Asks, Ahead
<1>3. buffers' = 0
  BY <1>1, <1>2 DEF PrintInv, Counted
<1>4. call.fun # "preallocated"
  BY <1>1, <1>2 DEF PrintInv, Called
<1>5. PrintedWhole' /\ RoomSuffices'
  BY <1>1, <1>4 DEF PrintedWhole, RoomSuffices
<1> QED
  BY <1>1, <1>2, <1>3, <1>5, Stops

\* A buffer of the caller's that is refused held less than two bytes more than the text.
LEMMA RefuseKeeps ==
  ASSUME PrintInv, Refuse
  PROVE  PrintInv'
<1>1. /\ Asks /\ ~Fits /\ pc' = "failed"
      /\ buffers' = (IF noalloc THEN buffers ELSE buffers - 1)
      /\ UNCHANGED <<call, rest, length, offset, noalloc, filled, nul, bad>>
  BY DEF Refuse, buffer
<1>2. /\ pc = "printing" /\ filled \in Nat /\ length \in 0 .. IntMax /\ length \in Nat
      /\ Head(rest) \in Work /\ Head(rest).do = "put" /\ Size \in Nat
      /\ filled + Head(rest).put <= Size
      /\ Valid /\ Needed = Head(rest).need + filled + 1 /\ Needed \in Nat
  BY <1>1, PutNext
<1>3. buffers' = 0
  BY <1>1, <1>2 DEF PrintInv, Counted
<1>4. length < Size + 2
  <2>1. /\ Head(rest).need \in Nat /\ Head(rest).put \in Nat
        /\ Head(rest).need <= Head(rest).put + 1
    BY <1>2, PutIs
  <2>2. length < Needed
    BY <1>1, <1>2 DEF Fits
  <2> QED
    BY <1>2, <2>1, <2>2
<1>5. RoomSuffices'
  <2>1. ASSUME call.fun = "preallocated" PROVE call.size < Size + 2
    <3>1. call.size = length
      BY <1>2, <2>1 DEF PrintInv, Called, Printing
    <3> QED
      BY <1>4, <3>1
  <2>2. call' = call /\ Size' = Size
    BY <1>1 DEF Size
  <2> QED
    BY <2>1, <2>2 DEF RoomSuffices
<1>6. PrintedWhole'
  BY <1>1 DEF PrintedWhole
<1> QED
  BY <1>1, <1>2, <1>3, <1>5, <1>6, Stops

LEMMA UpdateOffsetKeeps ==
  ASSUME PrintInv, update_offset
  PROVE  PrintInv'
<1> DEFINE w == Head(rest)
    r == Tail(rest)
<1>1. /\ pc = "printing" /\ rest # <<>> /\ w.do = "scan"
      /\ offset' = filled /\ rest' = r /\ bad' = (bad \/ ~nul)
      /\ pc' = pc /\ call' = call /\ length' = length /\ noalloc' = noalloc
      /\ filled' = filled /\ nul' = nul /\ buffers' = buffers
  BY DEF update_offset, Ahead
<1>2. /\ w \in Work /\ filled \in Nat /\ Size \in Nat
      /\ Good(r, call.fmt, filled + Chars(w, call.fmt), Size)
      /\ Fit(w, r)
      /\ Closed(rest) <=> w.do = "scan"
  BY <1>1, NextIs
<1> HIDE DEF w, r
<1>3. ~Closed(r)
  BY <1>1, <1>2 DEF Fit, Ends
<1>4. filled + Chars(w, call.fmt) = filled
  <2>1. Chars(w, call.fmt) = 0
    BY <1>1 DEF Chars
  <2> QED
    BY <1>2, <2>1
<1>5. bad' = bad
  <2>1. nul /\ bad \in BOOLEAN
    BY <1>1, <1>2 DEF PrintInv, Printing, TypeOK
  <2> QED
    BY <1>1, <2>1
<1>6. Size' = Size
  BY <1>1 DEF Size
<1>7. TypeOK'
  BY <1>1, <1>5 DEF PrintInv, TypeOK
<1>8. Printing'
  <2>1. Good(rest', call'.fmt, filled', Size')
    BY <1>1, <1>2, <1>4, <1>6
  <2>2. Roomy'
    BY <1>1 DEF PrintInv, Printing, Roomy
  <2>3. noalloc' => length' = call'.size
    BY <1>1 DEF PrintInv, Printing
  <2>4. offset' = filled' /\ offset' <= filled'
    BY <1>1, <1>2
  <2> QED
    BY <1>1, <1>3, <2>1, <2>2, <2>3, <2>4 DEF Printing
<1>9. Called' /\ Fresh' /\ Trimming' /\ Counted'
  BY <1>1 DEF PrintInv, Called, Fresh, Trimming, Counted
<1>10. InBounds'
  BY <1>1, <1>5 DEF PrintInv, InBounds
<1>11. PrintedWhole' /\ BuffersReturned' /\ RoomSuffices'
  BY <1>1 DEF PrintedWhole, BuffersReturned, RoomSuffices
<1> QED
  BY <1>7, <1>8, <1>9, <1>10, <1>11 DEF PrintInv

\* Nothing is left, so that the text is whole.
LEMMA FinishKeeps ==
  ASSUME PrintInv, Finish
  PROVE  PrintInv'
<1>1. /\ pc = "printing" /\ rest = <<>> /\ call' = call /\ rest' = rest /\ length' = length
      /\ noalloc' = noalloc /\ filled' = filled /\ nul' = nul /\ buffers' = buffers
  BY DEF Finish
<1>2. filled \in Nat /\ Size \in Nat /\ call.fmt \in BOOLEAN
  BY <1>1, CallIs, CJsonPrintAssumption DEF PrintInv, TypeOK
<1>3. filled = Size
  <2>1. Good(<<>>, call.fmt, filled, Size)
    BY <1>1 DEF PrintInv, Printing
  <2> QED
    BY <1>2, <2>1, GoodWhole
<1>4. nul /\ filled < length
  <2>1. Closed(rest)
    BY <1>1 DEF Closed
  <2> QED
    BY <1>1, <2>1 DEF PrintInv, Printing, Roomy
<1>5. Size' = Size
  BY <1>1 DEF Size
<1>6. CASE call.fun = "print"
  <2>1. pc' = "trimming" /\ offset' = filled /\ bad' = (bad \/ ~nul)
    BY <1>6 DEF Finish
  <2>2. bad' = bad
    <3>1. bad \in BOOLEAN
      BY DEF PrintInv, TypeOK
    <3> QED
      BY <1>4, <2>1, <3>1
  <2>3. TypeOK'
    BY <1>1, <2>1, <2>2 DEF PrintInv, TypeOK
  <2>4. Called' /\ Fresh' /\ Printing' /\ Counted'
    BY <1>1, <2>1 DEF PrintInv, Called, Fresh, Printing, Counted
  <2>5. Trimming'
    BY <1>1, <1>3, <1>4, <1>5, <1>6, <2>1 DEF Trimming
  <2>6. InBounds' /\ PrintedWhole' /\ BuffersReturned' /\ RoomSuffices'
    BY <1>1, <2>1, <2>2
       DEF PrintInv, InBounds, PrintedWhole, BuffersReturned, RoomSuffices
  <2> QED
    BY <2>3, <2>4, <2>5, <2>6 DEF PrintInv
<1>7. CASE call.fun # "print"
  <2>1. pc' = "printed" /\ offset' = offset /\ bad' = bad
    BY <1>7 DEF Finish
  <2>2. buffers' = IF pc' = "printed" /\ call.fun # "preallocated" THEN 1 ELSE 0
    BY <1>1, <2>1 DEF PrintInv, Called, Counted
  <2>3. PrintedWhole'
    BY <1>1, <1>2, <1>3, <1>4, <1>5 DEF PrintedWhole
  <2>4. RoomSuffices' /\ length' \in 0 .. IntMax
    BY <1>1, <2>1 DEF RoomSuffices, PrintInv, TypeOK
  <2> QED
    BY <1>1, <2>1, <2>2, <2>3, <2>4, Stops
<1> QED
  BY <1>6, <1>7

LEMMA TrimKeeps ==
  ASSUME PrintInv, Trim
  PROVE  PrintInv'
<1>1. /\ pc = "trimming" /\ pc' = "printed" /\ length' = offset + 1
      /\ bad' = (bad \/ offset + 1 > length)
      /\ UNCHANGED <<call, rest, offset, noalloc, filled, nul, buffers>>
  BY DEF Trim
<1>2. call.fun = "print" /\ offset = filled /\ filled = Size /\ nul /\ filled < length
  BY <1>1 DEF PrintInv, Trimming
<1>3. filled \in Nat /\ length \in Nat /\ length <= IntMax /\ IntMax \in Nat
  BY CJsonPrintAssumption DEF PrintInv, TypeOK
<1>4. bad' = bad
  <2>1. bad \in BOOLEAN /\ ~(offset + 1 > length)
    BY <1>2, <1>3 DEF PrintInv, TypeOK
  <2> QED
    BY <1>1, <2>1
<1>5. length' \in 0 .. IntMax /\ filled < length'
  BY <1>1, <1>2, <1>3
<1>6. buffers' = IF pc' = "printed" /\ call.fun # "preallocated" THEN 1 ELSE 0
  <2>1. ~noalloc
    BY <1>1, <1>2 DEF PrintInv, Called
  <2> QED
    BY <1>1, <1>2, <2>1 DEF PrintInv, Counted
<1>7. PrintedWhole'
  <2>1. Size' = Size
    BY <1>1 DEF Size
  <2> QED
    BY <1>1, <1>2, <1>3, <1>5, <2>1 DEF PrintedWhole
<1>8. RoomSuffices'
  BY <1>1 DEF RoomSuffices
<1> QED
  BY <1>1, <1>4, <1>5, <1>6, <1>7, <1>8, Stops

LEMMA TrimFailsKeeps ==
  ASSUME PrintInv, TrimFails
  PROVE  PrintInv'
<1>1. /\ pc = "trimming" /\ pc' = "failed" /\ buffers' = buffers - 1
      /\ UNCHANGED <<call, rest, length, offset, noalloc, filled, nul, bad>>
  BY DEF TrimFails, buffer
<1>2. call.fun = "print"
  BY <1>1 DEF PrintInv, Trimming
<1>3. buffers' = 0
  <2>1. ~noalloc
    BY <1>1, <1>2 DEF PrintInv, Called
  <2> QED
    BY <1>1, <2>1 DEF PrintInv, Counted
<1>4. PrintedWhole' /\ RoomSuffices' /\ length' \in 0 .. IntMax
  BY <1>1, <1>2 DEF PrintedWhole, RoomSuffices, PrintInv, TypeOK
<1> QED
  BY <1>1, <1>3, <1>4, Stops

LEMMA StepKeeps ==
  ASSUME PrintInv, [Next]_vars
  PROVE  PrintInv'
<1>1. CASE UNCHANGED vars
  BY <1>1 DEF vars, buffer, PrintInv, TypeOK, Called, Fresh, Printing, Roomy, Trimming,
              Counted, InBounds, PrintedWhole, BuffersReturned, RoomSuffices, Size
<1>2. CASE Next
  BY <1>2, BeginKeeps, BeginFailsKeeps, ValueKeeps, NoTextKeeps, NextMemberKeeps,
     NoMemberKeeps, WriteKeeps, GrowKeeps, GrowFailsKeeps, RefuseKeeps, UpdateOffsetKeeps,
     FinishKeeps, TrimKeeps, TrimFailsKeeps DEF Next
<1> QED
  BY <1>1, <1>2

\* In every state of a run the invariant holds (cJSON.c:439-535, 1183-1821).
THEOREM PrintInvariant == Spec => []PrintInv
<1>1. Init => PrintInv
  BY InitKeeps
<1>2. PrintInv /\ [Next]_vars => PrintInv'
  BY StepKeeps
<1> QED
  BY <1>1, <1>2, PTL DEF Spec

\* Printing touches nothing outside its buffer, but for the byte that is copied from a
\* buffer of no length when the hooks have no realloc, and leaves no buffer behind
\* (cJSON.c:439-535, 1183-1305).
THEOREM PrintConsistent == Spec => []Consistent
<1>1. PrintInv => Consistent
  BY DEF PrintInv, Consistent
<1> QED
  BY <1>1, PrintInvariant, PTL

\* What is printed is the whole text with a NUL behind it, and a buffer of two bytes more
\* than the text is never refused (cJSON.c:439-535, 1288-1305, 1363-1821).
THEOREM PrintWhole == Spec => []Whole
<1>1. PrintInv => Whole
  BY DEF PrintInv, Whole
<1> QED
  BY <1>1, PrintInvariant, PTL

-----------------------------------------------------------------------------
(* Links and lists.                                                          *)

Fields == {"next", "prev", "child"}

\* Memory, as far as it holds links.
Links(h) ==
  /\ h = [f \in DOMAIN h |-> h[f]] /\ Fields \subseteq DOMAIN h
  /\ h.next \in [Item -> Pointer] /\ h.prev \in [Item -> Pointer]
  /\ h.child \in [Item -> Pointer]

\* Memory differs in links only.
Relinked(h, g) ==
  /\ Links(g) /\ DOMAIN g = DOMAIN h
  /\ \A f \in DOMAIN h \ Fields : g[f] = h[f]

LEMMA SetNext ==
  ASSUME NEW h, Links(h), NEW n \in Item, NEW p \in Pointer
  PROVE  LET g == [h EXCEPT !.next[n] = p] IN
           /\ Relinked(h, g) /\ g.next = [h.next EXCEPT ![n] = p]
           /\ g.prev = h.prev /\ g.child = h.child
BY DEF Links, Relinked, Fields

LEMMA SetPrev ==
  ASSUME NEW h, Links(h), NEW n \in Item, NEW p \in Pointer
  PROVE  LET g == [h EXCEPT !.prev[n] = p] IN
           /\ Relinked(h, g) /\ g.prev = [h.prev EXCEPT ![n] = p]
           /\ g.next = h.next /\ g.child = h.child
BY DEF Links, Relinked, Fields

LEMMA SetChild ==
  ASSUME NEW h, Links(h), NEW n \in Item, NEW p \in Pointer
  PROVE  LET g == [h EXCEPT !.child[n] = p] IN
           /\ Relinked(h, g) /\ g.child = [h.child EXCEPT ![n] = p]
           /\ g.next = h.next /\ g.prev = h.prev
BY DEF Links, Relinked, Fields

LEMMA Same == ASSUME NEW h, Links(h) PROVE Relinked(h, h)
BY DEF Relinked

-----------------------------------------------------------------------------
\* s is the list of b.
Linked(h, b, s) ==
  /\ h.child[b] = IF Len(s) = 0 THEN NULL ELSE s[1]
  /\ \A i \in 1 .. Len(s) :
       /\ h.next[s[i]] = IF i = Len(s) THEN NULL ELSE s[i + 1]
       /\ h.prev[s[i]] = IF i = 1 THEN s[Len(s)] ELSE s[i - 1]

\* l gives the list of every box it is about; no item is in two places.
Lists(h, l) ==
  /\ Links(h) /\ DOMAIN l \subseteq Item /\ l \in [DOMAIN l -> Seq(Item)]
  /\ \A b \in DOMAIN l : Linked(h, b, l[b])
  /\ \A b, c \in DOMAIN l : \A i \in 1 .. Len(l[b]), j \in 1 .. Len(l[c]) :
       l[b][i] = l[c][j] => b = c /\ i = j

\* n is in none of the lists.
Loose(n, l) == n \in Item /\ \A b \in DOMAIN l : \A i \in 1 .. Len(l[b]) : l[b][i] # n

LEMMA OneList ==
  ASSUME NEW h, NEW l, Lists(h, l), NEW b \in DOMAIN l
  PROVE  /\ b \in Item /\ l[b] \in Seq(Item) /\ Len(l[b]) \in Nat /\ Linked(h, b, l[b])
         /\ \A i \in 1 .. Len(l[b]) : l[b][i] \in Item
         /\ \A i, j \in 1 .. Len(l[b]) : l[b][i] = l[b][j] => i = j
<1>1. b \in Item /\ l[b] \in Seq(Item) /\ Linked(h, b, l[b])
  BY DEF Lists
<1>2. Len(l[b]) \in Nat /\ \A i \in 1 .. Len(l[b]) : l[b][i] \in Item
  BY <1>1
<1>3. \A i, j \in 1 .. Len(l[b]) : l[b][i] = l[b][j] => i = j
  BY DEF Lists
<1> QED
  BY <1>1, <1>2, <1>3

\* s takes the place of l[b], of its items and those of N; no other link is changed.
Splice(h, g, l, b, s, N) ==
  /\ Links(g) /\ s \in Seq(Item) /\ Linked(g, b, s)
  /\ N \subseteq Item /\ \A n \in N : Loose(n, l)
  /\ \A i, j \in 1 .. Len(s) : s[i] = s[j] => i = j
  /\ \A i \in 1 .. Len(s) : s[i] \in N \/ \E j \in 1 .. Len(l[b]) : s[i] = l[b][j]
  /\ \A c \in Item : c # b => g.child[c] = h.child[c]
  /\ \A m \in Item : m \notin N /\ (\A j \in 1 .. Len(l[b]) : l[b][j] # m) =>
                       g.next[m] = h.next[m] /\ g.prev[m] = h.prev[m]

\* A list that is changed by itself leaves the others as they are.
LEMMA Spliced ==
  ASSUME NEW h, NEW l, Lists(h, l), NEW b \in DOMAIN l,
         NEW g, NEW s, NEW N, Splice(h, g, l, b, s, N)
  PROVE  Lists(g, [l EXCEPT ![b] = s])
<1> USE DEF Splice
<1> DEFINE k == [l EXCEPT ![b] = s]
<1>1. /\ DOMAIN k = DOMAIN l /\ k[b] = s /\ \A c \in DOMAIN l : c # b => k[c] = l[c]
      /\ DOMAIN l \subseteq Item /\ l \in [DOMAIN l -> Seq(Item)]
  BY DEF Lists
<1>2. k \in [DOMAIN k -> Seq(Item)]
  BY <1>1
<1> HIDE DEF k
<1>3. ASSUME NEW c \in DOMAIN k PROVE Linked(g, c, k[c])
  <2>1. CASE c = b
    BY <1>1, <2>1
  <2>2. CASE c # b
    <3>1. c \in DOMAIN l /\ k[c] = l[c] /\ g.child[c] = h.child[c]
      BY <1>1, <2>2
    <3>2. /\ Linked(h, c, l[c])
          /\ \A i \in 1 .. Len(l[c]) : l[c][i] \in Item
      BY <3>1, OneList
    <3>3. ASSUME NEW i \in 1 .. Len(l[c])
          PROVE  g.next[l[c][i]] = h.next[l[c][i]] /\ g.prev[l[c][i]] = h.prev[l[c][i]]
      <4>1. l[c][i] \notin N
        BY <3>1 DEF Loose
      <4>2. \A j \in 1 .. Len(l[b]) : l[b][j] # l[c][i]
        BY <2>2, <3>1 DEF Lists
      <4> QED
        BY <3>2, <4>1, <4>2
    <3> QED
      BY <3>1, <3>2, <3>3 DEF Linked
  <2> QED
    BY <2>1, <2>2
<1>4. ASSUME NEW c \in DOMAIN k, NEW d \in DOMAIN k,
             NEW i \in 1 .. Len(k[c]), NEW j \in 1 .. Len(k[d]), k[c][i] = k[d][j]
      PROVE  c = d /\ i = j
  <2>1. CASE c = b /\ d = b
    BY <1>1, <1>4, <2>1
  <2>2. CASE c # b /\ d # b
    <3>1. c \in DOMAIN l /\ d \in DOMAIN l /\ k[c] = l[c] /\ k[d] = l[d]
      BY <1>1, <2>2
    <3> QED
      BY <1>4, <3>1 DEF Lists
  <2>3. ASSUME NEW e \in DOMAIN l, e # b, NEW x \in 1 .. Len(s), NEW y \in 1 .. Len(l[e]),
               s[x] = l[e][y]
        PROVE  FALSE
    <3>1. s[x] \notin N
      BY <2>3 DEF Loose
    <3>2. PICK z \in 1 .. Len(l[b]) : s[x] = l[b][z]
      BY <3>1
    <3>3. l[b][z] = l[e][y] => b = e
      BY DEF Lists
    <3> QED
      BY <2>3, <3>2, <3>3
  <2>4. CASE c = b /\ d # b
    BY <1>1, <1>4, <2>3, <2>4
  <2>5. CASE c # b /\ d = b
    BY <1>1, <1>4, <2>3, <2>5
  <2> QED
    BY <2>1, <2>2, <2>4, <2>5
<1>5. DOMAIN k \subseteq Item
  BY <1>1
<1>6. Lists(g, k)
  BY <1>2, <1>3, <1>4, <1>5 DEF Lists
<1> QED
  BY <1>6 DEF k

-----------------------------------------------------------------------------
(* Children is the list.                                                     *)

\* f[k][n] is what is met from n on in k steps.
Walks(h, f, K) ==
  f = [k \in K |-> [n \in Pointer |->
                      IF n = NULL \/ k = 0 THEN <<>> ELSE <<n>> \o f[k - 1][h.next[n]]]]

LEMMA WalkExists == ASSUME NEW h PROVE \E f : Walks(h, f, Steps)
<1> DEFINE T == {k \in Nat : ~ \E f : Walks(h, f, 0 .. k)}
<1>1. ASSUME T # {} PROVE FALSE
  <2>1. T \in SUBSET Nat
    OBVIOUS
  <2> HIDE DEF T
  <2>2. PICK m \in T : \A k \in T : m <= k
    BY <1>1, <2>1, Smallest
  <2>3. m \in Nat /\ ~ \E f : Walks(h, f, 0 .. m)
    BY <2>2 DEF T
  <2>4. CASE m = 0
    <3> DEFINE f == [k \in 0 .. 0 |-> [n \in Pointer |-> <<>>]]
    <3>1. Walks(h, f, 0 .. m)
      <4>1. \A k \in 0 .. 0 : k = 0
        OBVIOUS
      <4> QED
        BY <2>4, <4>1 DEF Walks
    <3> QED
      BY <2>3, <3>1
  <2>5. CASE m # 0
    <3>1. m - 1 \in Nat /\ ~(m <= m - 1) /\ m - 1 \notin T
      BY <2>2, <2>3, <2>5
    <3>2. PICK e : Walks(h, e, 0 .. m - 1)
      BY <3>1 DEF T
    <3> DEFINE row == [n \in Pointer |-> IF n = NULL THEN <<>> ELSE <<n>> \o e[m - 1][h.next[n]]]
        f == [k \in 0 .. m |-> IF k = m THEN row ELSE e[k]]
    <3>3. \A k \in 0 .. m - 1 : f[k] = e[k] /\ k \in 0 .. m /\ k # m
      BY <2>3
    <3>4. \A k \in 0 .. m : k = m \/ k \in 0 .. m - 1
      BY <2>3
    <3>5. \A k \in 0 .. m : k # 0 => k - 1 \in 0 .. m - 1
      BY <2>3
    <3>6. f[m] = row /\ m \in 0 .. m
      BY <2>3
    <3> DEFINE is(g, k) == [n \in Pointer |-> IF n = NULL \/ k = 0 THEN <<>> ELSE <<n>> \o g[k - 1][h.next[n]]]
    <3>7. \A k \in 0 .. m - 1 : e[k] = is(e, k)
      BY <3>2 DEF Walks
    <3> HIDE DEF f
    <3>8. \A k \in 0 .. m : is(f, k) = IF k = m THEN row ELSE is(e, k)
      <4> SUFFICES ASSUME NEW k \in 0 .. m PROVE is(f, k) = IF k = m THEN row ELSE is(e, k)
        OBVIOUS
      <4>1. CASE k = 0
        BY <2>5, <4>1
      <4>2. CASE k # 0
        <5>1. f[k - 1] = e[k - 1]
          BY <3>3, <3>5, <4>2
        <5>2. is(f, k) = is(e, k)
          BY <5>1
        <5>3. CASE k = m
          BY <2>5, <5>2, <5>3
        <5> QED
          BY <5>2, <5>3
      <4> QED
        BY <4>1, <4>2
    <3>9. \A k \in 0 .. m : f[k] = is(f, k)
      <4> HIDE DEF is, row
      <4> QED
        BY <3>3, <3>4, <3>6, <3>7, <3>8
    <3>10. f = [k \in 0 .. m |-> f[k]]
      BY DEF f
    <3>11. f = [k \in 0 .. m |-> is(f, k)]
      <4> HIDE DEF is
      <4> QED
        BY <3>9, <3>10
    <3>12. Walks(h, f, 0 .. m)
      BY <3>11 DEF Walks
    <3> QED
      BY <2>3, <3>12
  <2> QED
    BY <2>4, <2>5
<1>2. MaxItems + 1 \in Nat
  BY MaxItemsAssumption
<1> QED
  BY <1>1, <1>2 DEF Steps

\* No list is longer than memory has items.
LEMMA ListFits ==
  ASSUME NEW s \in Seq(Item), \A i, j \in 1 .. Len(s) : s[i] = s[j] => i = j
  PROVE  Len(s) <= MaxItems
<1>1. SUFFICES ASSUME Len(s) > MaxItems PROVE FALSE
  BY MaxItemsAssumption
<1>2. /\ IsFiniteSet(1 .. Len(s)) /\ Cardinality(1 .. Len(s)) = Len(s)
      /\ IsFiniteSet(Item) /\ Cardinality(Item) = MaxItems
  <2>1. Len(s) \in Int /\ MaxItems \in Int /\ 1 \in Int
    BY MaxItemsAssumption
  <2>2. /\ IsFiniteSet(1 .. Len(s)) /\ Cardinality(1 .. Len(s)) = IF 1 > Len(s) THEN 0 ELSE Len(s) - 1 + 1
        /\ IsFiniteSet(1 .. MaxItems) /\ Cardinality(1 .. MaxItems) = IF 1 > MaxItems THEN 0 ELSE MaxItems - 1 + 1
    BY <2>1, FS_Interval
  <2> QED
    BY <2>2, MaxItemsAssumption DEF Item
<1>3. s \in [1 .. Len(s) -> Item]
  OBVIOUS
<1>4. \E i, j \in 1 .. Len(s) : i # j /\ s[i] = s[j]
  BY <1>1, <1>2, <1>3, FS_PigeonHole, MaxItemsAssumption
<1> QED
  BY <1>4

\* The walk over next from the first child meets the items of the list, in their order,
\* and ends (cJSON.c:1824-1874).
THEOREM ChildrenAre ==
  ASSUME NEW h, NEW l, Lists(h, l), NEW b \in DOMAIN l
  PROVE  Children(h, b) = l[b]
<1> DEFINE s == l[b]
    k == Len(s)
<1>1. /\ b \in Item /\ s \in Seq(Item) /\ k \in Nat /\ Linked(h, b, s)
      /\ \A i \in 1 .. k : s[i] \in Item
      /\ \A i, j \in 1 .. k : s[i] = s[j] => i = j
  BY OneList
<1>2. k <= MaxItems
  BY <1>1, ListFits
<1>3. /\ \A i \in 1 .. k : s[i] \in Pointer /\ s[i] # NULL
      /\ NULL \in Pointer /\ MaxItems + 1 \in Steps /\ MaxItems + 1 \in Nat /\ MaxItems + 1 > k
  BY <1>1, <1>2, MaxItemsAssumption DEF Pointer, Item, NULL, Steps
<1> DEFINE w == CHOOSE f : f = [m \in Steps |-> [n \in Pointer |->
                  IF n = NULL \/ m = 0 THEN <<>> ELSE <<n>> \o f[m - 1][h.next[n]]]]
<1>4. Children(h, b) = w[MaxItems + 1][h.child[b]]
  BY DEF Children
<1>5. w = [m \in Steps |-> [n \in Pointer |->
             IF n = NULL \/ m = 0 THEN <<>> ELSE <<n>> \o w[m - 1][h.next[n]]]]
  BY WalkExists DEF Walks
<1> HIDE DEF w, s, k
<1>6. \A m \in Steps : w[m] = [n \in Pointer |->
             IF n = NULL \/ m = 0 THEN <<>> ELSE <<n>> \o w[m - 1][h.next[n]]]
  BY <1>5
<1>7. \A m \in Steps : w[m][NULL] = <<>>
  BY <1>3, <1>6
<1>8. \A m \in Steps : \A n \in Pointer \ {NULL} : m # 0 => w[m][n] = <<n>> \o w[m - 1][h.next[n]]
  BY <1>6
<1> DEFINE Right(d) == \A i \in 1 .. k, m \in Steps :
                         i = k - d /\ m > d => w[m][s[i]] = SubSeq(s, i, k)
    T == {d \in Nat : ~ Right(d)}
<1>9. ASSUME T # {} PROVE FALSE
  <2>1. T \in SUBSET Nat
    OBVIOUS
  <2> HIDE DEF T
  <2>2. PICK d \in T : \A e \in T : d <= e
    BY <1>9, <2>1, Smallest
  <2>3. d \in Nat /\ ~ Right(d)
    BY <2>2 DEF T
  <2>4. PICK i \in 1 .. k, m \in Steps : i = k - d /\ m > d /\ w[m][s[i]] # SubSeq(s, i, k)
    BY <2>3
  <2>5. m \in Nat /\ m # 0 /\ m - 1 \in Steps
    BY <2>3, <2>4, MaxItemsAssumption DEF Steps
  <2>6. w[m][s[i]] = <<s[i]>> \o w[m - 1][h.next[s[i]]]
    BY <1>3, <1>8, <2>5
  <2>7. SubSeq(s, i, k) = <<s[i]>> \o SubSeq(s, i + 1, k)
    <3>1. i \in 1 .. Len(s) /\ Len(s) \in i .. Len(s)
      BY <1>1 DEF k
    <3> QED
      BY <1>1, <3>1, SubSeqRecursiveFirst DEF k
  <2>8. w[m - 1][h.next[s[i]]] = SubSeq(s, i + 1, k)
    <3>1. CASE d = 0
      <4>1. i = k /\ h.next[s[i]] = NULL
        BY <1>1, <2>4, <3>1 DEF Linked, k
      <4>2. SubSeq(s, k + 1, k) = <<>>
        <5>1. Len(SubSeq(s, k + 1, k)) = 0 /\ SubSeq(s, k + 1, k) \in Seq(Item)
          <6>1. k + 1 \in Int /\ k \in Int /\ ~(k + 1 <= k) /\ \A j \in k + 1 .. k : s[j] \in Item
            BY <1>1
          <6> QED
            BY <6>1, SubSeqProperties
        <5> QED
          BY <5>1
      <4> QED
        BY <1>7, <2>5, <4>1, <4>2
    <3>2. CASE d # 0
      <4>1. d - 1 \in Nat /\ ~(d <= d - 1) /\ i + 1 \in 1 .. k /\ i + 1 = k - (d - 1) /\ m - 1 > d - 1
        BY <1>1, <2>3, <2>4, <2>5, <3>2
      <4>2. Right(d - 1)
        BY <2>2, <4>1 DEF T
      <4>3. h.next[s[i]] = s[i + 1]
        <5>1. i # k
          BY <1>1, <4>1
        <5> QED
          BY <1>1, <5>1 DEF Linked, k
      <4> QED
        BY <2>5, <4>1, <4>2, <4>3
    <3> QED
      BY <3>1, <3>2
  <2> QED
    BY <2>4, <2>6, <2>7, <2>8
<1>10. w[MaxItems + 1][h.child[b]] = s
  <2>1. CASE k = 0
    <3>1. h.child[b] = NULL /\ s = <<>>
      BY <1>1, <2>1 DEF Linked, k
    <3> QED
      BY <1>3, <1>7, <3>1
  <2>2. CASE k # 0
    <3>1. h.child[b] = s[1] /\ 1 \in 1 .. k
      BY <1>1, <2>2 DEF Linked, k
    <3>2. k - 1 \in Nat /\ 1 = k - (k - 1) /\ MaxItems + 1 > k - 1
      BY <1>1, <1>3, <2>2
    <3>3. Right(k - 1)
      BY <1>9, <3>2
    <3>4. w[MaxItems + 1][s[1]] = SubSeq(s, 1, k)
      BY <1>3, <3>1, <3>2, <3>3
    <3>5. SubSeq(s, 1, k) = s
      BY <1>1, SubSeqFull DEF k
    <3> QED
      BY <3>1, <3>4, <3>5
  <2> QED
    BY <2>1, <2>2
<1> QED
  BY <1>4, <1>10 DEF s

-----------------------------------------------------------------------------
(* The four ways to change a list.                                           *)

\* An item is appended, found through the prev of the first (cJSON.c:1952-1983).
THEOREM AddAppends ==
  ASSUME NEW h, NEW l, Lists(h, l), NEW b \in DOMAIN l,
         NEW n, Loose(n, l), h.next[n] = NULL
  PROVE  LET g == add_item_to_array(h, b, n) IN
           /\ Relinked(h, g)
           /\ Lists(g, [l EXCEPT ![b] = Append(@, n)])
<1> DEFINE s == l[b]
    t == Append(s, n)
    k == Len(s)
    g == add_item_to_array(h, b, n)
<1>1. /\ b \in Item /\ s \in Seq(Item) /\ k \in Nat /\ Linked(h, b, s)
      /\ \A i \in 1 .. k : s[i] \in Item
      /\ \A i, j \in 1 .. k : s[i] = s[j] => i = j
  BY OneList
<1>2. n \in Item /\ n # NULL /\ n \in Pointer /\ \A i \in 1 .. k : s[i] # n
  BY DEF Loose, Item, Pointer, NULL
<1>3. /\ t \in Seq(Item) /\ Len(t) = k + 1 /\ t[k + 1] = n
      /\ \A i \in 1 .. k : t[i] = s[i] /\ i \in 1 .. k + 1
  BY <1>1, <1>2
<1>4. Links(h) /\ NULL \in Pointer /\ Item \subseteq Pointer /\ NULL \notin Item
  BY MaxItemsAssumption DEF Lists, Pointer, NULL, Item
<1> HIDE DEF s, t, k, g
<1>5. /\ Relinked(h, g) /\ Linked(g, b, t)
      /\ \A c \in Item : c # b => g.child[c] = h.child[c]
      /\ \A m \in Item : m # n /\ (\A j \in 1 .. k : s[j] # m) =>
                           g.next[m] = h.next[m] /\ g.prev[m] = h.prev[m]
  <2>1. CASE k = 0
    <3>1. h.child[b] = NULL
      BY <1>1, <2>1 DEF Linked, k
    <3> DEFINE e == [h EXCEPT !.child[b] = n]
        f == [e EXCEPT !.prev[n] = n]
    <3>2. g = [f EXCEPT !.next[n] = NULL]
      BY <3>1 DEF g, add_item_to_array
    <3>3. /\ Relinked(h, e) /\ e.child = [h.child EXCEPT ![b] = n]
          /\ e.next = h.next /\ e.prev = h.prev
      BY <1>1, <1>2, <1>4, SetChild
    <3> HIDE DEF e
    <3>4. /\ Relinked(e, f) /\ f.prev = [e.prev EXCEPT ![n] = n]
          /\ f.next = e.next /\ f.child = e.child
      BY <1>2, <3>3, SetPrev DEF Relinked
    <3> HIDE DEF f
    <3>5. /\ Relinked(f, g) /\ g.next = [f.next EXCEPT ![n] = NULL]
          /\ g.prev = f.prev /\ g.child = f.child
      BY <1>2, <1>4, <3>2, <3>4, SetNext DEF Relinked
    <3>6. Relinked(h, g)
      BY <3>3, <3>4, <3>5 DEF Relinked
    <3>7. /\ g.next = [h.next EXCEPT ![n] = NULL] /\ g.prev = [h.prev EXCEPT ![n] = n]
          /\ g.child = [h.child EXCEPT ![b] = n]
      BY <3>3, <3>4, <3>5
    <3>8. /\ g.child[b] = n /\ g.next[n] = NULL /\ g.prev[n] = n
          /\ \A c \in Item : c # b => g.child[c] = h.child[c]
          /\ \A m \in Item : m # n => g.next[m] = h.next[m] /\ g.prev[m] = h.prev[m]
      BY <1>1, <1>2, <1>4, <3>7 DEF Links
    <3>9. Linked(g, b, t)
      <4>1. Len(t) = 1 /\ t[1] = n
        BY <1>3, <2>1
      <4> QED
        BY <3>8, <4>1 DEF Linked
    <3> QED
      BY <3>6, <3>8, <3>9
  <2>2. CASE k # 0
    <3>1. /\ h.child[b] = s[1] /\ h.prev[s[1]] = s[k] /\ 1 \in 1 .. k /\ k \in 1 .. k
          /\ s[1] \in Item /\ s[k] \in Item
      BY <1>1, <2>2 DEF Linked, k
    <3> DEFINE e == [h EXCEPT !.next[s[k]] = n]
        f == [e EXCEPT !.prev[n] = s[k]]
    <3>2. g = [f EXCEPT !.prev[s[1]] = n]
      BY <1>4, <3>1 DEF g, add_item_to_array, suffix_object
    <3>3. /\ Relinked(h, e) /\ e.next = [h.next EXCEPT ![s[k]] = n]
          /\ e.prev = h.prev /\ e.child = h.child
      BY <1>2, <1>4, <3>1, SetNext
    <3> HIDE DEF e
    <3>4. /\ Relinked(e, f) /\ f.prev = [e.prev EXCEPT ![n] = s[k]]
          /\ f.next = e.next /\ f.child = e.child
      BY <1>2, <1>4, <3>1, <3>3, SetPrev DEF Relinked
    <3> HIDE DEF f
    <3>5. /\ Relinked(f, g) /\ g.prev = [f.prev EXCEPT ![s[1]] = n]
          /\ g.next = f.next /\ g.child = f.child
      BY <1>2, <3>1, <3>2, <3>4, SetPrev DEF Relinked
    <3>6. Relinked(h, g)
      BY <3>3, <3>4, <3>5 DEF Relinked
    <3>7. /\ g.next = [h.next EXCEPT ![s[k]] = n]
          /\ g.prev = [h.prev EXCEPT ![n] = s[k], ![s[1]] = n]
          /\ g.child = h.child
      BY <3>3, <3>4, <3>5
    <3>8. /\ g.next[s[k]] = n /\ \A m \in Item : m # s[k] => g.next[m] = h.next[m]
          /\ g.prev[s[1]] = n /\ g.prev[n] = s[k]
          /\ \A m \in Item : m # n /\ m # s[1] => g.prev[m] = h.prev[m]
      BY <1>2, <1>4, <3>1, <3>7 DEF Links
    <3>9. Linked(g, b, t)
      <4>1. g.child[b] = t[1]
        BY <1>3, <3>1, <3>7
      <4>2. ASSUME NEW i \in 1 .. k + 1
            PROVE  /\ g.next[t[i]] = IF i = k + 1 THEN NULL ELSE t[i + 1]
                   /\ g.prev[t[i]] = IF i = 1 THEN t[k + 1] ELSE t[i - 1]
        <5>1. CASE i = k + 1
          <6>1. t[i] = n /\ i # 1 /\ t[i - 1] = s[k]
            BY <1>1, <1>3, <2>2, <3>1, <5>1
          <6>2. g.next[n] = NULL
            BY <1>2, <3>1, <3>8
          <6> QED
            BY <3>8, <5>1, <6>1, <6>2
        <5>2. CASE i # k + 1
          <6>1. i \in 1 .. k /\ i \in Nat /\ i # 0
            BY <1>1, <5>2
          <6>2. t[i] = s[i] /\ s[i] \in Item /\ s[i] # n
            BY <1>1, <1>2, <1>3, <6>1
          <6>3. g.next[s[i]] = t[i + 1]
            <7>1. CASE i = k
              BY <1>3, <3>8, <7>1
            <7>2. CASE i # k
              <8>1. i + 1 \in 1 .. k /\ s[i] # s[k]
                BY <1>1, <3>1, <6>1, <7>2
              <8>2. h.next[s[i]] = s[i + 1]
                BY <1>1, <6>1, <7>2 DEF Linked, k
              <8> QED
                BY <1>3, <3>8, <6>2, <8>1, <8>2
            <7> QED
              BY <7>1, <7>2
          <6>4. g.prev[s[i]] = IF i = 1 THEN n ELSE t[i - 1]
            <7>1. CASE i = 1
              BY <3>8, <7>1
            <7>2. CASE i # 1
              <8>1. i - 1 \in 1 .. k /\ s[i] # s[1]
                BY <1>1, <3>1, <6>1, <7>2
              <8>2. h.prev[s[i]] = s[i - 1]
                BY <1>1, <6>1, <7>2 DEF Linked, k
              <8> QED
                BY <1>3, <3>8, <6>2, <7>2, <8>1, <8>2
            <7> QED
              BY <7>1, <7>2
          <6> QED
            BY <1>3, <5>2, <6>2, <6>3, <6>4
        <5> QED
          BY <5>1, <5>2
      <4>3. Len(t) # 0
        BY <1>1, <1>3
      <4> QED
        BY <1>3, <4>1, <4>2, <4>3 DEF Linked
    <3> QED
      BY <3>1, <3>6, <3>7, <3>8, <3>9
  <2> QED
    BY <2>1, <2>2
<1>6. \A i, j \in 1 .. Len(t) : t[i] = t[j] => i = j
  <2>1. \A i \in 1 .. k + 1 : i = k + 1 \/ i \in 1 .. k
    BY <1>1
  <2> QED
    BY <1>1, <1>2, <1>3, <2>1
<1>7. \A i \in 1 .. Len(t) : t[i] = n \/ \E j \in 1 .. k : t[i] = s[j]
  <2>1. \A i \in 1 .. k + 1 : i = k + 1 \/ i \in 1 .. k
    BY <1>1
  <2> QED
    BY <1>3, <2>1
<1>8. Links(g)
  BY <1>5 DEF Relinked
<1>9. Lists(g, [l EXCEPT ![b] = t])
  <2>1. \A i \in 1 .. Len(t) : t[i] \in {n} \/ \E j \in 1 .. Len(l[b]) : t[i] = l[b][j]
    BY <1>7 DEF s, k
  <2>2. \A m \in Item : m \notin {n} /\ (\A j \in 1 .. Len(l[b]) : l[b][j] # m) =>
                          g.next[m] = h.next[m] /\ g.prev[m] = h.prev[m]
    BY <1>5 DEF s, k
  <2>3. {n} \subseteq Item /\ \A m \in {n} : Loose(m, l)
    BY <1>2
  <2>4. Splice(h, g, l, b, t, {n})
    BY <1>3, <1>5, <1>6, <1>8, <2>1, <2>2, <2>3 DEF Splice
  <2> QED
    BY <2>4, Spliced
<1> QED
  BY <1>5, <1>9 DEF g, t, s

\* An item is taken out (cJSON.c:2183-2217).
LEMMA RemoveAtIs ==
  ASSUME NEW s \in Seq(Item), NEW i \in 1 .. Len(s)
  PROVE  /\ RemoveAt(s, i) \in Seq(Item) /\ Len(RemoveAt(s, i)) = Len(s) - 1
         /\ \A j \in 1 .. Len(s) - 1 : RemoveAt(s, i)[j] = IF j < i THEN s[j] ELSE s[j + 1]
<1> DEFINE k == Len(s)
    x == SubSeq(s, 1, i - 1)
    y == SubSeq(s, i + 1, k)
<1>1. k \in Nat /\ i \in Nat /\ i # 0 /\ i <= k
  OBVIOUS
<1>2. x \in Seq(Item) /\ Len(x) = i - 1 /\ \A j \in 1 .. i - 1 : x[j] = s[j]
  <2>1. 1 \in Int /\ i - 1 \in Int /\ \A j \in 1 .. i - 1 : s[j] \in Item
    BY <1>1
  <2>2. /\ x \in Seq(Item) /\ Len(x) = (IF 1 <= i - 1 THEN i - 1 - 1 + 1 ELSE 0)
        /\ \A j \in 1 .. i - 1 - 1 + 1 : x[j] = s[1 + j - 1]
    BY <2>1, SubSeqProperties
  <2> QED
    BY <1>1, <2>2
<1>3. y \in Seq(Item) /\ Len(y) = k - i /\ \A j \in 1 .. k - i : y[j] = s[i + j]
  <2>1. i + 1 \in Int /\ k \in Int /\ \A j \in i + 1 .. k : s[j] \in Item
    BY <1>1
  <2>2. /\ y \in Seq(Item) /\ Len(y) = (IF i + 1 <= k THEN k - (i + 1) + 1 ELSE 0)
        /\ \A j \in 1 .. k - (i + 1) + 1 : y[j] = s[i + 1 + j - 1]
    BY <2>1, SubSeqProperties
  <2> QED
    BY <1>1, <2>2
<1>4. RemoveAt(s, i) = x \o y
  BY DEF RemoveAt
<1> HIDE DEF x, y
<1>5. /\ x \o y \in Seq(Item) /\ Len(x \o y) = i - 1 + (k - i)
      /\ \A j \in 1 .. i - 1 + (k - i) : (x \o y)[j] = IF j <= i - 1 THEN x[j] ELSE y[j - (i - 1)]
  <2>1. /\ x \o y \in Seq(Item) /\ Len(x \o y) = Len(x) + Len(y)
        /\ \A j \in 1 .. Len(x) + Len(y) : (x \o y)[j] = IF j <= Len(x) THEN x[j] ELSE y[j - Len(x)]
    BY <1>2, <1>3, ConcatProperties
  <2> QED
    BY <1>2, <1>3, <2>1
<1>6. ASSUME NEW j \in 1 .. k - 1 PROVE (x \o y)[j] = IF j < i THEN s[j] ELSE s[j + 1]
  <2>1. j \in 1 .. i - 1 + (k - i)
    BY <1>1
  <2>2. CASE j < i
    <3>1. j <= i - 1 /\ j \in 1 .. i - 1
      BY <1>1, <2>2
    <3> QED
      BY <1>2, <1>5, <2>1, <2>2, <3>1
  <2>3. CASE ~(j < i)
    <3>1. ~(j <= i - 1) /\ j - (i - 1) \in 1 .. k - i /\ i + (j - (i - 1)) = j + 1
      BY <1>1, <2>3
    <3>2. (x \o y)[j] = y[j - (i - 1)]
      BY <1>5, <2>1, <3>1
    <3> QED
      BY <1>3, <2>3, <3>1, <3>2
  <2> QED
    BY <2>2, <2>3
<1> QED
  BY <1>1, <1>4, <1>5, <1>6

LEMMA InsertAtIs ==
  ASSUME NEW s \in Seq(Item), NEW i \in 1 .. Len(s), NEW n \in Item
  PROVE  /\ InsertAt(s, i, n) \in Seq(Item) /\ Len(InsertAt(s, i, n)) = Len(s) + 1
         /\ \A j \in 1 .. Len(s) + 1 :
              InsertAt(s, i, n)[j] = IF j < i THEN s[j] ELSE IF j = i THEN n ELSE s[j - 1]
<1> DEFINE k == Len(s)
    x == SubSeq(s, 1, i - 1)
    y == SubSeq(s, i, k)
    z == x \o <<n>>
<1>1. k \in Nat /\ i \in Nat /\ i # 0 /\ i <= k
  OBVIOUS
<1>2. x \in Seq(Item) /\ Len(x) = i - 1 /\ \A j \in 1 .. i - 1 : x[j] = s[j]
  <2>1. 1 \in Int /\ i - 1 \in Int /\ \A j \in 1 .. i - 1 : s[j] \in Item
    BY <1>1
  <2>2. /\ x \in Seq(Item) /\ Len(x) = (IF 1 <= i - 1 THEN i - 1 - 1 + 1 ELSE 0)
        /\ \A j \in 1 .. i - 1 - 1 + 1 : x[j] = s[1 + j - 1]
    BY <2>1, SubSeqProperties
  <2> QED
    BY <1>1, <2>2
<1>3. /\ y \in Seq(Item) /\ Len(y) = k - i + 1
      /\ \A j \in 1 .. k - i + 1 : y[j] = s[i + j - 1]
  <2>1. i \in Int /\ k \in Int /\ \A j \in i .. k : s[j] \in Item
    BY <1>1
  <2>2. /\ y \in Seq(Item) /\ Len(y) = (IF i <= k THEN k - i + 1 ELSE 0)
        /\ \A j \in 1 .. k - i + 1 : y[j] = s[i + j - 1]
    BY <2>1, SubSeqProperties
  <2> QED
    BY <1>1, <2>2
<1>4. InsertAt(s, i, n) = z \o y
  BY DEF InsertAt
<1> HIDE DEF x, y
<1>5. /\ z \in Seq(Item) /\ Len(z) = i /\ z[i] = n /\ \A j \in 1 .. i - 1 : z[j] = s[j]
  <2>1. <<n>> \in Seq(Item) /\ Len(<<n>>) = 1 /\ <<n>>[1] = n
    OBVIOUS
  <2>2. /\ z \in Seq(Item) /\ Len(z) = i - 1 + 1
        /\ \A j \in 1 .. i - 1 + 1 : z[j] = IF j <= i - 1 THEN x[j] ELSE <<n>>[j - (i - 1)]
    BY <1>2, <2>1, ConcatProperties
  <2>3. i \in 1 .. i - 1 + 1 /\ ~(i <= i - 1) /\ i - (i - 1) = 1
    BY <1>1
  <2>4. \A j \in 1 .. i - 1 : j \in 1 .. i - 1 + 1 /\ j <= i - 1
    BY <1>1
  <2> HIDE DEF z
  <2> QED
    BY <1>1, <1>2, <2>1, <2>2, <2>3, <2>4
<1> HIDE DEF z
<1>6. /\ z \o y \in Seq(Item) /\ Len(z \o y) = i + (k - i + 1)
      /\ \A j \in 1 .. i + (k - i + 1) : (z \o y)[j] = IF j <= i THEN z[j] ELSE y[j - i]
  <2>1. /\ z \o y \in Seq(Item) /\ Len(z \o y) = Len(z) + Len(y)
        /\ \A j \in 1 .. Len(z) + Len(y) : (z \o y)[j] = IF j <= Len(z) THEN z[j] ELSE y[j - Len(z)]
    BY <1>3, <1>5, ConcatProperties
  <2> QED
    BY <1>3, <1>5, <2>1
<1>7. ASSUME NEW j \in 1 .. k + 1
      PROVE  (z \o y)[j] = IF j < i THEN s[j] ELSE IF j = i THEN n ELSE s[j - 1]
  <2>1. j \in 1 .. i + (k - i + 1)
    BY <1>1
  <2>2. CASE j < i
    <3>1. j <= i /\ j \in 1 .. i - 1
      BY <1>1, <2>2
    <3> QED
      BY <1>5, <1>6, <2>1, <2>2, <3>1
  <2>3. CASE j = i
    <3>1. j <= i /\ ~(j < i)
      BY <1>1, <2>3
    <3> QED
      BY <1>5, <1>6, <2>1, <2>3, <3>1
  <2>4. CASE j > i
    <3>1. ~(j <= i) /\ ~(j < i) /\ j # i /\ j - i \in 1 .. k - i + 1 /\ i + (j - i) - 1 = j - 1
      BY <1>1, <2>4
    <3>2. (z \o y)[j] = y[j - i]
      BY <1>6, <2>1, <3>1
    <3> QED
      BY <1>3, <3>1, <3>2
  <2>5. j < i \/ j = i \/ j > i
    BY <1>1
  <2> QED
    BY <2>2, <2>3, <2>4, <2>5
<1>8. i + (k - i + 1) = k + 1
  BY <1>1
<1> HIDE DEF k
<1>9. /\ z \o y \in Seq(Item) /\ Len(z \o y) = k + 1
      /\ \A j \in 1 .. k + 1 : (z \o y)[j] = IF j < i THEN s[j] ELSE IF j = i THEN n ELSE s[j - 1]
  BY <1>6, <1>7, <1>8
<1> QED
  BY <1>4, <1>9 DEF k

\* An item is taken out of its list, whatever its place, and its own links are cleared
\* (cJSON.c:2183-2217).
THEOREM DetachRemoves ==
  ASSUME NEW h, NEW l, Lists(h, l), NEW b \in DOMAIN l, NEW i \in 1 .. Len(l[b])
  PROVE  LET g == DetachItemViaPointer(h, b, l[b][i]) IN
           /\ Relinked(h, g) /\ g.next[l[b][i]] = NULL /\ g.prev[l[b][i]] = NULL
           /\ Lists(g, [l EXCEPT ![b] = RemoveAt(@, i)])
<1> DEFINE s == l[b]
    k == Len(s)
    n == s[i]
    t == RemoveAt(s, i)
    g == DetachItemViaPointer(h, b, n)
<1>1. /\ b \in Item /\ s \in Seq(Item) /\ k \in Nat /\ Linked(h, b, s)
      /\ \A j \in 1 .. k : s[j] \in Item
      /\ \A j, m \in 1 .. k : s[j] = s[m] => j = m
  BY OneList
<1>2. /\ i \in Nat /\ i # 0 /\ i <= k /\ i \in 1 .. k /\ n \in Item
      /\ 1 \in 1 .. k /\ k \in 1 .. k /\ k # 0
      /\ i > 1 => i - 1 \in 1 .. k
      /\ i < k => i + 1 \in 1 .. k
  BY <1>1
<1>3. /\ t \in Seq(Item) /\ Len(t) = k - 1
      /\ \A j \in 1 .. k - 1 : t[j] = IF j < i THEN s[j] ELSE s[j + 1]
  BY <1>1, RemoveAtIs
<1>4. Links(h) /\ NULL \in Pointer /\ Item \subseteq Pointer /\ NULL \notin Item
  BY MaxItemsAssumption DEF Lists, Pointer, NULL, Item
<1> HIDE DEF s, t, k, g, n
<1>5. /\ h.child[b] = s[1] /\ s[1] \in Item
      /\ n = s[1] <=> i = 1
      /\ i = k => h.next[n] = NULL
      /\ i < k => h.next[n] = s[i + 1] /\ s[i + 1] \in Item /\ s[i + 1] # NULL
      /\ i = 1 => h.prev[n] = s[k]
      /\ i > 1 => h.prev[n] = s[i - 1] /\ s[i - 1] \in Item
      /\ h.prev[n] \in Item /\ h.next[n] \in Pointer
  BY <1>1, <1>2, <1>4 DEF Linked, k, n
<1>6. /\ Relinked(h, g) /\ g.next[n] = NULL /\ g.prev[n] = NULL
      /\ \A m \in Item : m # n => g.next[m] = IF i > 1 /\ m = s[i - 1] THEN h.next[n] ELSE h.next[m]
      /\ \A m \in Item : m # n => g.prev[m] = IF i < k /\ m = s[i + 1] THEN h.prev[n]
                                  ELSE IF i = k /\ i > 1 /\ m = s[1] THEN h.prev[n]
                                  ELSE h.prev[m]
      /\ \A c \in Item : g.child[c] = IF i = 1 /\ c = b THEN h.next[n] ELSE h.child[c]
  <2> DEFINE a == IF n = h.child[b] THEN h ELSE [h EXCEPT !.next[h.prev[n]] = h.next[n]]
      f == IF h.next[n] = NULL THEN a ELSE [a EXCEPT !.prev[h.next[n]] = h.prev[n]]
      e == IF n = h.child[b] THEN [f EXCEPT !.child[b] = h.next[n]]
           ELSE IF h.next[n] = NULL THEN [f EXCEPT !.prev[h.child[b]] = h.prev[n]]
           ELSE f
      d == [e EXCEPT !.prev[n] = NULL]
  <2>1. g = [d EXCEPT !.next[n] = NULL]
    BY DEF g, DetachItemViaPointer
  <2>2. /\ Relinked(h, a) /\ a.prev = h.prev /\ a.child = h.child
        /\ a.next = IF i > 1 THEN [h.next EXCEPT ![s[i - 1]] = h.next[n]] ELSE h.next
    <3>1. CASE i = 1
      <4>1. a = h
        BY <1>5, <3>1
      <4> HIDE DEF a
      <4> QED
        BY <1>2, <1>4, <3>1, <4>1, Same
    <3>2. CASE i > 1
      <4>1. a = [h EXCEPT !.next[s[i - 1]] = h.next[n]]
        BY <1>5, <3>2
      <4> HIDE DEF a
      <4> QED
        BY <1>4, <1>5, <3>2, <4>1, SetNext
    <3> QED
      BY <1>2, <3>1, <3>2
  <2> HIDE DEF a
  <2>3. /\ Relinked(h, f) /\ f.next = a.next /\ f.child = h.child
        /\ f.prev = IF i < k THEN [h.prev EXCEPT ![s[i + 1]] = h.prev[n]] ELSE h.prev
    <3>1. CASE i = k
      <4>1. f = a
        BY <1>5, <3>1
      <4> HIDE DEF f
      <4> QED
        BY <1>2, <2>2, <3>1, <4>1
    <3>2. CASE i < k
      <4>1. f = [a EXCEPT !.prev[s[i + 1]] = h.prev[n]]
        BY <1>5, <3>2
      <4>2. Links(a)
        BY <2>2 DEF Relinked
      <4> HIDE DEF f
      <4>3. /\ Relinked(a, f) /\ f.prev = [a.prev EXCEPT ![s[i + 1]] = h.prev[n]]
            /\ f.next = a.next /\ f.child = a.child
        BY <1>4, <1>5, <3>2, <4>1, <4>2, SetPrev
      <4> QED
        BY <2>2, <3>2, <4>3 DEF Relinked
    <3> QED
      BY <1>2, <3>1, <3>2
  <2> HIDE DEF f
  <2>4. /\ Relinked(h, e) /\ e.next = a.next
        /\ e.child = IF i = 1 THEN [h.child EXCEPT ![b] = h.next[n]] ELSE h.child
        /\ e.prev = IF i = k /\ i > 1 THEN [f.prev EXCEPT ![s[1]] = h.prev[n]] ELSE f.prev
    <3>0. Links(f)
      BY <2>3 DEF Relinked
    <3>1. CASE i = 1
      <4>1. e = [f EXCEPT !.child[b] = h.next[n]]
        BY <1>5, <3>1
      <4> HIDE DEF e
      <4>2. /\ Relinked(f, e) /\ e.child = [f.child EXCEPT ![b] = h.next[n]]
            /\ e.next = f.next /\ e.prev = f.prev
        BY <1>1, <1>5, <3>0, <4>1, SetChild
      <4> QED
        BY <2>3, <3>1, <4>2 DEF Relinked
    <3>2. CASE i > 1 /\ i = k
      <4>1. e = [f EXCEPT !.prev[s[1]] = h.prev[n]]
        BY <1>5, <3>2
      <4> HIDE DEF e
      <4>2. /\ Relinked(f, e) /\ e.prev = [f.prev EXCEPT ![s[1]] = h.prev[n]]
            /\ e.next = f.next /\ e.child = f.child
        BY <1>4, <1>5, <3>0, <4>1, SetPrev
      <4> QED
        BY <2>3, <3>2, <4>2 DEF Relinked
    <3>3. CASE i > 1 /\ i < k
      <4>1. e = f
        BY <1>5, <3>3
      <4> HIDE DEF e
      <4> QED
        BY <1>2, <2>3, <3>3, <4>1
    <3> QED
      BY <1>2, <3>1, <3>2, <3>3
  <2> HIDE DEF e
  <2>5. /\ Relinked(e, d) /\ d.prev = [e.prev EXCEPT ![n] = NULL]
        /\ d.next = e.next /\ d.child = e.child
    BY <1>2, <1>4, <2>4, SetPrev DEF Relinked
  <2> HIDE DEF d
  <2>6. /\ Relinked(d, g) /\ g.next = [d.next EXCEPT ![n] = NULL]
        /\ g.prev = d.prev /\ g.child = d.child
    <3>1. Links(d)
      BY <2>5 DEF Relinked
    <3> QED
      BY <1>2, <1>4, <2>1, <3>1, SetNext
  <2>7. Relinked(h, g)
    BY <2>4, <2>5, <2>6 DEF Relinked
  <2>8. /\ g.next = [a.next EXCEPT ![n] = NULL] /\ g.prev = [e.prev EXCEPT ![n] = NULL]
        /\ g.child = e.child
    BY <2>4, <2>5, <2>6
  <2>9. /\ h.next \in [Item -> Pointer] /\ h.prev \in [Item -> Pointer]
        /\ h.child \in [Item -> Pointer]
    BY <1>4 DEF Links
  <2>10. a.next \in [Item -> Pointer] /\ f.prev \in [Item -> Pointer] /\ e.prev \in [Item -> Pointer]
    BY <2>2, <2>3, <2>4 DEF Relinked, Links
  <2>11. /\ g.next[n] = NULL
         /\ \A m \in Item : m # n => g.next[m] = IF i > 1 /\ m = s[i - 1] THEN h.next[n] ELSE h.next[m]
    <3>1. \A m \in Item : a.next[m] = IF i > 1 /\ m = s[i - 1] THEN h.next[n] ELSE h.next[m]
      BY <1>5, <2>2, <2>9
    <3> QED
      BY <1>2, <2>8, <2>10, <3>1
  <2>12. /\ g.prev[n] = NULL
         /\ \A m \in Item : m # n => g.prev[m] = IF i < k /\ m = s[i + 1] THEN h.prev[n]
                                     ELSE IF i = k /\ i > 1 /\ m = s[1] THEN h.prev[n]
                                     ELSE h.prev[m]
    <3>1. \A m \in Item : f.prev[m] = IF i < k /\ m = s[i + 1] THEN h.prev[n] ELSE h.prev[m]
      BY <1>5, <2>3, <2>9
    <3>2. \A m \in Item : e.prev[m] = IF i = k /\ i > 1 /\ m = s[1] THEN h.prev[n] ELSE f.prev[m]
      BY <1>5, <2>4, <2>10
    <3>3. i < k => ~(i = k)
      BY <1>2
    <3> QED
      BY <1>2, <2>8, <2>10, <3>1, <3>2, <3>3
  <2>13. \A c \in Item : g.child[c] = IF i = 1 /\ c = b THEN h.next[n] ELSE h.child[c]
    BY <1>1, <2>4, <2>8, <2>9
  <2> QED
    BY <2>7, <2>11, <2>12, <2>13
<1>7. \A j \in 1 .. k : (s[j] = n <=> j = i)
  BY <1>1, <1>2 DEF n
<1>8. Linked(g, b, t)
  <2>1. g.child[b] = IF Len(t) = 0 THEN NULL ELSE t[1]
    <3>1. CASE i = 1
      <4>1. g.child[b] = h.next[n]
        BY <1>1, <1>6, <3>1
      <4>2. CASE k = 1
        BY <1>3, <1>5, <3>1, <4>1, <4>2
      <4>3. CASE k > 1
        <5>1. t[1] = s[2] /\ Len(t) # 0 /\ h.next[n] = s[2]
          BY <1>1, <1>3, <1>5, <3>1, <4>3
        <5> QED
          BY <4>1, <5>1
      <4> QED
        BY <1>2, <4>2, <4>3
    <3>2. CASE i > 1
      <4>1. 1 \in 1 .. k - 1 /\ 1 < i /\ k - 1 # 0
        BY <1>2, <3>2
      <4>2. t[1] = s[1] /\ Len(t) # 0
        BY <1>3, <4>1
      <4> QED
        BY <1>1, <1>2, <1>5, <1>6, <3>2, <4>2
    <3> QED
      BY <1>2, <3>1, <3>2
  <2>2. ASSUME NEW j \in 1 .. k - 1
        PROVE  /\ g.next[t[j]] = IF j = k - 1 THEN NULL ELSE t[j + 1]
               /\ g.prev[t[j]] = IF j = 1 THEN t[k - 1] ELSE t[j - 1]
    <3> DEFINE o == IF j < i THEN j ELSE j + 1
    <3>1. /\ o \in 1 .. k /\ o # i /\ t[j] = s[o] /\ s[o] \in Item /\ s[o] # n
          /\ o = j \/ o = j + 1
      BY <1>1, <1>2, <1>3, <1>7
    <3>2. /\ h.next[s[o]] = IF o = k THEN NULL ELSE s[o + 1]
          /\ h.prev[s[o]] = IF o = 1 THEN s[k] ELSE s[o - 1]
      BY <1>1, <3>1 DEF Linked, k
    <3>3. /\ i > 1 => (s[o] = s[i - 1] <=> o = i - 1)
          /\ i < k => (s[o] = s[i + 1] <=> o = i + 1)
          /\ s[o] = s[1] <=> o = 1
      BY <1>1, <1>2, <3>1
    <3>4. g.next[t[j]] = IF j = k - 1 THEN NULL ELSE t[j + 1]
      <4>1. g.next[s[o]] = IF i > 1 /\ o = i - 1 THEN h.next[n] ELSE h.next[s[o]]
        BY <1>6, <3>1, <3>3
      <4>2. CASE j = i - 1
        <5>1. o = i - 1 /\ i > 1
          BY <1>2, <4>2
        <5>2. CASE i = k
          BY <1>5, <3>1, <4>1, <4>2, <5>1, <5>2
        <5>3. CASE i < k
          <6>1. j + 1 \in 1 .. k - 1 /\ ~(j + 1 < i) /\ j + 1 + 1 = i + 1 /\ j # k - 1
            BY <1>2, <4>2, <5>3
          <6>2. t[j + 1] = s[i + 1]
            BY <1>3, <6>1
          <6> QED
            BY <1>5, <3>1, <4>1, <5>1, <5>3, <6>1, <6>2
        <5> QED
          BY <1>2, <5>2, <5>3
      <4>3. CASE j # i - 1
        <5>1. o # i - 1
          BY <1>2, <4>3
        <5>2. CASE j = k - 1
          <6>1. o = k
            BY <1>2, <4>3, <5>2
          <6> QED
            BY <3>1, <3>2, <4>1, <5>1, <5>2, <6>1
        <5>3. CASE j # k - 1
          <6>1. j + 1 \in 1 .. k - 1 /\ o # k /\ o + 1 = IF j + 1 < i THEN j + 1 ELSE j + 1 + 1
            BY <1>2, <4>3, <5>3
          <6>2. t[j + 1] = s[o + 1]
            BY <1>3, <6>1
          <6> QED
            BY <3>1, <3>2, <4>1, <5>1, <5>3, <6>1, <6>2
        <5> QED
          BY <5>2, <5>3
      <4> QED
        BY <4>2, <4>3
    <3>5. g.prev[t[j]] = IF j = 1 THEN t[k - 1] ELSE t[j - 1]
      <4>1. g.prev[s[o]] = IF i < k /\ o = i + 1 THEN h.prev[n]
                           ELSE IF i = k /\ i > 1 /\ o = 1 THEN h.prev[n] ELSE h.prev[s[o]]
        BY <1>6, <3>1, <3>3
      <4>2. CASE j = 1
        <5>1. t[k - 1] = IF i = k THEN s[k - 1] ELSE s[k]
          <6>1. k - 1 \in 1 .. k - 1 /\ (k - 1 < i <=> i = k) /\ k - 1 + 1 = k
            BY <1>2
          <6> QED
            BY <1>3, <6>1
        <5>2. CASE i = 1
          <6>1. o = i + 1 /\ i < k
            BY <1>2, <4>2, <5>2
          <6> QED
            BY <1>5, <3>1, <4>1, <4>2, <5>1, <5>2, <6>1
        <5>3. CASE i > 1
          <6>1. o = 1 /\ o # i + 1
            BY <1>2, <4>2, <5>3
          <6>2. CASE i = k
            <7>1. ~(i < k)
              BY <1>2, <6>2
            <7> QED
              BY <1>5, <3>1, <4>1, <4>2, <5>1, <5>3, <6>1, <6>2, <7>1
          <6>3. CASE i # k
            BY <3>1, <3>2, <4>1, <4>2, <5>1, <6>1, <6>3
          <6> QED
            BY <6>2, <6>3
        <5> QED
          BY <1>2, <5>2, <5>3
      <4>3. CASE j # 1
        <5>1. j - 1 \in 1 .. k - 1 /\ o # 1
          BY <1>2, <4>3
        <5>2. t[j - 1] = IF j - 1 < i THEN s[j - 1] ELSE s[j]
          <6>1. j - 1 + 1 = j
            OBVIOUS
          <6> QED
            BY <1>3, <5>1, <6>1
        <5>3. CASE o = i + 1
          <6>1. j = i /\ i < k /\ i > 1 /\ j - 1 < i
            BY <1>2, <4>3, <5>3
          <6> QED
            BY <1>5, <3>1, <4>1, <4>3, <5>2, <5>3, <6>1
        <5>4. CASE o # i + 1
          <6>1. o - 1 = IF j - 1 < i THEN j - 1 ELSE j
            BY <1>2, <5>4
          <6> QED
            BY <3>1, <3>2, <4>1, <4>3, <5>1, <5>2, <5>4, <6>1
        <5> QED
          BY <5>3, <5>4
      <4> QED
        BY <4>2, <4>3
    <3> QED
      BY <3>4, <3>5
  <2> QED
    BY <1>3, <2>1, <2>2 DEF Linked
<1>9. Splice(h, g, l, b, t, {})
  <2>1. \A j \in 1 .. k - 1 : \E m \in 1 .. k :
          t[j] = s[m] /\ m # i /\ m = IF j < i THEN j ELSE j + 1
    <3> SUFFICES ASSUME NEW j \in 1 .. k - 1
                 PROVE  \E m \in 1 .. k : t[j] = s[m] /\ m # i /\ m = IF j < i THEN j ELSE j + 1
      OBVIOUS
    <3>1. CASE j < i
      <4>1. j \in 1 .. k /\ j # i /\ t[j] = s[j]
        BY <1>2, <1>3, <3>1
      <4> QED
        BY <3>1, <4>1
    <3>2. CASE ~(j < i)
      <4>1. j + 1 \in 1 .. k /\ j + 1 # i /\ t[j] = s[j + 1]
        BY <1>2, <1>3, <3>2
      <4> QED
        BY <3>2, <4>1
    <3> QED
      BY <3>1, <3>2
  <2>2. ASSUME NEW j \in 1 .. k - 1, NEW m \in 1 .. k - 1, t[j] = t[m] PROVE j = m
    <3>1. PICK x \in 1 .. k : t[j] = s[x] /\ x # i /\ x = IF j < i THEN j ELSE j + 1
      BY <2>1
    <3>2. PICK y \in 1 .. k : t[m] = s[y] /\ y # i /\ y = IF m < i THEN m ELSE m + 1
      BY <2>1
    <3>3. x = y
      BY <1>1, <2>2, <3>1, <3>2
    <3> QED
      BY <1>2, <3>1, <3>2, <3>3
  <2>3. \A m \in Item : (\A j \in 1 .. k : s[j] # m) => g.next[m] = h.next[m] /\ g.prev[m] = h.prev[m]
    <3> SUFFICES ASSUME NEW m \in Item, \A j \in 1 .. k : s[j] # m
                 PROVE  g.next[m] = h.next[m] /\ g.prev[m] = h.prev[m]
      OBVIOUS
    <3>1. m # n /\ m # s[1] /\ (i > 1 => m # s[i - 1]) /\ (i < k => m # s[i + 1])
      BY <1>2 DEF n
    <3> QED
      BY <1>6, <3>1
  <2>4. Links(g) /\ \A c \in Item : c # b => g.child[c] = h.child[c]
    BY <1>6 DEF Relinked
  <2>5. \A j \in 1 .. Len(t) : \E m \in 1 .. Len(l[b]) : t[j] = l[b][m]
    BY <1>3, <2>1 DEF s, k
  <2>6. \A m \in Item : (\A j \in 1 .. Len(l[b]) : l[b][j] # m) =>
                          g.next[m] = h.next[m] /\ g.prev[m] = h.prev[m]
    BY <2>3 DEF s, k
  <2>7. \A j, m \in 1 .. Len(t) : t[j] = t[m] => j = m
    BY <1>3, <2>2
  <2> QED
    BY <1>3, <1>8, <2>4, <2>5, <2>6, <2>7 DEF Splice
<1>10. Lists(g, [l EXCEPT ![b] = t])
  BY <1>9, Spliced
<1> QED
  BY <1>6, <1>10 DEF g, t, s, n

\* An item is put in front of the one with the index, or behind all (cJSON.c:2259-2286).
THEOREM InsertInserts ==
  ASSUME NEW h, NEW l, Lists(h, l), NEW b \in DOMAIN l,
         NEW n, Loose(n, l), h.next[n] = NULL, NEW which \in Nat
  PROVE  LET g == InsertItemInArray(h, b, which, n) IN
           /\ Relinked(h, g)
           /\ Lists(g, [l EXCEPT ![b] = IF which < Len(@) THEN InsertAt(@, which + 1, n)
                                        ELSE Append(@, n)])
<1> DEFINE s == l[b]
    k == Len(s)
    i == which + 1
    after == s[i]
    t == InsertAt(s, i, n)
    g == InsertItemInArray(h, b, which, n)
<1>1. /\ b \in Item /\ s \in Seq(Item) /\ k \in Nat /\ Linked(h, b, s)
      /\ \A j \in 1 .. k : s[j] \in Item
      /\ \A j, m \in 1 .. k : s[j] = s[m] => j = m
  BY OneList
<1>2. n \in Item /\ n # NULL /\ n \in Pointer /\ \A j \in 1 .. k : s[j] # n
  BY DEF Loose, Item, Pointer, NULL
<1>3. Links(h) /\ NULL \in Pointer /\ Item \subseteq Pointer /\ NULL \notin Item
  BY MaxItemsAssumption DEF Lists, Pointer, NULL, Item
<1>4. get_array_item(h, b, which) = IF which < k THEN after ELSE NULL
  BY ChildrenAre DEF get_array_item
<1>5. CASE ~(which < k)
  <2>1. g = add_item_to_array(h, b, n)
    BY <1>4, <1>5 DEF InsertItemInArray
  <2>2. Relinked(h, g) /\ Lists(g, [l EXCEPT ![b] = Append(s, n)])
    BY <2>1, AddAppends
  <2> QED
    BY <1>5, <2>2
<1>6. CASE which < k
  <2>1. /\ i \in 1 .. k /\ i \in Nat /\ i # 0 /\ i <= k /\ after \in Item /\ after # n
        /\ 1 \in 1 .. k /\ k \in 1 .. k /\ k # 0 /\ after # NULL
        /\ i > 1 => i - 1 \in 1 .. k
    BY <1>1, <1>2, <1>3, <1>6
  <2>2. /\ t \in Seq(Item) /\ Len(t) = k + 1
        /\ \A j \in 1 .. k + 1 : t[j] = IF j < i THEN s[j] ELSE IF j = i THEN n ELSE s[j - 1]
    BY <1>1, <1>2, <2>1, InsertAtIs
  <2>3. \A j \in 1 .. k : (s[j] = after <=> j = i)
    BY <1>1, <2>1
  <2> HIDE DEF s, t, k, g, after, i
  <2>4. /\ h.child[b] = s[1] /\ s[1] \in Item
        /\ after = s[1] <=> i = 1
        /\ i = 1 => h.prev[after] = s[k]
        /\ i > 1 => h.prev[after] = s[i - 1] /\ s[i - 1] \in Item /\ s[i - 1] # n
        /\ h.prev[after] \in Item
    BY <1>1, <1>2, <2>1, <2>3 DEF Linked, k, after
  <2>5. /\ Relinked(h, g)
        /\ \A m \in Item : g.next[m] = IF i > 1 /\ m = s[i - 1] THEN n
                                       ELSE IF m = n THEN after ELSE h.next[m]
        /\ \A m \in Item : g.prev[m] = IF m = after THEN n
                                       ELSE IF m = n THEN h.prev[after] ELSE h.prev[m]
        /\ \A c \in Item : g.child[c] = IF i = 1 /\ c = b THEN n ELSE h.child[c]
    <3> DEFINE a == [h EXCEPT !.next[n] = after]
        d == [a EXCEPT !.prev[n] = h.prev[after]]
        e == [d EXCEPT !.prev[after] = n]
    <3>1. g = IF i = 1 THEN [e EXCEPT !.child[b] = n] ELSE [e EXCEPT !.next[s[i - 1]] = n]
      <4>1. g = IF after = h.child[b] THEN [e EXCEPT !.child[b] = n]
                ELSE [e EXCEPT !.next[h.prev[after]] = n]
        BY <1>4, <1>6, <2>1 DEF g, InsertItemInArray
      <4>2. i = 1 \/ i > 1
        BY <2>1
      <4> HIDE DEF e
      <4> QED
        BY <2>1, <2>4, <4>1, <4>2
    <3>2. /\ Relinked(h, a) /\ a.next = [h.next EXCEPT ![n] = after]
          /\ a.prev = h.prev /\ a.child = h.child
      BY <1>2, <1>3, <2>1, SetNext
    <3> HIDE DEF a
    <3>3. /\ Relinked(a, d) /\ d.prev = [a.prev EXCEPT ![n] = h.prev[after]]
          /\ d.next = a.next /\ d.child = a.child
      BY <1>2, <1>3, <2>4, <3>2, SetPrev DEF Relinked
    <3> HIDE DEF d
    <3>4. Links(d)
      BY <3>3 DEF Relinked
    <3>5. /\ Relinked(d, e) /\ e.prev = [d.prev EXCEPT ![after] = n]
          /\ e.next = d.next /\ e.child = d.child
      BY <1>2, <1>3, <2>1, <3>4, SetPrev
    <3> HIDE DEF e
    <3>6. /\ Relinked(h, e) /\ e.next = [h.next EXCEPT ![n] = after] /\ e.child = h.child
          /\ e.prev = [h.prev EXCEPT ![n] = h.prev[after], ![after] = n]
      BY <3>2, <3>3, <3>5 DEF Relinked
    <3>7. Links(e)
      BY <3>6 DEF Relinked
    <3>8. /\ Relinked(h, g) /\ g.prev = e.prev
          /\ g.next = IF i = 1 THEN e.next ELSE [e.next EXCEPT ![s[i - 1]] = n]
          /\ g.child = IF i = 1 THEN [h.child EXCEPT ![b] = n] ELSE h.child
      <4>1. CASE i = 1
        <5>1. g = [e EXCEPT !.child[b] = n]
          BY <3>1, <4>1
        <5>2. /\ Relinked(e, g) /\ g.child = [e.child EXCEPT ![b] = n]
              /\ g.next = e.next /\ g.prev = e.prev
          BY <1>1, <1>2, <3>7, <5>1, SetChild
        <5> QED
          BY <3>6, <4>1, <5>2 DEF Relinked
      <4>2. CASE i # 1
        <5>1. g = [e EXCEPT !.next[s[i - 1]] = n] /\ s[i - 1] \in Item
          BY <2>1, <2>4, <3>1, <4>2
        <5>2. /\ Relinked(e, g) /\ g.next = [e.next EXCEPT ![s[i - 1]] = n]
              /\ g.prev = e.prev /\ g.child = e.child
          BY <1>2, <3>7, <5>1, SetNext
        <5> QED
          BY <3>6, <4>2, <5>2 DEF Relinked
      <4> QED
        BY <4>1, <4>2
    <3>9. /\ h.next \in [Item -> Pointer] /\ h.prev \in [Item -> Pointer]
          /\ h.child \in [Item -> Pointer] /\ e.next \in [Item -> Pointer]
      BY <1>3, <3>7 DEF Links
    <3>10. \A m \in Item : g.next[m] = IF i > 1 /\ m = s[i - 1] THEN n
                                       ELSE IF m = n THEN after ELSE h.next[m]
      <4>1. \A m \in Item : e.next[m] = IF m = n THEN after ELSE h.next[m]
        BY <3>6, <3>9
      <4>2. CASE i = 1
        BY <3>8, <4>1, <4>2
      <4>3. CASE i > 1
        BY <2>4, <3>8, <3>9, <4>1, <4>3
      <4> QED
        BY <2>1, <4>2, <4>3
    <3>11. \A m \in Item : g.prev[m] = IF m = after THEN n
                                       ELSE IF m = n THEN h.prev[after] ELSE h.prev[m]
      BY <2>1, <3>6, <3>8, <3>9
    <3>12. \A c \in Item : g.child[c] = IF i = 1 /\ c = b THEN n ELSE h.child[c]
      BY <1>1, <3>8, <3>9
    <3> QED
      BY <3>8, <3>10, <3>11, <3>12
  <2>6. Linked(g, b, t)
    <3>1. g.child[b] = IF Len(t) = 0 THEN NULL ELSE t[1]
      <4>1. k + 1 # 0 /\ 1 \in 1 .. k + 1 /\ (1 < i \/ 1 = i)
        BY <2>1
      <4> QED
        BY <1>1, <2>1, <2>2, <2>4, <2>5, <4>1
    <3>2. ASSUME NEW j \in 1 .. k + 1
          PROVE  /\ g.next[t[j]] = IF j = k + 1 THEN NULL ELSE t[j + 1]
                 /\ g.prev[t[j]] = IF j = 1 THEN t[k + 1] ELSE t[j - 1]
      <4>1. CASE j = i
        <5>1. /\ t[j] = n /\ j # k + 1 /\ j + 1 \in 1 .. k + 1 /\ ~(j + 1 < i) /\ j + 1 # i
              /\ j + 1 - 1 = i
          BY <2>1, <2>2, <4>1
        <5>2. t[j + 1] = after
          BY <2>2, <5>1 DEF after
        <5>3. g.next[n] = after
          BY <1>2, <2>4, <2>5
        <5>4. g.prev[n] = h.prev[after]
          BY <1>2, <2>1, <2>5
        <5>5. CASE i = 1
          <6>1. k + 1 \in 1 .. k + 1 /\ ~(k + 1 < i) /\ k + 1 # i /\ k + 1 - 1 = k
            BY <2>1, <5>5
          <6>2. t[k + 1] = s[k]
            <7>1. PICK m \in 1 .. k + 1 : m = k + 1
              BY <6>1
            <7>2. ~(m < i) /\ m # i /\ m - 1 = k
              BY <2>1, <7>1
            <7>3. t[m] = s[m - 1]
              BY <2>2, <7>2
            <7> QED
              BY <7>1, <7>2, <7>3
          <6> QED
            BY <2>4, <4>1, <5>1, <5>2, <5>3, <5>4, <5>5, <6>2
        <5>6. CASE i > 1
          <6>1. i - 1 \in 1 .. k + 1 /\ i - 1 < i /\ j # 1
            BY <2>1, <4>1, <5>6
          <6>2. t[i - 1] = s[i - 1]
            BY <2>2, <6>1
          <6> QED
            BY <2>4, <4>1, <5>1, <5>2, <5>3, <5>4, <5>6, <6>1, <6>2
        <5> QED
          BY <2>1, <5>5, <5>6
      <4>2. CASE j # i
        <5> DEFINE o == IF j < i THEN j ELSE j - 1
        <5>1. o \in 1 .. k /\ t[j] = s[o] /\ s[o] \in Item /\ s[o] # n
          BY <1>1, <1>2, <2>1, <2>2, <4>2
        <5>2. /\ h.next[s[o]] = IF o = k THEN NULL ELSE s[o + 1]
              /\ h.prev[s[o]] = IF o = 1 THEN s[k] ELSE s[o - 1]
          BY <1>1, <5>1 DEF Linked, k
        <5>3. /\ i > 1 => (s[o] = s[i - 1] <=> o = i - 1)
              /\ s[o] = after <=> o = i
          BY <1>1, <2>1, <2>3, <5>1
        <5>4. g.next[t[j]] = IF j = k + 1 THEN NULL ELSE t[j + 1]
          <6>1. g.next[s[o]] = IF i > 1 /\ o = i - 1 THEN n ELSE h.next[s[o]]
            BY <2>5, <5>1, <5>3
          <6>2. CASE j = i - 1
            <7>1. o = i - 1 /\ i > 1 /\ j + 1 = i /\ i \in 1 .. k + 1 /\ ~(i < i) /\ j # k + 1
              BY <2>1, <4>2, <6>2
            <7>2. t[i] = n
              BY <2>2, <7>1
            <7> QED
              BY <5>1, <6>1, <7>1, <7>2
          <6>3. CASE j # i - 1
            <7>1. ~(i > 1 /\ o = i - 1)
              BY <2>1, <4>2, <6>3
            <7>2. CASE j = k + 1
              <8>1. o = k
                BY <2>1, <4>2, <7>2
              <8> QED
                BY <5>1, <5>2, <6>1, <7>1, <7>2, <8>1
            <7>3. CASE j # k + 1
              <8>1. /\ j + 1 \in 1 .. k + 1 /\ o # k /\ j + 1 # i
                    /\ o + 1 = IF j + 1 < i THEN j + 1 ELSE j + 1 - 1
                BY <2>1, <4>2, <6>3, <7>3
              <8>2. t[j + 1] = s[o + 1]
                BY <2>2, <8>1
              <8> QED
                BY <5>1, <5>2, <6>1, <7>1, <7>3, <8>1, <8>2
            <7> QED
              BY <7>2, <7>3
          <6> QED
            BY <6>2, <6>3
        <5>5. g.prev[t[j]] = IF j = 1 THEN t[k + 1] ELSE t[j - 1]
          <6>1. g.prev[s[o]] = IF o = i THEN n ELSE h.prev[s[o]]
            BY <2>5, <5>1, <5>3
          <6>2. CASE j = 1
            <7>1. o = 1 /\ o # i /\ k + 1 \in 1 .. k + 1 /\ ~(k + 1 < i) /\ k + 1 # i /\ k + 1 - 1 = k
              BY <2>1, <4>2, <6>2
            <7>2. t[k + 1] = s[k]
              <8>1. PICK m \in 1 .. k + 1 : m = k + 1
                BY <7>1
              <8>2. ~(m < i) /\ m # i /\ m - 1 = k
                BY <2>1, <8>1
              <8>3. t[m] = s[m - 1]
                BY <2>2, <8>2
              <8> QED
                BY <8>1, <8>2, <8>3
            <7> QED
              BY <5>1, <5>2, <6>1, <6>2, <7>1, <7>2
          <6>3. CASE j = i + 1
            <7>1. o = i /\ j # 1 /\ j - 1 = i /\ i \in 1 .. k + 1 /\ ~(i < i)
              BY <2>1, <6>3
            <7>2. t[i] = n
              BY <2>2, <7>1
            <7> QED
              BY <5>1, <6>1, <7>1, <7>2
          <6>4. CASE j # 1 /\ j # i + 1
            <7>1. /\ o # i /\ o # 1 /\ j - 1 \in 1 .. k + 1 /\ j - 1 # i
                  /\ o - 1 = IF j - 1 < i THEN j - 1 ELSE j - 1 - 1
              BY <2>1, <4>2, <6>4
            <7>2. t[j - 1] = s[o - 1]
              BY <2>2, <7>1
            <7> QED
              BY <5>1, <5>2, <6>1, <6>4, <7>1, <7>2
          <6> QED
            BY <6>2, <6>3, <6>4
        <5> QED
          BY <5>4, <5>5
      <4> QED
        BY <4>1, <4>2
    <3> QED
      BY <2>2, <3>1, <3>2 DEF Linked
  <2>7. Splice(h, g, l, b, t, {n})
    <3>1. \A j \in 1 .. k + 1 : j = i \/ \E m \in 1 .. k : t[j] = s[m] /\ m = IF j < i THEN j ELSE j - 1
      <4> SUFFICES ASSUME NEW j \in 1 .. k + 1, j # i
                   PROVE  \E m \in 1 .. k : t[j] = s[m] /\ m = IF j < i THEN j ELSE j - 1
        OBVIOUS
      <4> DEFINE o == IF j < i THEN j ELSE j - 1
      <4>1. o \in 1 .. k /\ t[j] = s[o]
        BY <2>1, <2>2
      <4> QED
        BY <4>1
    <3>2. i \in 1 .. k + 1 /\ t[i] = n
      BY <2>1, <2>2
    <3>3. ASSUME NEW j \in 1 .. k + 1, NEW m \in 1 .. k + 1, t[j] = t[m] PROVE j = m
      <4>1. CASE j = i
        BY <1>2, <3>1, <3>2, <3>3, <4>1
      <4>2. CASE m = i
        BY <1>2, <3>1, <3>2, <3>3, <4>2
      <4>3. CASE j # i /\ m # i
        <5>1. PICK x \in 1 .. k : t[j] = s[x] /\ x = IF j < i THEN j ELSE j - 1
          BY <3>1, <4>3
        <5>2. PICK y \in 1 .. k : t[m] = s[y] /\ y = IF m < i THEN m ELSE m - 1
          BY <3>1, <4>3
        <5>3. x = y
          BY <1>1, <3>3, <5>1, <5>2
        <5> QED
          BY <2>1, <4>3, <5>1, <5>2, <5>3
      <4> QED
        BY <4>1, <4>2, <4>3
    <3>4. \A m \in Item : m \notin {n} /\ (\A j \in 1 .. k : s[j] # m) =>
                            g.next[m] = h.next[m] /\ g.prev[m] = h.prev[m]
      <4> SUFFICES ASSUME NEW m \in Item, m # n, \A j \in 1 .. k : s[j] # m
                   PROVE  g.next[m] = h.next[m] /\ g.prev[m] = h.prev[m]
        OBVIOUS
      <4>1. m # after /\ (i > 1 => m # s[i - 1])
        BY <2>1 DEF after
      <4> QED
        BY <2>5, <4>1
    <3>5. Links(g) /\ \A c \in Item : c # b => g.child[c] = h.child[c]
      BY <2>5 DEF Relinked
    <3>6. \A j \in 1 .. Len(t) : t[j] \in {n} \/ \E m \in 1 .. Len(l[b]) : t[j] = l[b][m]
      BY <2>2, <3>1, <3>2 DEF s, k
    <3>7. \A m \in Item : m \notin {n} /\ (\A j \in 1 .. Len(l[b]) : l[b][j] # m) =>
                            g.next[m] = h.next[m] /\ g.prev[m] = h.prev[m]
      BY <3>4 DEF s, k
    <3>8. \A j, m \in 1 .. Len(t) : t[j] = t[m] => j = m
      BY <2>2, <3>3
    <3>9. {n} \subseteq Item /\ \A m \in {n} : Loose(m, l)
      BY <1>2
    <3> QED
      BY <2>2, <2>6, <3>5, <3>6, <3>7, <3>8, <3>9 DEF Splice
  <2>8. Lists(g, [l EXCEPT ![b] = t])
    BY <2>7, Spliced
  <2> QED
    BY <1>6, <2>5, <2>8 DEF g, t, s, k, i
<1> QED
  BY <1>5, <1>6

\* An item takes the place of another, whose links are cleared (cJSON.c:2288-2331).
THEOREM ExchangeReplaces ==
  ASSUME NEW h, NEW l, Lists(h, l), NEW b \in DOMAIN l, NEW i \in 1 .. Len(l[b]),
         NEW new, Loose(new, l)
  PROVE  LET g == Exchange(h, b, l[b][i], new) IN
           /\ Relinked(h, g) /\ g.next[l[b][i]] = NULL /\ g.prev[l[b][i]] = NULL
           /\ Lists(g, [l EXCEPT ![b] = ReplaceAt(@, i, new)])
<1> DEFINE s == l[b]
    k == Len(s)
    n == s[i]
    t == ReplaceAt(s, i, new)
    g == Exchange(h, b, n, new)
<1>1. /\ b \in Item /\ s \in Seq(Item) /\ k \in Nat /\ Linked(h, b, s)
      /\ \A j \in 1 .. k : s[j] \in Item
      /\ \A j, m \in 1 .. k : s[j] = s[m] => j = m
  BY OneList
<1>2. /\ i \in Nat /\ i # 0 /\ i <= k /\ i \in 1 .. k /\ n \in Item
      /\ 1 \in 1 .. k /\ k \in 1 .. k /\ k # 0
      /\ i > 1 => i - 1 \in 1 .. k
      /\ i < k => i + 1 \in 1 .. k
  BY <1>1
<1>3. /\ new \in Item /\ new # NULL /\ new \in Pointer /\ \A j \in 1 .. k : s[j] # new
      /\ n # new
  BY <1>2 DEF Loose, Item, Pointer, NULL
<1>4. /\ t \in Seq(Item) /\ Len(t) = k
      /\ \A j \in 1 .. k : t[j] = IF j = i THEN new ELSE s[j]
  BY <1>1, <1>3 DEF ReplaceAt
<1>5. Links(h) /\ NULL \in Pointer /\ Item \subseteq Pointer /\ NULL \notin Item
  BY MaxItemsAssumption DEF Lists, Pointer, NULL, Item
<1>6. \A j \in 1 .. k : (s[j] = n <=> j = i)
  BY <1>1, <1>2
<1> HIDE DEF s, t, k, g, n
<1>7. /\ h.child[b] = s[1] /\ s[1] \in Item /\ s[1] # new
      /\ n = s[1] <=> i = 1
      /\ i = k => h.next[n] = NULL
      /\ i < k => h.next[n] = s[i + 1] /\ s[i + 1] \in Item /\ s[i + 1] # NULL /\ s[i + 1] # new
      /\ i = 1 => h.prev[n] = s[k]
      /\ i > 1 => h.prev[n] = s[i - 1] /\ s[i - 1] \in Item /\ s[i - 1] # new
      /\ h.prev[n] \in Item /\ h.next[n] \in Pointer
      /\ h.child[b] = n /\ h.prev[n] = n <=> k = 1
  <2>1. /\ h.child[b] = s[1]
        /\ h.next[n] = IF i = k THEN NULL ELSE s[i + 1]
        /\ h.prev[n] = IF i = 1 THEN s[k] ELSE s[i - 1]
    BY <1>1, <1>2 DEF Linked, k, n
  <2>2. h.child[b] = n /\ h.prev[n] = n <=> k = 1
    <3>1. CASE i = 1
      BY <1>2, <1>6, <2>1, <3>1
    <3>2. CASE i > 1
      BY <1>2, <1>6, <2>1, <3>2
    <3> QED
      BY <1>2, <3>1, <3>2
  <2> QED
    BY <1>1, <1>2, <1>3, <1>5, <1>6, <2>1, <2>2
<1>8. /\ Relinked(h, g) /\ g.next[n] = NULL /\ g.prev[n] = NULL
      /\ \A m \in Item : m # n => g.next[m] = IF i > 1 /\ m = s[i - 1] THEN new
                                  ELSE IF m = new THEN h.next[n] ELSE h.next[m]
      /\ \A m \in Item : m # n => g.prev[m] = IF i < k /\ m = s[i + 1] THEN new
                                  ELSE IF i = k /\ i > 1 /\ m = s[1] THEN new
                                  ELSE IF m = new THEN (IF k = 1 THEN new ELSE h.prev[n])
                                  ELSE h.prev[m]
      /\ \A c \in Item : g.child[c] = IF i = 1 /\ c = b THEN new ELSE h.child[c]
  <2> DEFINE before == IF k = 1 THEN new ELSE h.prev[n]
      y == [h EXCEPT !.next[new] = h.next[n]]
      a == [y EXCEPT !.prev[new] = before]
      f == IF h.next[n] = NULL THEN a ELSE [a EXCEPT !.prev[h.next[n]] = new]
      z == [f EXCEPT !.next[h.prev[n]] = new]
      e == IF h.child[b] = n THEN [f EXCEPT !.child[b] = new]
           ELSE IF h.next[n] # NULL THEN z
           ELSE [z EXCEPT !.prev[h.child[b]] = new]
      d == [e EXCEPT !.next[n] = NULL]
  <2>1. g = [d EXCEPT !.prev[n] = NULL]
    <3>1. before = IF h.child[b] = n /\ h.prev[n] = n THEN new ELSE h.prev[n]
      BY <1>7
    <3> HIDE DEF before
    <3> QED
      BY <3>1 DEF g, Exchange
  <2>2. before \in Item
    BY <1>3, <1>7
  <2> HIDE DEF before
  <2>3. /\ Relinked(h, y) /\ y.next = [h.next EXCEPT ![new] = h.next[n]]
        /\ y.prev = h.prev /\ y.child = h.child
    BY <1>3, <1>5, <1>7, SetNext
  <2> HIDE DEF y
  <2>4. /\ Relinked(y, a) /\ a.prev = [y.prev EXCEPT ![new] = before]
        /\ a.next = y.next /\ a.child = y.child
    BY <1>3, <1>5, <2>2, <2>3, SetPrev DEF Relinked
  <2> HIDE DEF a
  <2>5. /\ Relinked(h, a) /\ a.next = [h.next EXCEPT ![new] = h.next[n]]
        /\ a.prev = [h.prev EXCEPT ![new] = before] /\ a.child = h.child
    BY <2>3, <2>4 DEF Relinked
  <2>6. /\ Relinked(h, f) /\ f.next = a.next /\ f.child = h.child
        /\ f.prev = IF i < k THEN [a.prev EXCEPT ![s[i + 1]] = new] ELSE a.prev
    <3>1. CASE i = k
      <4>1. f = a
        BY <1>7, <3>1
      <4> HIDE DEF f
      <4> QED
        BY <1>2, <2>5, <3>1, <4>1
    <3>2. CASE i < k
      <4>1. f = [a EXCEPT !.prev[s[i + 1]] = new]
        BY <1>7, <3>2
      <4>2. Links(a)
        BY <2>5 DEF Relinked
      <4> HIDE DEF f
      <4>3. /\ Relinked(a, f) /\ f.prev = [a.prev EXCEPT ![s[i + 1]] = new]
            /\ f.next = a.next /\ f.child = a.child
        BY <1>3, <1>7, <3>2, <4>1, <4>2, SetPrev
      <4> QED
        BY <2>5, <3>2, <4>3 DEF Relinked
    <3> QED
      BY <1>2, <3>1, <3>2
  <2> HIDE DEF f
  <2>7. Links(f)
    BY <2>6 DEF Relinked
  <2>8. /\ Relinked(f, z) /\ z.next = [f.next EXCEPT ![h.prev[n]] = new]
        /\ z.prev = f.prev /\ z.child = f.child
    BY <1>3, <1>7, <2>7, SetNext
  <2> HIDE DEF z
  <2>9. /\ Relinked(h, e)
        /\ e.next = IF i > 1 THEN [a.next EXCEPT ![s[i - 1]] = new] ELSE a.next
        /\ e.child = IF i = 1 THEN [h.child EXCEPT ![b] = new] ELSE h.child
        /\ e.prev = IF i = k /\ i > 1 THEN [f.prev EXCEPT ![s[1]] = new] ELSE f.prev
    <3>1. CASE i = 1
      <4>1. e = [f EXCEPT !.child[b] = new]
        BY <1>7, <3>1
      <4> HIDE DEF e
      <4>2. /\ Relinked(f, e) /\ e.child = [f.child EXCEPT ![b] = new]
            /\ e.next = f.next /\ e.prev = f.prev
        BY <1>1, <1>3, <2>7, <4>1, SetChild
      <4> QED
        BY <2>6, <3>1, <4>2 DEF Relinked
    <3>2. CASE i > 1 /\ i = k
      <4>1. e = [z EXCEPT !.prev[s[1]] = new]
        BY <1>7, <3>2
      <4> HIDE DEF e
      <4>2. Links(z)
        BY <2>8 DEF Relinked
      <4>3. /\ Relinked(z, e) /\ e.prev = [z.prev EXCEPT ![s[1]] = new]
            /\ e.next = z.next /\ e.child = z.child
        BY <1>3, <1>7, <4>1, <4>2, SetPrev
      <4> QED
        BY <1>7, <2>6, <2>8, <3>2, <4>3 DEF Relinked
    <3>3. CASE i > 1 /\ i < k
      <4>1. e = z
        BY <1>7, <3>3
      <4> HIDE DEF e
      <4>2. i # k
        BY <1>2, <3>3
      <4> QED
        BY <1>7, <2>6, <2>8, <3>3, <4>1, <4>2 DEF Relinked
    <3> QED
      BY <1>2, <3>1, <3>2, <3>3
  <2> HIDE DEF e
  <2>10. Links(e)
    BY <2>9 DEF Relinked
  <2>11. /\ Relinked(e, d) /\ d.next = [e.next EXCEPT ![n] = NULL]
         /\ d.prev = e.prev /\ d.child = e.child
    BY <1>2, <1>5, <2>10, SetNext
  <2> HIDE DEF d
  <2>12. Links(d)
    BY <2>11 DEF Relinked
  <2>13. /\ Relinked(d, g) /\ g.prev = [d.prev EXCEPT ![n] = NULL]
         /\ g.next = d.next /\ g.child = d.child
    BY <1>2, <1>5, <2>1, <2>12, SetPrev
  <2>14. Relinked(h, g)
    BY <2>9, <2>11, <2>13 DEF Relinked
  <2>15. /\ h.next \in [Item -> Pointer] /\ h.prev \in [Item -> Pointer]
         /\ h.child \in [Item -> Pointer] /\ a.next \in [Item -> Pointer]
         /\ a.prev \in [Item -> Pointer] /\ f.prev \in [Item -> Pointer]
         /\ e.next \in [Item -> Pointer] /\ e.prev \in [Item -> Pointer]
    BY <1>5, <2>5, <2>7, <2>10 DEF Relinked, Links
  <2>16. /\ g.next[n] = NULL
         /\ \A m \in Item : m # n => g.next[m] = IF i > 1 /\ m = s[i - 1] THEN new
                                     ELSE IF m = new THEN h.next[n] ELSE h.next[m]
    <3>1. \A m \in Item : a.next[m] = IF m = new THEN h.next[n] ELSE h.next[m]
      BY <1>3, <2>5, <2>15
    <3>2. \A m \in Item : e.next[m] = IF i > 1 /\ m = s[i - 1] THEN new ELSE a.next[m]
      BY <1>7, <2>9, <2>15
    <3>3. g.next = [e.next EXCEPT ![n] = NULL]
      BY <2>11, <2>13
    <3> QED
      BY <1>2, <2>15, <3>1, <3>2, <3>3
  <2>17. /\ g.prev[n] = NULL
         /\ \A m \in Item : m # n => g.prev[m] = IF i < k /\ m = s[i + 1] THEN new
                                     ELSE IF i = k /\ i > 1 /\ m = s[1] THEN new
                                     ELSE IF m = new THEN before
                                     ELSE h.prev[m]
    <3>1. \A m \in Item : a.prev[m] = IF m = new THEN before ELSE h.prev[m]
      BY <1>3, <2>5, <2>15
    <3>2. \A m \in Item : f.prev[m] = IF i < k /\ m = s[i + 1] THEN new ELSE a.prev[m]
      BY <1>7, <2>6, <2>15
    <3>3. \A m \in Item : e.prev[m] = IF i = k /\ i > 1 /\ m = s[1] THEN new ELSE f.prev[m]
      BY <1>7, <2>9, <2>15
    <3>4. g.prev = [e.prev EXCEPT ![n] = NULL]
      BY <2>11, <2>13
    <3>5. i < k => ~(i = k)
      BY <1>2
    <3> QED
      BY <1>2, <2>15, <3>1, <3>2, <3>3, <3>4, <3>5
  <2>18. \A c \in Item : g.child[c] = IF i = 1 /\ c = b THEN new ELSE h.child[c]
    BY <1>1, <2>9, <2>11, <2>13, <2>15
  <2> QED
    BY <2>14, <2>16, <2>17, <2>18 DEF before
<1>9. Linked(g, b, t)
  <2>1. g.child[b] = IF Len(t) = 0 THEN NULL ELSE t[1]
    <3>1. CASE i = 1
      BY <1>1, <1>2, <1>4, <1>8, <3>1
    <3>2. CASE i # 1
      BY <1>1, <1>2, <1>4, <1>7, <1>8, <3>2
    <3> QED
      BY <3>1, <3>2
  <2>2. ASSUME NEW j \in 1 .. k
        PROVE  /\ g.next[t[j]] = IF j = k THEN NULL ELSE t[j + 1]
               /\ g.prev[t[j]] = IF j = 1 THEN t[k] ELSE t[j - 1]
    <3>1. CASE j = i
      <4>1. t[j] = new
        BY <1>4, <3>1
      <4>2. g.next[new] = h.next[n]
        BY <1>3, <1>7, <1>8
      <4>3. g.prev[new] = IF k = 1 THEN new ELSE h.prev[n]
        BY <1>3, <1>7, <1>8
      <4>4. h.next[n] = IF j = k THEN NULL ELSE t[j + 1]
        <5>1. CASE i = k
          BY <1>7, <3>1, <5>1
        <5>2. CASE i < k
          BY <1>2, <1>4, <1>7, <3>1, <5>2
        <5> QED
          BY <1>2, <5>1, <5>2
      <4>5. CASE i = 1
        <5>1. k = 1 => t[k] = new
          BY <1>2, <1>4, <4>5
        <5>2. k # 1 => t[k] = s[k]
          BY <1>2, <1>4, <4>5
        <5> QED
          BY <1>7, <3>1, <4>1, <4>2, <4>3, <4>4, <4>5, <5>1, <5>2
      <4>6. CASE i > 1
        <5>1. t[i - 1] = s[i - 1] /\ k # 1
          BY <1>2, <1>4, <4>6
        <5> QED
          BY <1>7, <3>1, <4>1, <4>2, <4>3, <4>4, <4>6, <5>1
      <4> QED
        BY <1>2, <4>5, <4>6
    <3>2. CASE j # i
      <4>1. t[j] = s[j] /\ s[j] \in Item /\ s[j] # new /\ s[j] # n
        BY <1>1, <1>3, <1>4, <1>6, <3>2
      <4>2. /\ h.next[s[j]] = IF j = k THEN NULL ELSE s[j + 1]
            /\ h.prev[s[j]] = IF j = 1 THEN s[k] ELSE s[j - 1]
        BY <1>1 DEF Linked, k
      <4>3. /\ i > 1 => (s[j] = s[i - 1] <=> j = i - 1)
            /\ i < k => (s[j] = s[i + 1] <=> j = i + 1)
            /\ s[j] = s[1] <=> j = 1
        BY <1>1, <1>2
      <4>4. g.next[s[j]] = IF i > 1 /\ j = i - 1 THEN new ELSE h.next[s[j]]
        BY <1>8, <4>1, <4>3
      <4>5. g.prev[s[j]] = IF i < k /\ j = i + 1 THEN new
                           ELSE IF i = k /\ i > 1 /\ j = 1 THEN new ELSE h.prev[s[j]]
        BY <1>8, <4>1, <4>3
      <4>6. g.next[s[j]] = IF j = k THEN NULL ELSE t[j + 1]
        <5>1. CASE j = i - 1
          <6>1. i > 1 /\ j # k /\ t[j + 1] = new
            BY <1>2, <1>4, <5>1
          <6> QED
            BY <4>4, <5>1, <6>1
        <5>2. CASE j # i - 1
          <6>1. j # k => t[j + 1] = s[j + 1]
            <7>1. j # k => j + 1 \in 1 .. k /\ j + 1 # i
              BY <1>2, <5>2
            <7> QED
              BY <1>4, <7>1
          <6> QED
            BY <4>2, <4>4, <5>2, <6>1
        <5> QED
          BY <5>1, <5>2
      <4>7. g.prev[s[j]] = IF j = 1 THEN t[k] ELSE t[j - 1]
        <5>1. CASE j = i + 1
          <6>1. i < k /\ j # 1 /\ j - 1 = i /\ t[i] = new
            BY <1>2, <1>4, <5>1
          <6> QED
            BY <4>5, <5>1, <6>1
        <5>2. CASE j = 1
          <6>1. i > 1 /\ ~(j = i + 1)
            BY <1>2, <3>2, <5>2
          <6>2. t[k] = IF i = k THEN new ELSE s[k]
            BY <1>2, <1>4
          <6> QED
            BY <4>2, <4>5, <5>2, <6>1, <6>2
        <5>3. CASE j # 1 /\ j # i + 1
          <6>1. j - 1 \in 1 .. k /\ j - 1 # i
            BY <1>2, <5>3
          <6>2. t[j - 1] = s[j - 1]
            BY <1>4, <6>1
          <6> QED
            BY <4>2, <4>5, <5>3, <6>2
        <5> QED
          BY <5>1, <5>2, <5>3
      <4> QED
        BY <4>1, <4>6, <4>7
    <3> QED
      BY <3>1, <3>2
  <2> QED
    BY <1>4, <2>1, <2>2 DEF Linked
<1>10. Splice(h, g, l, b, t, {new})
  <2>1. \A j, m \in 1 .. k : t[j] = t[m] => j = m
    BY <1>1, <1>3, <1>4
  <2>2. \A m \in Item : m \notin {new} /\ (\A j \in 1 .. k : s[j] # m) =>
                          g.next[m] = h.next[m] /\ g.prev[m] = h.prev[m]
    <3> SUFFICES ASSUME NEW m \in Item, m # new, \A j \in 1 .. k : s[j] # m
                 PROVE  g.next[m] = h.next[m] /\ g.prev[m] = h.prev[m]
      OBVIOUS
    <3>1. m # n /\ m # s[1] /\ (i > 1 => m # s[i - 1]) /\ (i < k => m # s[i + 1])
      BY <1>2 DEF n
    <3> QED
      BY <1>8, <3>1
  <2>3. Links(g) /\ \A c \in Item : c # b => g.child[c] = h.child[c]
    BY <1>8 DEF Relinked
  <2>4. \A j \in 1 .. Len(t) : t[j] \in {new} \/ \E m \in 1 .. Len(l[b]) : t[j] = l[b][m]
    BY <1>4 DEF s, k
  <2>5. \A m \in Item : m \notin {new} /\ (\A j \in 1 .. Len(l[b]) : l[b][j] # m) =>
                          g.next[m] = h.next[m] /\ g.prev[m] = h.prev[m]
    BY <2>2 DEF s, k
  <2>6. \A j, m \in 1 .. Len(t) : t[j] = t[m] => j = m
    BY <1>4, <2>1
  <2>7. {new} \subseteq Item /\ \A m \in {new} : Loose(m, l)
    BY <1>3
  <2> QED
    BY <1>4, <1>9, <2>3, <2>4, <2>5, <2>6, <2>7 DEF Splice
<1>11. Lists(g, [l EXCEPT ![b] = t])
  BY <1>10, Spliced
<1> QED
  BY <1>8, <1>11 DEF g, t, s, n

-----------------------------------------------------------------------------
(* Trees.                                                                    *)

\* Whoever is in C has its children in C.
Downward(C, l) == \A b \in DOMAIN l : b \in C => \A i \in 1 .. Len(l[b]) : l[b][i] \in C

\* The items at and below n.
Tree(n, l) == {m \in Item : \A C \in SUBSET Item : n \in C /\ Downward(C, l) => m \in C}

\* Nothing is below itself.
Forest(l) == \A b \in DOMAIN l : \A i \in 1 .. Len(l[b]) : b \notin Tree(l[b][i], l)

LEMMA TreeIs ==
  ASSUME NEW l, l \in [DOMAIN l -> Seq(Item)], NEW n \in Item
  PROVE  /\ n \in Tree(n, l) /\ Tree(n, l) \subseteq Item /\ Downward(Tree(n, l), l)
         /\ \A C \in SUBSET Item : n \in C /\ Downward(C, l) => Tree(n, l) \subseteq C
<1>1. Tree(n, l) \subseteq Item /\ n \in Tree(n, l)
  BY DEF Tree
<1>2. \A C \in SUBSET Item : n \in C /\ Downward(C, l) => Tree(n, l) \subseteq C
  BY DEF Tree
<1>3. ASSUME NEW b \in DOMAIN l, b \in Tree(n, l), NEW i \in 1 .. Len(l[b])
      PROVE  l[b][i] \in Tree(n, l)
  <2>1. l[b][i] \in Item
    BY <1>3
  <2>2. ASSUME NEW C \in SUBSET Item, n \in C, Downward(C, l) PROVE l[b][i] \in C
    <3>1. b \in C
      BY <1>2, <1>3, <2>2
    <3> QED
      BY <2>2, <3>1 DEF Downward
  <2> QED
    BY <2>1, <2>2 DEF Tree
<1> QED
  BY <1>1, <1>2, <1>3 DEF Downward

\* What is below an item below n is below n.
LEMMA TreeInTree ==
  ASSUME NEW l, l \in [DOMAIN l -> Seq(Item)], NEW n \in Item, NEW m \in Tree(n, l)
  PROVE  Tree(m, l) \subseteq Tree(n, l)
<1>1. m \in Item /\ Tree(n, l) \in SUBSET Item /\ Downward(Tree(n, l), l)
  BY TreeIs
<1> QED
  BY <1>1, TreeIs

LEMMA TreeOfLeaf ==
  ASSUME NEW l, l \in [DOMAIN l -> Seq(Item)], NEW n \in Item, n \notin DOMAIN l
  PROVE  Tree(n, l) = {n}
<1>1. {n} \in SUBSET Item /\ n \in {n} /\ Downward({n}, l)
  BY DEF Downward
<1> QED
  BY <1>1, TreeIs

\* The items at and below those of a list from the i-th on.
Rest(l, b, i) == UNION {Tree(l[b][j], l) : j \in i .. Len(l[b])}

LEMMA TreeOfBox ==
  ASSUME NEW l, l \in [DOMAIN l -> Seq(Item)], NEW n \in DOMAIN l, n \in Item
  PROVE  Tree(n, l) = {n} \cup Rest(l, n, 1)
<1> DEFINE C == {n} \cup Rest(l, n, 1)
<1>1. l[n] \in Seq(Item) /\ Len(l[n]) \in Nat /\ \A i \in 1 .. Len(l[n]) : l[n][i] \in Item
  OBVIOUS
<1>2. C \in SUBSET Item
  BY <1>1, TreeIs DEF Rest
<1>3. \A i \in 1 .. Len(l[n]) : l[n][i] \in C
  BY <1>1, TreeIs DEF Rest
<1>4. Downward(C, l)
  <2> SUFFICES ASSUME NEW b \in DOMAIN l, b \in C, NEW i \in 1 .. Len(l[b])
               PROVE  l[b][i] \in C
    BY DEF Downward
  <2>1. CASE b = n
    BY <1>3, <2>1
  <2>2. CASE b # n
    <3>1. PICK j \in 1 .. Len(l[n]) : b \in Tree(l[n][j], l)
      BY <2>2 DEF Rest
    <3>2. l[b][i] \in Tree(l[n][j], l)
      BY <1>1, <3>1, TreeIs DEF Downward
    <3> QED
      BY <3>1, <3>2 DEF Rest
  <2> QED
    BY <2>1, <2>2
<1>5. Tree(n, l) \subseteq C
  BY <1>2, <1>4, TreeIs
<1>6. \A i \in 1 .. Len(l[n]) : Tree(l[n][i], l) \subseteq Tree(n, l)
  <2>1. \A i \in 1 .. Len(l[n]) : l[n][i] \in Tree(n, l)
    BY TreeIs DEF Downward
  <2> QED
    BY <2>1, TreeInTree
<1>7. C \subseteq Tree(n, l)
  BY <1>6, TreeIs DEF Rest
<1> QED
  BY <1>5, <1>7

\* An item below n that is not n has its box there.
LEMMA BoxInTree ==
  ASSUME NEW h, NEW l, Lists(h, l), NEW n \in Item,
         NEW b \in DOMAIN l, NEW i \in 1 .. Len(l[b]),
         l[b][i] \in Tree(n, l), l[b][i] # n
  PROVE  b \in Tree(n, l)
<1>1. SUFFICES ASSUME b \notin Tree(n, l) PROVE FALSE
  OBVIOUS
<1> DEFINE x == l[b][i]
    C == Tree(n, l) \ {x}
<1>2. l \in [DOMAIN l -> Seq(Item)]
  BY DEF Lists
<1>3. C \in SUBSET Item /\ n \in C
  BY <1>2, TreeIs
<1>4. Downward(C, l)
  <2> SUFFICES ASSUME NEW c \in DOMAIN l, c \in C, NEW j \in 1 .. Len(l[c])
               PROVE  l[c][j] \in C
    BY DEF Downward
  <2>1. l[c][j] \in Tree(n, l)
    BY <1>2, TreeIs DEF Downward
  <2>2. l[c][j] # x
    <3>1. l[b][i] = l[c][j] => b = c
      BY DEF Lists
    <3> QED
      BY <1>1, <3>1
  <2> QED
    BY <2>1, <2>2
<1> HIDE DEF C
<1>5. Tree(n, l) \subseteq C
  BY <1>2, <1>3, <1>4, TreeIs
<1> QED
  BY <1>5 DEF C

\* The trees of two children have nothing in common.
LEMMA Apart ==
  ASSUME NEW h, NEW l, Lists(h, l), Forest(l), NEW b \in DOMAIN l,
         NEW i \in 1 .. Len(l[b]), NEW j \in 1 .. Len(l[b]), i # j
  PROVE  Tree(l[b][i], l) \cap Tree(l[b][j], l) = {}
<1> DEFINE x == l[b][i]
    y == l[b][j]
    C == Tree(x, l) \ Tree(y, l)
<1>1. l \in [DOMAIN l -> Seq(Item)] /\ x \in Item /\ y \in Item /\ x # y
  BY OneList DEF Lists
<1>2. b \notin Tree(x, l) /\ b \notin Tree(y, l)
  BY DEF Forest
<1>3. x \in C
  <2>1. x \in Tree(x, l)
    BY <1>1, TreeIs
  <2>2. x \notin Tree(y, l)
    BY <1>1, <1>2, BoxInTree
  <2> QED
    BY <2>1, <2>2
<1>4. Downward(C, l)
  <2> SUFFICES ASSUME NEW c \in DOMAIN l, c \in C, NEW k \in 1 .. Len(l[c])
               PROVE  l[c][k] \in C
    BY DEF Downward
  <2>1. l[c][k] \in Tree(x, l)
    BY <1>1, TreeIs DEF Downward
  <2>2. l[c][k] \notin Tree(y, l)
    <3>1. CASE l[c][k] = y
      <4>1. c = b
        BY <3>1 DEF Lists
      <4> QED
        BY <1>2, <4>1
    <3>2. CASE l[c][k] # y
      BY <1>1, <3>2, BoxInTree
    <3> QED
      BY <3>1, <3>2
  <2> QED
    BY <2>1, <2>2
<1>5. C \in SUBSET Item
  BY <1>1, TreeIs
<1> HIDE DEF C
<1>6. Tree(x, l) \subseteq C
  BY <1>1, <1>3, <1>4, <1>5, TreeIs
<1> QED
  BY <1>6 DEF C

-----------------------------------------------------------------------------
(* Deleting.                                                                 *)

\* f[k][n] is what is freed from n on in k steps.
Dooms(h, f, K) ==
  f = [k \in K |-> [n \in Pointer |->
                      IF n = NULL \/ k = 0 THEN <<>>
                      ELSE (IF OwnsChildren(h, n) THEN f[k - 1][h.child[n]] ELSE <<>>)
                             \o <<n>> \o f[k - 1][h.next[n]]]]

LEMMA DoomExists == ASSUME NEW h PROVE \E f : Dooms(h, f, Steps)
<1> DEFINE T == {k \in Nat : ~ \E f : Dooms(h, f, 0 .. k)}
<1>1. ASSUME T # {} PROVE FALSE
  <2>1. T \in SUBSET Nat
    OBVIOUS
  <2> HIDE DEF T
  <2>2. PICK m \in T : \A k \in T : m <= k
    BY <1>1, <2>1, Smallest
  <2>3. m \in Nat /\ ~ \E f : Dooms(h, f, 0 .. m)
    BY <2>2 DEF T
  <2>4. CASE m = 0
    <3> DEFINE f == [k \in 0 .. 0 |-> [n \in Pointer |-> <<>>]]
    <3>1. Dooms(h, f, 0 .. m)
      <4>1. \A k \in 0 .. 0 : k = 0
        OBVIOUS
      <4> QED
        BY <2>4, <4>1 DEF Dooms
    <3> QED
      BY <2>3, <3>1
  <2>5. CASE m # 0
    <3>1. m - 1 \in Nat /\ ~(m <= m - 1) /\ m - 1 \notin T
      BY <2>2, <2>3, <2>5
    <3>2. PICK e : Dooms(h, e, 0 .. m - 1)
      BY <3>1 DEF T
    <3> DEFINE row == [n \in Pointer |-> IF n = NULL THEN <<>>
                                  ELSE (IF OwnsChildren(h, n) THEN e[m - 1][h.child[n]] ELSE <<>>)
                                         \o <<n>> \o e[m - 1][h.next[n]]]
        f == [k \in 0 .. m |-> IF k = m THEN row ELSE e[k]]
    <3>3. \A k \in 0 .. m - 1 : f[k] = e[k] /\ k \in 0 .. m /\ k # m
      <4>1. \A k \in 0 .. m - 1 : k \in 0 .. m /\ k # m
        BY <2>3
      <4> HIDE DEF row
      <4> QED
        BY <4>1
    <3>4. \A k \in 0 .. m : k = m \/ k \in 0 .. m - 1
      BY <2>3
    <3>5. \A k \in 0 .. m : k # 0 => k - 1 \in 0 .. m - 1
      BY <2>3
    <3>6. f[m] = row /\ m \in 0 .. m
      BY <2>3
    <3> DEFINE is(g, k) == [n \in Pointer |-> IF n = NULL \/ k = 0 THEN <<>>
                                  ELSE (IF OwnsChildren(h, n) THEN g[k - 1][h.child[n]] ELSE <<>>)
                                         \o <<n>> \o g[k - 1][h.next[n]]]
    <3>7. \A k \in 0 .. m - 1 : e[k] = is(e, k)
      BY <3>2 DEF Dooms
    <3> HIDE DEF f
    <3>8. \A k \in 0 .. m : is(f, k) = IF k = m THEN row ELSE is(e, k)
      <4> SUFFICES ASSUME NEW k \in 0 .. m PROVE is(f, k) = IF k = m THEN row ELSE is(e, k)
        OBVIOUS
      <4>1. CASE k = 0
        BY <2>5, <4>1
      <4>2. CASE k # 0
        <5>1. f[k - 1] = e[k - 1]
          BY <3>3, <3>5, <4>2
        <5>2. is(f, k) = is(e, k)
          BY <5>1
        <5>3. CASE k = m
          BY <2>5, <5>2, <5>3
        <5> QED
          BY <5>2, <5>3
      <4> QED
        BY <4>1, <4>2
    <3>9. \A k \in 0 .. m : f[k] = is(f, k)
      <4> HIDE DEF is, row
      <4> QED
        BY <3>3, <3>4, <3>6, <3>7, <3>8
    <3>10. f = [k \in 0 .. m |-> f[k]]
      BY DEF f
    <3>11. f = [k \in 0 .. m |-> is(f, k)]
      <4> HIDE DEF is
      <4> QED
        BY <3>9, <3>10
    <3>12. Dooms(h, f, 0 .. m)
      BY <3>11 DEF Dooms
    <3> QED
      BY <2>3, <3>12
  <2> QED
    BY <2>4, <2>5
<1>2. MaxItems + 1 \in Nat
  BY MaxItemsAssumption
<1> QED
  BY <1>1, <1>2 DEF Steps


LEMMA DoomStep ==
  ASSUME NEW h, NEW f, Dooms(h, f, Steps), NEW k \in Steps, k # 0, NEW n \in Pointer, n # NULL
  PROVE  f[k][n] = (IF OwnsChildren(h, n) THEN f[k - 1][h.child[n]] ELSE <<>>)
                     \o <<n>> \o f[k - 1][h.next[n]]
<1> DEFINE some(j, m) == (IF OwnsChildren(h, m) THEN f[j - 1][h.child[m]] ELSE <<>>)
                           \o <<m>> \o f[j - 1][h.next[m]]
    row(j) == [m \in Pointer |-> IF m = NULL \/ j = 0 THEN <<>> ELSE some(j, m)]
<1>1. f = [j \in Steps |-> row(j)]
  BY DEF Dooms
<1> HIDE DEF row
<1>2. f[k] = row(k)
  BY <1>1
<1> HIDE DEF some
<1>3. f[k][n] = some(k, n)
  BY <1>2 DEF row
<1> QED
  BY <1>3 DEF some

LEMMA DoomEnd ==
  ASSUME NEW h, NEW f, Dooms(h, f, Steps), NEW k \in Steps
  PROVE  f[k][NULL] = <<>>
<1> DEFINE some(j, m) == (IF OwnsChildren(h, m) THEN f[j - 1][h.child[m]] ELSE <<>>)
                           \o <<m>> \o f[j - 1][h.next[m]]
    row(j) == [m \in Pointer |-> IF m = NULL \/ j = 0 THEN <<>> ELSE some(j, m)]
<1>0. NULL \in Pointer
  BY MaxItemsAssumption DEF NULL, Pointer
<1>1. f = [j \in Steps |-> row(j)]
  BY DEF Dooms
<1> HIDE DEF row, some
<1>2. f[k] = row(k)
  BY <1>1
<1> QED
  BY <1>0, <1>2 DEF row

\* q has the items of S, each once.
Enumerates(q, S) ==
  /\ q \in Seq(Item) /\ S = {q[i] : i \in 1 .. Len(q)}
  /\ \A i, j \in 1 .. Len(q) : q[i] = q[j] => i = j

LEMMA NoneListed == Enumerates(<<>>, {})
BY DEF Enumerates

LEMMA OneListed == ASSUME NEW n \in Item PROVE Enumerates(<<n>>, {n})
BY DEF Enumerates

LEMMA BothListed ==
  ASSUME NEW p, NEW S, Enumerates(p, S), NEW q, NEW T, Enumerates(q, T), S \cap T = {}
  PROVE  Enumerates(p \o q, S \cup T)
<1> DEFINE a == Len(p)
    b == Len(q)
    r == p \o q
<1>1. p \in Seq(Item) /\ q \in Seq(Item) /\ a \in Nat /\ b \in Nat
  BY DEF Enumerates
<1>2. /\ r \in Seq(Item) /\ Len(r) = a + b
      /\ \A i \in 1 .. a + b : r[i] = IF i <= a THEN p[i] ELSE q[i - a]
  BY <1>1, ConcatProperties
<1>3. S = {p[i] : i \in 1 .. a} /\ T = {q[i] : i \in 1 .. b}
  BY DEF Enumerates
<1> HIDE DEF r
<1>4. ASSUME NEW i \in 1 .. a + b
      PROVE  \/ i \in 1 .. a /\ r[i] = p[i] /\ r[i] \in S
             \/ i - a \in 1 .. b /\ i > a /\ r[i] = q[i - a] /\ r[i] \in T
  <2>1. CASE i <= a
    BY <1>1, <1>2, <1>3, <2>1
  <2>2. CASE ~ i <= a
    <3>1. i - a \in 1 .. b /\ i > a
      BY <1>1, <2>2
    <3> QED
      BY <1>2, <1>3, <2>2, <3>1
  <2> QED
    BY <2>1, <2>2
<1>5. ASSUME NEW i \in 1 .. a + b, NEW j \in 1 .. a + b, r[i] = r[j] PROVE i = j
  <2>1. CASE i \in 1 .. a /\ j \in 1 .. a /\ r[i] = p[i] /\ r[j] = p[j]
    BY <1>5, <2>1 DEF Enumerates
  <2>2. CASE /\ i - a \in 1 .. b /\ j - a \in 1 .. b
             /\ r[i] = q[i - a] /\ r[j] = q[j - a]
    <3>1. i - a = j - a
      BY <1>5, <2>2 DEF Enumerates
    <3> QED
      BY <1>1, <3>1
  <2>3. ~ (r[i] \in S /\ r[j] \in T) /\ ~ (r[i] \in T /\ r[j] \in S)
    BY <1>5
  <2> QED
    BY <1>4, <2>1, <2>2, <2>3
<1>6. S \cup T \subseteq {r[i] : i \in 1 .. a + b}
  <2>1. ASSUME NEW i \in 1 .. a PROVE i \in 1 .. a + b /\ r[i] = p[i]
    BY <1>1, <1>2
  <2>2. ASSUME NEW i \in 1 .. b PROVE i + a \in 1 .. a + b /\ r[i + a] = q[i]
    <3>1. i + a \in 1 .. a + b /\ ~ (i + a <= a) /\ (i + a) - a = i
      BY <1>1
    <3> QED
      BY <1>2, <3>1
  <2> QED
    BY <1>3, <2>1, <2>2
<1>7. {r[i] : i \in 1 .. a + b} \subseteq S \cup T
  BY <1>4
<1> QED
  BY <1>2, <1>5, <1>6, <1>7 DEF Enumerates, r

\* Memory with all that cJSON_Delete heeds.
Memory(h) ==
  /\ Links(h) /\ {"live", "kind", "key", "own", "ref", "const", "strings", "bad"} \subseteq DOMAIN h
  /\ h.live \subseteq Item /\ h.strings \in Int
  /\ h.kind = [n \in Item |-> h.kind[n]] /\ h.key = [n \in Item |-> h.key[n]]
  /\ {h.own, h.ref, h.const} \subseteq [Item -> BOOLEAN]

\* l gives the list of every item that is no reference; what is in one is live.
Trees(h, l) ==
  /\ Memory(h) /\ Lists(h, l) /\ Forest(l)
  /\ DOMAIN l = {n \in h.live : ~h.ref[n]}
  /\ \A b \in DOMAIN l : \A i \in 1 .. Len(l[b]) : l[b][i] \in h.live

LEMMA Owns ==
  ASSUME NEW h, NEW l, Trees(h, l), NEW n \in h.live
  PROVE  /\ n \notin DOMAIN l => ~OwnsChildren(h, n)
         /\ n \in DOMAIN l => /\ OwnsChildren(h, n) <=> Len(l[n]) # 0
                              /\ Len(l[n]) # 0 => h.child[n] = l[n][1]
<1>1. n \notin DOMAIN l => ~OwnsChildren(h, n)
  BY DEF Trees, OwnsChildren
<1>2. ASSUME n \in DOMAIN l
      PROVE  /\ OwnsChildren(h, n) <=> Len(l[n]) # 0
             /\ Len(l[n]) # 0 => h.child[n] = l[n][1]
  <2>1. /\ Len(l[n]) \in Nat /\ Linked(h, n, l[n])
        /\ \A i \in 1 .. Len(l[n]) : l[n][i] \in Item
    BY <1>2, OneList DEF Trees
  <2>2. ~h.ref[n]
    BY <1>2 DEF Trees
  <2>3. CASE Len(l[n]) = 0
    BY <2>1, <2>2, <2>3 DEF Linked, OwnsChildren
  <2>4. CASE Len(l[n]) # 0
    <3>1. 1 \in 1 .. Len(l[n]) /\ h.child[n] = l[n][1]
      BY <2>1, <2>4 DEF Linked
    <3>2. h.child[n] # NULL
      BY <2>1, <3>1 DEF Item, NULL
    <3> QED
      BY <2>2, <2>4, <3>1, <3>2 DEF OwnsChildren
  <2> QED
    BY <2>3, <2>4
<1> QED
  BY <1>1, <1>2

LEMMA SetOfItems ==
  ASSUME NEW S \in SUBSET Item
  PROVE  IsFiniteSet(S) /\ Cardinality(S) \in Nat /\ Cardinality(S) <= MaxItems
<1>1. IsFiniteSet(Item) /\ Cardinality(Item) = MaxItems
  <2>1. /\ IsFiniteSet(1 .. MaxItems)
        /\ Cardinality(1 .. MaxItems) = IF 1 > MaxItems THEN 0 ELSE MaxItems - 1 + 1
    <3>1. 1 \in Int /\ MaxItems \in Int
      BY MaxItemsAssumption
    <3> QED
      BY <3>1, FS_Interval
  <2> QED
    BY <2>1, MaxItemsAssumption DEF Item
<1>2. IsFiniteSet(S) /\ Cardinality(S) <= Cardinality(Item)
  BY <1>1, FS_Subset
<1> QED
  BY <1>1, <1>2, FS_CardinalityType

LEMMA Smaller ==
  ASSUME NEW S \in SUBSET Item, NEW R \in SUBSET S, NEW n \in S, n \notin R
  PROVE  Cardinality(R) < Cardinality(S)
<1>1. IsFiniteSet(S) /\ Cardinality(S) \in Nat /\ Cardinality(R) \in Nat /\ R # S
  BY SetOfItems
<1> QED
  BY <1>1, FS_Subset

LEMMA RestSplits ==
  ASSUME NEW h, NEW l, Lists(h, l), Forest(l), NEW b \in DOMAIN l, NEW i \in 1 .. Len(l[b])
  PROVE  /\ Rest(l, b, i) = Tree(l[b][i], l) \cup Rest(l, b, i + 1)
         /\ Tree(l[b][i], l) \cap Rest(l, b, i + 1) = {}
         /\ Rest(l, b, i) \in SUBSET Item
<1> DEFINE n == Len(l[b])
<1>1. n \in Nat /\ l \in [DOMAIN l -> Seq(Item)] /\ \A j \in 1 .. n : l[b][j] \in Item
  BY OneList DEF Lists
<1>2. i .. n = {i} \cup (i + 1) .. n /\ i .. n \subseteq 1 .. n /\ i \notin (i + 1) .. n
  BY <1>1
<1>3. Rest(l, b, i) = Tree(l[b][i], l) \cup Rest(l, b, i + 1)
  BY <1>2 DEF Rest
<1>4. \A j \in (i + 1) .. n : Tree(l[b][i], l) \cap Tree(l[b][j], l) = {}
  BY <1>2, Apart
<1>5. Tree(l[b][i], l) \cap Rest(l, b, i + 1) = {}
  BY <1>4 DEF Rest
<1>6. \A j \in i .. n : Tree(l[b][j], l) \subseteq Item
  BY <1>1, <1>2, TreeIs
<1> QED
  BY <1>3, <1>5, <1>6 DEF Rest

\* k steps suffice for the rest of a list that has less than k items in its trees.
Meets(l, f, k) ==
  \A b \in DOMAIN l : \A i \in 1 .. Len(l[b]) :
    Cardinality(Rest(l, b, i)) < k => Enumerates(f[k][l[b][i]], Rest(l, b, i))

\* An item is freed after what is below it.
LEMMA Family ==
  ASSUME NEW h, NEW l, Trees(h, l), NEW n \in h.live,
         NEW f, NEW k \in Nat, Meets(l, f, k), Cardinality(Tree(n, l)) <= k
  PROVE  Enumerates((IF OwnsChildren(h, n) THEN f[k][h.child[n]] ELSE <<>>) \o <<n>>, Tree(n, l))
<1> DEFINE s == IF OwnsChildren(h, n) THEN f[k][h.child[n]] ELSE <<>>
<1>1. n \in Item /\ l \in [DOMAIN l -> Seq(Item)] /\ Lists(h, l) /\ Forest(l)
  BY DEF Trees, Memory, Lists
<1>2. PICK S : Enumerates(s, S) /\ S \cup {n} = Tree(n, l) /\ n \notin S
  <2>1. CASE n \notin DOMAIN l
    <3>1. s = <<>> /\ Tree(n, l) = {n}
      BY <1>1, <2>1, Owns, TreeOfLeaf
    <3> QED
      BY <3>1, NoneListed
  <2>2. CASE n \in DOMAIN l
    <3>1. Len(l[n]) \in Nat /\ Tree(n, l) = {n} \cup Rest(l, n, 1) /\ Tree(n, l) \in SUBSET Item
      BY <1>1, <2>2, OneList, TreeOfBox, TreeIs
    <3>2. n \notin Rest(l, n, 1)
      BY <1>1, <2>2 DEF Forest, Rest
    <3>3. CASE Len(l[n]) = 0
      <4>1. s = <<>> /\ Rest(l, n, 1) = {}
        BY <2>2, <3>3, Owns DEF Rest
      <4> QED
        BY <3>1, <4>1, NoneListed
    <3>4. CASE Len(l[n]) # 0
      <4>1. s = f[k][l[n][1]] /\ 1 \in 1 .. Len(l[n])
        BY <2>2, <3>1, <3>4, Owns
      <4>2. Cardinality(Rest(l, n, 1)) < Cardinality(Tree(n, l))
        BY <3>1, <3>2, Smaller
      <4>3. Cardinality(Rest(l, n, 1)) < k
        <5>1. Cardinality(Rest(l, n, 1)) \in Nat /\ Cardinality(Tree(n, l)) \in Nat
          BY <3>1, SetOfItems
        <5> QED
          BY <4>2, <5>1
      <4>4. Enumerates(s, Rest(l, n, 1))
        BY <2>2, <4>1, <4>3 DEF Meets
      <4> QED
        BY <3>1, <3>2, <4>4
    <3> QED
      BY <3>3, <3>4
  <2> QED
    BY <2>1, <2>2
<1>3. Enumerates(<<n>>, {n})
  BY <1>1, OneListed
<1> HIDE DEF s
<1>4. Enumerates(s \o <<n>>, S \cup {n})
  BY <1>2, <1>3, BothListed
<1> QED
  BY <1>2, <1>4 DEF s

LEMMA MeetsAll ==
  ASSUME NEW h, NEW l, Trees(h, l), NEW f, Dooms(h, f, Steps)
  PROVE  \A k \in Steps : Meets(l, f, k)
<1> DEFINE T == {k \in Nat : k \in Steps /\ ~Meets(l, f, k)}
<1>1. ASSUME T # {} PROVE FALSE
  <2>1. T \in SUBSET Nat
    OBVIOUS
  <2> HIDE DEF T
  <2>2. PICK k \in T : \A j \in T : k <= j
    BY <1>1, <2>1, Smallest
  <2>3. k \in Nat /\ k \in Steps /\ ~Meets(l, f, k)
    BY <2>2 DEF T
  <2> PICK b \in DOMAIN l : \E i \in 1 .. Len(l[b]) :
        Cardinality(Rest(l, b, i)) < k /\ ~Enumerates(f[k][l[b][i]], Rest(l, b, i))
    BY <2>3 DEF Meets
  <2>4. PICK i \in 1 .. Len(l[b]) :
          Cardinality(Rest(l, b, i)) < k /\ ~Enumerates(f[k][l[b][i]], Rest(l, b, i))
    OBVIOUS
  <2> DEFINE n == l[b][i]
      r == Rest(l, b, i + 1)
      s == (IF OwnsChildren(h, n) THEN f[k - 1][h.child[n]] ELSE <<>>) \o <<n>>
      t == f[k - 1][h.next[n]]
  <2>5. Lists(h, l) /\ Forest(l) /\ n \in h.live /\ n \in Item /\ l \in [DOMAIN l -> Seq(Item)]
    BY OneList DEF Trees, Lists
  <2>6. /\ Rest(l, b, i) = Tree(n, l) \cup r /\ Tree(n, l) \cap r = {}
        /\ Rest(l, b, i) \in SUBSET Item /\ n \in Tree(n, l)
    BY <2>5, RestSplits, TreeIs
  <2>7. /\ Cardinality(Rest(l, b, i)) \in Nat /\ Cardinality(Tree(n, l)) \in Nat
        /\ Cardinality(r) \in Nat /\ Cardinality(r) < Cardinality(Rest(l, b, i))
        /\ Cardinality(Tree(n, l)) <= Cardinality(Rest(l, b, i))
    <3>1. /\ Tree(n, l) \in SUBSET Item /\ r \in SUBSET Item /\ IsFiniteSet(Rest(l, b, i))
          /\ Cardinality(Rest(l, b, i)) \in Nat
      BY <2>6, SetOfItems
    <3>2. Cardinality(r) < Cardinality(Rest(l, b, i))
      BY <2>6, Smaller
    <3>3. Cardinality(Tree(n, l)) <= Cardinality(Rest(l, b, i))
      BY <2>6, <3>1, FS_Subset
    <3> QED
      BY <3>1, <3>2, <3>3, SetOfItems
  <2>8. k - 1 \in Nat /\ k - 1 \in Steps /\ k - 1 \notin T /\ k # 0
    <3>1. k - 1 \in Nat /\ ~ (k <= k - 1)
      BY <2>3, <2>4, <2>7
    <3> QED
      BY <2>2, <2>3, <3>1, MaxItemsAssumption DEF Steps
  <2>9. Meets(l, f, k - 1)
    BY <2>8 DEF T
  <2>10. Cardinality(Tree(n, l)) <= k - 1 /\ Cardinality(r) < k - 1
    BY <2>4, <2>7, <2>3
  <2>11. Enumerates(s, Tree(n, l))
    BY <2>5, <2>8, <2>9, <2>10, Family
  <2>12. Enumerates(t, r)
    <3>1. /\ Len(l[b]) \in Nat /\ l[b][i] \in Item
          /\ h.next[n] = IF i = Len(l[b]) THEN NULL ELSE l[b][i + 1]
      BY <2>5, OneList DEF Linked
    <3>2. CASE i = Len(l[b])
      <4>1. r = {}
        BY <3>1, <3>2 DEF Rest
      <4>2. t = <<>>
        <5>1. h.next[n] = NULL /\ NULL \in Pointer
          BY <3>1, <3>2, MaxItemsAssumption DEF Pointer, NULL
        <5> QED
          BY <2>8, <5>1, DoomEnd
      <4> QED
        BY <4>1, <4>2, NoneListed
    <3>3. CASE i # Len(l[b])
      <4>1. i + 1 \in 1 .. Len(l[b]) /\ t = f[k - 1][l[b][i + 1]]
        BY <3>1, <3>3
      <4> QED
        BY <2>9, <2>10, <4>1 DEF Meets
    <3> QED
      BY <3>2, <3>3
  <2>13. f[k][n] = s \o t
    <3>1. n \in Pointer /\ n # NULL
      BY <2>5 DEF Item, Pointer, NULL
    <3>2. f[k][n] = (IF OwnsChildren(h, n) THEN f[k - 1][h.child[n]] ELSE <<>>) \o <<n>> \o t
      BY <2>3, <2>8, <3>1, DoomStep
    <3> QED
      BY <3>2
  <2> HIDE DEF s, t, r
  <2>14. Enumerates(s \o t, Tree(n, l) \cup r)
    BY <2>6, <2>11, <2>12, BothListed
  <2> QED
    BY <2>4, <2>6, <2>13, <2>14
<1> QED
  BY <1>1 DEF Steps

\* cJSON_Delete frees each item of a tree once.
LEMMA DoomedAre ==
  ASSUME NEW h, NEW l, Trees(h, l), NEW n \in h.live, h.next[n] = NULL
  PROVE  Enumerates(Doomed(h, n), Tree(n, l))
<1> DEFINE w == CHOOSE f : Dooms(h, f, Steps)
<1>1. Dooms(h, w, Steps)
  BY DoomExists
<1>2. Doomed(h, n) = w[MaxItems + 1][n]
  BY DEF Doomed, Dooms
<1> HIDE DEF w
<1> PICK f : Dooms(h, f, Steps) /\ Doomed(h, n) = f[MaxItems + 1][n]
  BY <1>1, <1>2
<1> DEFINE k == MaxItems
    s == (IF OwnsChildren(h, n) THEN f[k][h.child[n]] ELSE <<>>) \o <<n>>
<1>3. /\ k \in Nat /\ k \in Steps /\ k + 1 \in Steps /\ k + 1 # 0 /\ (k + 1) - 1 = k
      /\ n \in Item /\ n \in Pointer /\ n # NULL /\ NULL \in Pointer
  BY MaxItemsAssumption DEF Steps, Trees, Memory, Item, Pointer, NULL
<1>4. f[k + 1][n] = s
  <2>1. f[k + 1][n] = (IF OwnsChildren(h, n) THEN f[k][h.child[n]] ELSE <<>>) \o <<n>> \o f[k][NULL]
    <3>1. h.next[n] = NULL
      OBVIOUS
    <3>0. PICK K \in Steps : K = k + 1 /\ K # 0 /\ K - 1 = k
      BY <1>3
    <3>2. f[K][n] = (IF OwnsChildren(h, n) THEN f[K - 1][h.child[n]] ELSE <<>>)
                      \o <<n>> \o f[K - 1][h.next[n]]
      <4>1. K # 0 /\ n \in Pointer /\ n # NULL
        BY <1>3, <3>0
      <4> HIDE DEF s, k
      <4> QED
        BY <4>1, DoomStep
    <3> QED
      BY <3>0, <3>1, <3>2
  <2>2. f[k][NULL] = <<>>
    BY <1>3, DoomEnd
  <2> QED
    BY <2>1, <2>2, <1>3
<1>5. Meets(l, f, k)
  BY <1>3, MeetsAll
<1>6. Cardinality(Tree(n, l)) <= k
  <2>1. Tree(n, l) \in SUBSET Item
    BY <1>3, TreeIs DEF Trees, Lists
  <2> QED
    BY <2>1, SetOfItems
<1>7. Enumerates(s, Tree(n, l))
  BY <1>3, <1>5, <1>6, Family
<1> QED
  BY <1>4, <1>7

\* What memory has of each item, and the name of a field for all the others.
Parts == Fields \cup {"kind", "key", "own", "ref", "const"}

\* The items of S were freed, with the strings they owned, and nothing else has changed.
Freed(h, g, S) ==
  /\ Memory(g) /\ DOMAIN g = DOMAIN h /\ g.live = h.live \ S
  /\ g.strings = h.strings - Cardinality({n \in S : OwnsKey(h, n)})
                           - Cardinality({n \in S : OwnsValue(h, n)})
  /\ \A f \in Parts : \A m \in Item \ S : g[f][m] = h[f][m]
  /\ \A f \in DOMAIN h \ (Parts \cup {"live", "strings"}) : g[f] = h[f]

LEMMA BlankIs ==
  ASSUME NEW h, Memory(h), NEW n \in Item
  PROVE  LET g == Blank(h, n) IN
           /\ Memory(g) /\ DOMAIN g = DOMAIN h
           /\ \A f \in Parts : \A m \in Item : m # n => g[f][m] = h[f][m]
           /\ \A f \in DOMAIN h \ Parts : g[f] = h[f]
           /\ g.next[n] = NULL /\ g.child[n] = NULL /\ g.key[n] = NoKey
           /\ ~g.own[n] /\ ~g.ref[n] /\ ~g.const[n]
<1> DEFINE g == Blank(h, n)
<1>1. /\ h = [f \in DOMAIN h |-> h[f]] /\ Fields \subseteq DOMAIN h
      /\ {"live", "kind", "key", "own", "ref", "const", "strings", "bad"} \subseteq DOMAIN h
      /\ h.next \in [Item -> Pointer] /\ h.prev \in [Item -> Pointer]
      /\ h.child \in [Item -> Pointer] /\ NULL \in Pointer
      /\ h.kind = [m \in Item |-> h.kind[m]] /\ h.key = [m \in Item |-> h.key[m]]
      /\ h.own \in [Item -> BOOLEAN] /\ h.ref \in [Item -> BOOLEAN] /\ h.const \in [Item -> BOOLEAN]
      /\ h.live \subseteq Item /\ h.strings \in Int
  BY MaxItemsAssumption DEF Memory, Links, Pointer, NULL
<1>2. /\ g = [f \in DOMAIN g |-> g[f]] /\ DOMAIN g = DOMAIN h
      /\ g.next = [h.next EXCEPT ![n] = NULL] /\ g.prev = [h.prev EXCEPT ![n] = NULL]
      /\ g.child = [h.child EXCEPT ![n] = NULL] /\ g.kind = [h.kind EXCEPT ![n] = "plain"]
      /\ g.key = [h.key EXCEPT ![n] = NoKey] /\ g.own = [h.own EXCEPT ![n] = FALSE]
      /\ g.ref = [h.ref EXCEPT ![n] = FALSE] /\ g.const = [h.const EXCEPT ![n] = FALSE]
      /\ \A f \in DOMAIN h \ Parts : g[f] = h[f]
  <2>1. g = [f \in DOMAIN g |-> g[f]] /\ DOMAIN g = DOMAIN h
    <3>1. \A e, v : LET d == [e EXCEPT !.const[n] = v] IN d = [f \in DOMAIN e |-> d[f]]
      OBVIOUS
    <3>2. DOMAIN g = DOMAIN h
      BY <1>1 DEF Blank
    <3>3. PICK e : g = [e EXCEPT !.const[n] = FALSE] /\ DOMAIN e = DOMAIN g
      <4> DEFINE e == [h EXCEPT !.next[n] = NULL, !.prev[n] = NULL, !.child[n] = NULL,
                                !.kind[n] = "plain", !.key[n] = NoKey, !.own[n] = FALSE,
                                !.ref[n] = FALSE]
      <4>1. DOMAIN e = DOMAIN h
        BY <1>1
      <4>2. g = [e EXCEPT !.const[n] = FALSE]
        BY DEF Blank
      <4> HIDE DEF e, g
      <4> QED
        BY <4>1, <4>2, <3>2
    <3> HIDE DEF g
    <3> QED
      BY <3>1, <3>2, <3>3
  <2>2. g.next = [h.next EXCEPT ![n] = NULL]
    BY <1>1 DEF Blank, Fields
  <2>3. g.prev = [h.prev EXCEPT ![n] = NULL]
    BY <1>1 DEF Blank, Fields
  <2>4. g.child = [h.child EXCEPT ![n] = NULL]
    BY <1>1 DEF Blank, Fields
  <2>5. g.kind = [h.kind EXCEPT ![n] = "plain"]
    BY <1>1 DEF Blank, Fields
  <2>6. g.key = [h.key EXCEPT ![n] = NoKey]
    BY <1>1 DEF Blank, Fields
  <2>7. g.own = [h.own EXCEPT ![n] = FALSE]
    BY <1>1 DEF Blank, Fields
  <2>8. g.ref = [h.ref EXCEPT ![n] = FALSE]
    BY <1>1 DEF Blank, Fields
  <2>9. g.const = [h.const EXCEPT ![n] = FALSE]
    BY <1>1 DEF Blank, Fields
  <2>10. \A f \in DOMAIN h \ Parts : g[f] = h[f]
    BY <1>1 DEF Blank, Parts, Fields
  <2> HIDE DEF g
  <2> QED
    BY <2>1, <2>2, <2>3, <2>4, <2>5, <2>6, <2>7, <2>8, <2>9, <2>10
<1> HIDE DEF g
<1>3. /\ g.next \in [Item -> Pointer] /\ g.prev \in [Item -> Pointer] /\ g.child \in [Item -> Pointer]
      /\ g.kind = [m \in Item |-> g.kind[m]] /\ g.key = [m \in Item |-> g.key[m]]
      /\ g.own \in [Item -> BOOLEAN] /\ g.ref \in [Item -> BOOLEAN] /\ g.const \in [Item -> BOOLEAN]
  <2>1. g.next \in [Item -> Pointer] /\ g.prev \in [Item -> Pointer] /\ g.child \in [Item -> Pointer]
    BY <1>1, <1>2
  <2>2. DOMAIN h.kind = Item /\ DOMAIN h.key = Item
    BY <1>1
  <2>3. g.kind = [m \in Item |-> g.kind[m]]
    BY <1>2, <2>2
  <2>4. g.key = [m \in Item |-> g.key[m]]
    BY <1>2, <2>2
  <2>5. g.own \in [Item -> BOOLEAN] /\ g.ref \in [Item -> BOOLEAN] /\ g.const \in [Item -> BOOLEAN]
    BY <1>1, <1>2
  <2> QED
    BY <2>1, <2>3, <2>4, <2>5
<1>4. g.live = h.live /\ g.strings = h.strings
  BY <1>1, <1>2 DEF Parts, Fields
<1>5. Memory(g)
  BY <1>1, <1>2, <1>3, <1>4 DEF Memory, Links
<1>6. \A f \in Parts : \A m \in Item : m # n => g[f][m] = h[f][m]
  BY <1>1, <1>2 DEF Parts, Fields
<1>7. /\ g.next[n] = NULL /\ g.child[n] = NULL /\ g.key[n] = NoKey
      /\ ~g.own[n] /\ ~g.ref[n] /\ ~g.const[n]
  <2>1. DOMAIN h.key = Item
    BY <1>1
  <2> QED
    BY <1>1, <1>2, <2>1
<1> QED
  BY <1>2, <1>5, <1>6, <1>7 DEF g

LEMMA FreeOne ==
  ASSUME NEW h, Memory(h), NEW n \in h.live
  PROVE  LET g == Free(h, n) IN
           /\ Memory(g) /\ DOMAIN g = DOMAIN h /\ g.live = h.live \ {n}
           /\ g.strings = h.strings - One(OwnsKey(h, n)) - One(OwnsValue(h, n))
           /\ \A f \in Parts : \A m \in Item : m # n => g[f][m] = h[f][m]
           /\ \A f \in DOMAIN h \ (Parts \cup {"live", "strings"}) : g[f] = h[f]
<1> DEFINE b == Blank(h, n)
    c == One(OwnsKey(h, n))
    d == One(OwnsValue(h, n))
    g == Free(h, n)
<1>1. n \in Item /\ c \in Int /\ d \in Int
  BY DEF Memory, One
<1>2. /\ Memory(b) /\ DOMAIN b = DOMAIN h
      /\ \A f \in Parts : \A m \in Item : m # n => b[f][m] = h[f][m]
      /\ \A f \in DOMAIN h \ Parts : b[f] = h[f]
  BY <1>1, BlankIs
<1>3. g = [b EXCEPT !.live = @ \ {n}, !.strings = @ - c - d]
  BY DEF Free
<1> HIDE DEF b, c, d, g
<1>4. b = [f \in DOMAIN b |-> b[f]] /\ "live" \in DOMAIN b /\ "strings" \in DOMAIN b
  BY <1>2 DEF Memory, Links
<1>5. /\ g = [f \in DOMAIN g |-> g[f]] /\ DOMAIN g = DOMAIN b
      /\ g.live = b.live \ {n} /\ g.strings = b.strings - c - d
      /\ \A f \in DOMAIN b \ {"live", "strings"} : g[f] = b[f]
  BY <1>3, <1>4
<1>6. /\ "live" \in DOMAIN h \ Parts /\ "strings" \in DOMAIN h \ Parts
      /\ Parts \subseteq DOMAIN b \ {"live", "strings"} /\ "bad" \in DOMAIN b \ {"live", "strings"}
  BY <1>2, <1>4 DEF Parts, Fields, Memory, Links
<1>7. b.live = h.live /\ b.strings = h.strings
  BY <1>2, <1>6
<1>8. /\ g.next = b.next /\ g.prev = b.prev /\ g.child = b.child /\ g.kind = b.kind
      /\ g.key = b.key /\ g.own = b.own /\ g.ref = b.ref /\ g.const = b.const
  BY <1>5, <1>6 DEF Parts, Fields
<1>9. Memory(g)
  <2>1. g.live \subseteq Item /\ g.strings \in Int
    BY <1>1, <1>2, <1>5 DEF Memory
  <2>2. Links(g)
    BY <1>2, <1>5, <1>8 DEF Memory, Links
  <2> QED
    BY <1>2, <1>5, <1>8, <2>1, <2>2 DEF Memory
<1>10. \A f \in Parts : g[f] = b[f]
  BY <1>5, <1>6
<1>11. \A f \in DOMAIN h \ (Parts \cup {"live", "strings"}) : g[f] = h[f]
  BY <1>2, <1>5
<1> QED
  BY <1>2, <1>5, <1>7, <1>9, <1>10, <1>11 DEF g, c, d

\* K, of the items in S, and one more or none.
LEMMA OneMore ==
  ASSUME NEW S \in SUBSET Item, NEW n \in Item, n \notin S, NEW K \in SUBSET S, NEW L, NEW c,
         (L = K \cup {n} /\ c = 1) \/ (L = K /\ c = 0)
  PROVE  Cardinality(L) = Cardinality(K) + c /\ Cardinality(K) \in Nat
<1>1. IsFiniteSet(K) /\ Cardinality(K) \in Nat /\ n \notin K
  BY SetOfItems
<1>2. Cardinality(K \cup {n}) = Cardinality(K) + 1
  BY <1>1, FS_AddElement
<1>3. CASE L = K \cup {n} /\ c = 1
  BY <1>1, <1>2, <1>3
<1>4. CASE L = K /\ c = 0
  BY <1>1, <1>4
<1> QED
  BY <1>3, <1>4

LEMMA FreedMore ==
  ASSUME NEW h, Memory(h), NEW S \in SUBSET h.live, NEW g, Freed(h, g, S),
         NEW n \in h.live, n \notin S
  PROVE  Freed(h, Free(g, n), S \cup {n})
<1> DEFINE e == Free(g, n)
    R == S \cup {n}
<1>1. n \in Item /\ S \in SUBSET Item /\ Memory(g) /\ n \in g.live /\ DOMAIN g = DOMAIN h
  BY DEF Freed, Memory
<1>2. /\ Memory(e) /\ DOMAIN e = DOMAIN g /\ e.live = g.live \ {n}
      /\ e.strings = g.strings - One(OwnsKey(g, n)) - One(OwnsValue(g, n))
      /\ \A f \in Parts : \A m \in Item : m # n => e[f][m] = g[f][m]
      /\ \A f \in DOMAIN g \ (Parts \cup {"live", "strings"}) : e[f] = g[f]
  BY <1>1, FreeOne
<1>3. OwnsKey(g, n) = OwnsKey(h, n) /\ OwnsValue(g, n) = OwnsValue(h, n)
  <2>1. \A f \in Parts : g[f][n] = h[f][n]
    BY <1>1 DEF Freed
  <2>2. g.key[n] = h.key[n] /\ g.const[n] = h.const[n] /\ g.own[n] = h.own[n] /\ g.ref[n] = h.ref[n]
    BY <2>1 DEF Parts
  <2> QED
    BY <2>2 DEF OwnsKey, OwnsValue
<1> HIDE DEF e
<1> DEFINE K(T) == {m \in T : OwnsKey(h, m)}
    V(T) == {m \in T : OwnsValue(h, m)}
<1>5. /\ K(S) \in SUBSET S
      /\ \/ K(R) = K(S) \cup {n} /\ One(OwnsKey(h, n)) = 1
         \/ K(R) = K(S) /\ One(OwnsKey(h, n)) = 0
  BY DEF One
<1>6. /\ V(S) \in SUBSET S
      /\ \/ V(R) = V(S) \cup {n} /\ One(OwnsValue(h, n)) = 1
         \/ V(R) = V(S) /\ One(OwnsValue(h, n)) = 0
  BY DEF One
<1>7. g.strings = h.strings - Cardinality(K(S)) - Cardinality(V(S)) /\ h.strings \in Int
  BY DEF Freed, Memory
<1> HIDE DEF K, V
<1> DEFINE c == One(OwnsKey(h, n))
    d == One(OwnsValue(h, n))
<1> HIDE DEF c, d, R
<1>8. Cardinality(K(R)) = Cardinality(K(S)) + c /\ Cardinality(K(S)) \in Nat
  BY <1>1, <1>5, OneMore DEF c
<1>9. Cardinality(V(R)) = Cardinality(V(S)) + d /\ Cardinality(V(S)) \in Nat
  BY <1>1, <1>6, OneMore DEF d
<1>10. c \in Int /\ d \in Int
  BY DEF One, c, d
<1>11. e.strings = h.strings - Cardinality(K(R)) - Cardinality(V(R))
  BY <1>2, <1>3, <1>7, <1>8, <1>9, <1>10 DEF c, d
<1>12. e.live = h.live \ R
  BY <1>2 DEF Freed, R
<1>13. \A f \in Parts : \A m \in Item \ R : e[f][m] = h[f][m]
  <2>1. \A f \in Parts : \A m \in Item \ R : e[f][m] = g[f][m]
    BY <1>2 DEF R
  <2> QED
    BY <2>1 DEF Freed, R
<1>14. \A f \in DOMAIN h \ (Parts \cup {"live", "strings"}) : e[f] = h[f]
  BY <1>1, <1>2 DEF Freed
<1> QED
  BY <1>1, <1>2, <1>11, <1>12, <1>13, <1>14 DEF Freed, e, K, V, R

\* t[i] is memory after the first i items of q were freed.
Frees(h, q, t, K) == t = [i \in K |-> IF i = 0 THEN h ELSE Free(t[i - 1], q[i])]

LEMMA FreesExist == ASSUME NEW h, NEW q, NEW n \in Nat PROVE \E t : Frees(h, q, t, 0 .. n)
<1> DEFINE T == {k \in Nat : ~ \E f : Frees(h, q, f, 0 .. k)}
<1>1. ASSUME T # {} PROVE FALSE
  <2>1. T \in SUBSET Nat
    OBVIOUS
  <2> HIDE DEF T
  <2>2. PICK m \in T : \A k \in T : m <= k
    BY <1>1, <2>1, Smallest
  <2>3. m \in Nat /\ ~ \E f : Frees(h, q, f, 0 .. m)
    BY <2>2 DEF T
  <2>4. CASE m = 0
    <3> DEFINE f == [k \in 0 .. 0 |-> h]
    <3>1. \A k \in 0 .. 0 : k = 0
      OBVIOUS
    <3>2. Frees(h, q, f, 0 .. m)
      BY <2>4, <3>1 DEF Frees
    <3> QED
      BY <2>3, <3>2
  <2>5. CASE m # 0
    <3>1. m - 1 \in Nat /\ ~(m <= m - 1) /\ m - 1 \notin T
      BY <2>2, <2>3, <2>5
    <3>2. PICK e : Frees(h, q, e, 0 .. m - 1)
      BY <3>1 DEF T
    <3> DEFINE last == Free(e[m - 1], q[m])
        f == [k \in 0 .. m |-> IF k = m THEN last ELSE e[k]]
        is(g, k) == IF k = 0 THEN h ELSE Free(g[k - 1], q[k])
    <3>3. \A k \in 0 .. m - 1 : f[k] = e[k] /\ k \in 0 .. m /\ k # m
      BY <2>3
    <3>4. \A k \in 0 .. m : k = m \/ k \in 0 .. m - 1
      BY <2>3
    <3>5. \A k \in 0 .. m : k # 0 => k - 1 \in 0 .. m - 1
      BY <2>3
    <3>6. f[m] = last /\ m \in 0 .. m
      BY <2>3
    <3>7. \A k \in 0 .. m - 1 : e[k] = is(e, k)
      BY <3>2 DEF Frees
    <3> HIDE DEF f
    <3>8. \A k \in 0 .. m : is(f, k) = IF k = m THEN last ELSE is(e, k)
      <4> SUFFICES ASSUME NEW k \in 0 .. m PROVE is(f, k) = IF k = m THEN last ELSE is(e, k)
        OBVIOUS
      <4>1. CASE k = 0
        BY <2>5, <4>1
      <4>2. CASE k # 0
        <5>1. f[k - 1] = e[k - 1]
          BY <3>3, <3>5, <4>2
        <5>2. is(f, k) = is(e, k)
          BY <5>1
        <5>3. CASE k = m
          BY <2>5, <5>2, <5>3
        <5> QED
          BY <5>2, <5>3
      <4> QED
        BY <4>1, <4>2
    <3>9. \A k \in 0 .. m : f[k] = is(f, k)
      <4> HIDE DEF is, last
      <4> QED
        BY <3>3, <3>4, <3>6, <3>7, <3>8
    <3>10. f = [k \in 0 .. m |-> f[k]]
      BY DEF f
    <3>11. f = [k \in 0 .. m |-> is(f, k)]
      <4> HIDE DEF is
      <4> QED
        BY <3>9, <3>10
    <3>12. Frees(h, q, f, 0 .. m)
      BY <3>11 DEF Frees
    <3> QED
      BY <2>3, <3>12
  <2> QED
    BY <2>4, <2>5
<1> QED
  BY <1>1

\* Items that are live and differ are freed one after the other.
LEMMA FreesAll ==
  ASSUME NEW h, Memory(h), NEW q, NEW S \in SUBSET h.live, Enumerates(q, S),
         NEW t, Frees(h, q, t, 0 .. Len(q))
  PROVE  Freed(h, t[Len(q)], S)
<1> DEFINE n == Len(q)
    done(i) == {q[j] : j \in 1 .. i}
    T == {i \in Nat : i <= n /\ ~Freed(h, t[i], done(i))}
<1>1. /\ q \in Seq(Item) /\ n \in Nat /\ S = done(n)
      /\ \A i, j \in 1 .. n : q[i] = q[j] => i = j
  BY DEF Enumerates
<1>2. ASSUME T # {} PROVE FALSE
  <2>1. T \in SUBSET Nat
    OBVIOUS
  <2> HIDE DEF T
  <2>2. PICK i \in T : \A j \in T : i <= j
    BY <1>2, <2>1, Smallest
  <2>3. i \in Nat /\ i \in 0 .. n /\ i <= n /\ ~Freed(h, t[i], done(i))
    BY <2>2 DEF T
  <2>4. t[i] = IF i = 0 THEN h ELSE Free(t[i - 1], q[i])
    BY <2>3 DEF Frees
  <2>5. CASE i = 0
    <3>1. done(i) = {} /\ t[i] = h
      BY <2>4, <2>5
    <3>2. Freed(h, h, {})
      <4>1. Cardinality({}) = 0
        BY FS_EmptySet
      <4>2. {m \in {} : OwnsKey(h, m)} = {} /\ {m \in {} : OwnsValue(h, m)} = {}
        OBVIOUS
      <4>3. h.strings = h.strings - 0 - 0 /\ h.live = h.live \ {}
        BY DEF Memory
      <4> QED
        BY <4>1, <4>2, <4>3 DEF Freed
    <3> QED
      BY <2>3, <3>1, <3>2
  <2>6. CASE i # 0
    <3>1. i - 1 \in Nat /\ i - 1 <= n /\ ~ (i <= i - 1) /\ i \in 1 .. n
      BY <1>1, <2>3, <2>6
    <3>2. Freed(h, t[i - 1], done(i - 1))
      BY <2>2, <3>1 DEF T
    <3>3. done(i) = done(i - 1) \cup {q[i]}
      <4>1. 1 .. i = (1 .. (i - 1)) \cup {i}
        BY <3>1
      <4> QED
        BY <4>1
    <3>4. q[i] \notin done(i - 1)
      <4>1. \A j \in 1 .. (i - 1) : j \in 1 .. n /\ j # i
        BY <1>1, <3>1
      <4> QED
        BY <1>1, <3>1, <4>1
    <3>5. done(i - 1) \in SUBSET h.live /\ q[i] \in h.live
      BY <1>1, <3>1
    <3> HIDE DEF done
    <3>6. Freed(h, Free(t[i - 1], q[i]), done(i - 1) \cup {q[i]})
      BY <3>2, <3>4, <3>5, FreedMore
    <3> QED
      BY <2>3, <2>4, <2>6, <3>3, <3>6
  <2> QED
    BY <2>5, <2>6
<1>3. ASSUME ~Freed(h, t[n], done(n)) PROVE FALSE
  <2>1. n \in T
    BY <1>1, <1>3
  <2> QED
    BY <1>2, <2>1
<1> QED
  BY <1>1, <1>3

-----------------------------------------------------------------------------
(* Trees change as lists do.                                                 *)

\* No box gets itself under it when what it gets is not above it.
LEMMA Grafted ==
  ASSUME NEW l, l \in [DOMAIN l -> Seq(Item)], DOMAIN l \subseteq Item, Forest(l),
         NEW b \in DOMAIN l, NEW s \in Seq(Item),
         \A i \in 1 .. Len(s) : \/ \E j \in 1 .. Len(l[b]) : s[i] = l[b][j]
                                \/ b \notin Tree(s[i], l)
  PROVE  Forest([l EXCEPT ![b] = s])
<1> DEFINE k == [l EXCEPT ![b] = s]
    New == {i \in 1 .. Len(s) : b \notin Tree(s[i], l)}
    B == UNION {Tree(s[i], l) : i \in New}
<1>1. /\ k \in [DOMAIN k -> Seq(Item)] /\ DOMAIN k = DOMAIN l /\ k[b] = s
      /\ \A c \in DOMAIN l : c # b => k[c] = l[c]
  OBVIOUS
<1>2. \A i \in New : s[i] \in Item /\ s[i] \in Tree(s[i], l) /\ Tree(s[i], l) \subseteq Item
  BY TreeIs
<1>3. B \subseteq Item /\ b \notin B
  BY <1>2
<1> HIDE DEF k
<1>4. SUFFICES ASSUME NEW c \in DOMAIN k, NEW j \in 1 .. Len(k[c]), c \in Tree(k[c][j], k)
               PROVE  FALSE
  BY DEF Forest, k
<1> DEFINE x == k[c][j]
    A == Tree(x, l)
<1>5. x \in Item
  BY <1>1
<1>6. A \subseteq Item /\ x \in A /\ Downward(A, l)
  BY <1>5, TreeIs
<1>7. Downward(B, k)
  <2> SUFFICES ASSUME NEW d \in DOMAIN k, d \in B, NEW m \in 1 .. Len(k[d]) PROVE k[d][m] \in B
    BY DEF Downward
  <2>1. d # b /\ d \in DOMAIN l /\ k[d] = l[d]
    BY <1>1, <1>3
  <2>2. PICK i \in New : d \in Tree(s[i], l)
    OBVIOUS
  <2>3. l[d][m] \in Tree(s[i], l)
    BY <1>2, <2>1, <2>2, TreeIs DEF Downward
  <2> QED
    BY <2>1, <2>2, <2>3
<1>8. CASE b \notin A
  <2>1. Downward(A, k)
    BY <1>1, <1>6, <1>8 DEF Downward
  <2>2. c \in A
    BY <1>1, <1>4, <1>5, <1>6, <2>1, TreeIs
  <2>3. c # b /\ k[c] = l[c]
    BY <1>1, <1>8, <2>2
  <2> QED
    BY <1>1, <2>2, <2>3 DEF Forest
<1>9. CASE b \in A
  <2> DEFINE C == A \cup B
  <2>1. Downward(C, k)
    <3> SUFFICES ASSUME NEW d \in DOMAIN k, d \in C, NEW m \in 1 .. Len(k[d]) PROVE k[d][m] \in C
      BY DEF Downward
    <3>1. CASE d \in B
      BY <1>7, <3>1 DEF Downward
    <3>2. CASE d \in A /\ d # b
      BY <1>1, <1>6, <3>2 DEF Downward
    <3>3. CASE d = b
      <4>1. CASE \E i \in 1 .. Len(l[b]) : s[m] = l[b][i]
        BY <1>1, <1>6, <1>9, <3>3, <4>1 DEF Downward
      <4>2. CASE b \notin Tree(s[m], l)
        BY <1>1, <1>2, <3>3, <4>2
      <4> QED
        BY <1>1, <3>3, <4>1, <4>2
    <3> QED
      BY <3>1, <3>2, <3>3
  <2>2. c \in C
    <3>1. C \in SUBSET Item /\ x \in C
      BY <1>3, <1>6
    <3> HIDE DEF C
    <3> QED
      BY <1>1, <1>4, <1>5, <2>1, <3>1, TreeIs
  <2>3. CASE c # b
    <3>1. k[c] = l[c] /\ c \in DOMAIN l
      BY <1>1, <2>3
    <3>2. c \notin A
      BY <3>1 DEF Forest
    <3>3. PICK i \in New : c \in Tree(s[i], l)
      BY <2>2, <3>2
    <3>4. x \in Tree(s[i], l)
      BY <1>2, <3>1, <3>3, TreeIs DEF Downward
    <3>5. b \in Tree(s[i], l)
      BY <1>2, <1>9, <3>4, TreeInTree
    <3> QED
      BY <3>5
  <2>4. CASE c = b
    <3>1. x = s[j] /\ j \in 1 .. Len(s)
      BY <1>1, <2>4
    <3>2. PICK i \in 1 .. Len(l[b]) : x = l[b][i]
      BY <1>9, <3>1
    <3> QED
      BY <1>9, <3>2 DEF Forest
  <2> QED
    BY <2>3, <2>4
<1> QED
  BY <1>8, <1>9

\* What is not below n can change and the tree of n stays.
LEMMA TreeStays ==
  ASSUME NEW l, l \in [DOMAIN l -> Seq(Item)], NEW b \in DOMAIN l, NEW s \in Seq(Item),
         NEW n \in Item, b \notin Tree(n, l)
  PROVE  Tree(n, [l EXCEPT ![b] = s]) = Tree(n, l)
<1> DEFINE k == [l EXCEPT ![b] = s]
<1>1. /\ k \in [DOMAIN k -> Seq(Item)] /\ DOMAIN k = DOMAIN l
      /\ \A c \in DOMAIN l : c # b => k[c] = l[c]
  OBVIOUS
<1> HIDE DEF k
<1>2. Tree(n, l) \in SUBSET Item /\ n \in Tree(n, l) /\ Downward(Tree(n, l), l)
  BY TreeIs
<1>3. Tree(n, k) \in SUBSET Item /\ n \in Tree(n, k) /\ Downward(Tree(n, k), k)
  BY <1>1, TreeIs
<1>4. Downward(Tree(n, l), k)
  BY <1>1, <1>2 DEF Downward
<1>5. Tree(n, k) \subseteq Tree(n, l)
  BY <1>1, <1>2, <1>4, TreeIs
<1>6. Downward(Tree(n, k), l)
  BY <1>1, <1>3, <1>5 DEF Downward
<1>7. Tree(n, l) \subseteq Tree(n, k)
  BY <1>3, <1>6, TreeIs
<1> QED
  BY <1>5, <1>7 DEF k

Marks == {"kind", "key", "own", "ref", "const"}

\* The items of S are freed, the others are the same items in the lists of k.
Becomes(h, g, k, S) ==
  /\ Trees(g, k) /\ g.live = h.live \ S /\ g.bad = h.bad
  /\ \A f \in Marks : \A n \in g.live : g[f][n] = h[f][n]
  /\ StringsCounted(h) => StringsCounted(g)

LEMMA BecomesTwice ==
  ASSUME NEW h, NEW g, NEW k, NEW S, Becomes(h, g, k, S),
         NEW e, NEW l, NEW T, Becomes(g, e, l, T)
  PROVE  Becomes(h, e, l, S \cup T)
<1>1. e.live = h.live \ (S \cup T) /\ e.live \subseteq g.live
  BY DEF Becomes
<1>2. \A f \in Marks : \A n \in e.live : e[f][n] = h[f][n]
  BY <1>1 DEF Becomes
<1> QED
  BY <1>1, <1>2 DEF Becomes

LEMMA Kept ==
  ASSUME NEW h, NEW l, Trees(h, l), NEW b \in DOMAIN l, NEW g, Relinked(h, g),
         NEW s \in Seq(Item), Lists(g, [l EXCEPT ![b] = s]),
         \A i \in 1 .. Len(s) : \/ \E j \in 1 .. Len(l[b]) : s[i] = l[b][j]
                                \/ s[i] \in h.live /\ b \notin Tree(s[i], l)
  PROVE  Becomes(h, g, [l EXCEPT ![b] = s], {})
<1> DEFINE k == [l EXCEPT ![b] = s]
    Other == {"live", "kind", "key", "own", "ref", "const", "strings", "bad"}
<1>1. h.live \subseteq Item /\ Other \subseteq DOMAIN h /\ Other \cap Fields = {}
  BY DEF Trees, Memory, Fields
<1>2. DOMAIN g = DOMAIN h /\ Links(g) /\ \A f \in Other : g[f] = h[f]
  BY <1>1 DEF Relinked
<1> HIDE DEF Other
<1>3. /\ g.live = h.live /\ g.kind = h.kind /\ g.key = h.key /\ g.own = h.own /\ g.ref = h.ref
      /\ g.const = h.const /\ g.strings = h.strings /\ g.bad = h.bad
  BY <1>2 DEF Other
<1>4. Memory(g)
  BY <1>2, <1>3 DEF Trees, Memory
<1>5. /\ l \in [DOMAIN l -> Seq(Item)] /\ DOMAIN l \subseteq Item /\ Forest(l)
      /\ \A i \in 1 .. Len(s) : s[i] \in h.live
  BY DEF Trees, Lists
<1>6. Forest(k)
  BY <1>5, Grafted
<1>7. DOMAIN k = DOMAIN l /\ k[b] = s /\ \A c \in DOMAIN l : c # b => k[c] = l[c]
  BY <1>5
<1> HIDE DEF k
<1>8. DOMAIN k = {n \in g.live : ~g.ref[n]}
  BY <1>3, <1>7 DEF Trees
<1>9. \A c \in DOMAIN k : \A i \in 1 .. Len(k[c]) : k[c][i] \in g.live
  BY <1>3, <1>5, <1>7 DEF Trees
<1>10. Trees(g, k)
  BY <1>4, <1>6, <1>8, <1>9 DEF Trees, k
<1>11. StringsCounted(h) => StringsCounted(g)
  <2>1. \A n : (OwnsKey(g, n) <=> OwnsKey(h, n)) /\ (OwnsValue(g, n) <=> OwnsValue(h, n))
    BY <1>3 DEF OwnsKey, OwnsValue
  <2>2. /\ {n \in g.live : OwnsKey(g, n)} = {n \in h.live : OwnsKey(h, n)}
        /\ {n \in g.live : OwnsValue(g, n)} = {n \in h.live : OwnsValue(h, n)}
    BY <1>3, <2>1
  <2> QED
    BY <1>3, <2>2 DEF StringsCounted
<1>12. \A f \in Marks : \A n \in g.live : g[f][n] = h[f][n]
  BY <1>3 DEF Marks
<1> QED
  BY <1>3, <1>10, <1>11, <1>12 DEF Becomes, k

\* An item that is added brings its own tree with it (cJSON.c:1946-1983).
THEOREM AddKeeps ==
  ASSUME NEW h, NEW l, Trees(h, l), NEW b \in DOMAIN l,
         NEW n \in h.live, Loose(n, l), h.next[n] = NULL, b \notin Tree(n, l)
  PROVE  Becomes(h, add_item_to_array(h, b, n), [l EXCEPT ![b] = Append(@, n)], {})
<1> DEFINE g == add_item_to_array(h, b, n)
    s == Append(l[b], n)
<1>1. Lists(h, l) /\ n \in Item /\ l[b] \in Seq(Item) /\ Len(l[b]) \in Nat
  BY OneList DEF Trees, Loose
<1>2. Relinked(h, g) /\ Lists(g, [l EXCEPT ![b] = s])
  BY <1>1, AddAppends
<1>3. /\ s \in Seq(Item) /\ Len(s) = Len(l[b]) + 1
      /\ \A i \in 1 .. Len(s) : s[i] = IF i = Len(l[b]) + 1 THEN n ELSE l[b][i]
  BY <1>1
<1> HIDE DEF g, s
<1>4. \A i \in 1 .. Len(s) : \/ \E j \in 1 .. Len(l[b]) : s[i] = l[b][j]
                             \/ s[i] \in h.live /\ b \notin Tree(s[i], l)
  <2>1. \A i \in 1 .. Len(s) : i = Len(l[b]) + 1 \/ i \in 1 .. Len(l[b])
    BY <1>1, <1>3
  <2> QED
    BY <1>3, <2>1
<1>5. Becomes(h, g, [l EXCEPT ![b] = s], {})
  BY <1>2, <1>3, <1>4, Kept
<1> QED
  BY <1>5 DEF g, s

\* So does one that is put in front of another (cJSON.c:2259-2286).
THEOREM InsertKeeps ==
  ASSUME NEW h, NEW l, Trees(h, l), NEW b \in DOMAIN l, NEW which \in Nat,
         NEW n \in h.live, Loose(n, l), h.next[n] = NULL, b \notin Tree(n, l)
  PROVE  Becomes(h, InsertItemInArray(h, b, which, n),
                 [l EXCEPT ![b] = IF which < Len(@) THEN InsertAt(@, which + 1, n)
                                  ELSE Append(@, n)], {})
<1> DEFINE g == InsertItemInArray(h, b, which, n)
    s == IF which < Len(l[b]) THEN InsertAt(l[b], which + 1, n) ELSE Append(l[b], n)
<1>1. Lists(h, l) /\ n \in Item /\ l[b] \in Seq(Item) /\ Len(l[b]) \in Nat
  BY OneList DEF Trees, Loose
<1>2. Relinked(h, g) /\ Lists(g, [l EXCEPT ![b] = s])
  BY <1>1, InsertInserts
<1>3. /\ s \in Seq(Item)
      /\ \A i \in 1 .. Len(s) : s[i] = n \/ \E j \in 1 .. Len(l[b]) : s[i] = l[b][j]
  <2>1. CASE which < Len(l[b])
    <3>1. which + 1 \in 1 .. Len(l[b]) /\ s = InsertAt(l[b], which + 1, n)
      BY <1>1, <2>1
    <3> HIDE DEF s
    <3>2. /\ s \in Seq(Item) /\ Len(s) = Len(l[b]) + 1
          /\ \A j \in 1 .. Len(l[b]) + 1 :
               s[j] = IF j < which + 1 THEN l[b][j] ELSE IF j = which + 1 THEN n ELSE l[b][j - 1]
      BY <1>1, <3>1, InsertAtIs
    <3>3. \A j \in 1 .. Len(l[b]) + 1 : /\ j < which + 1 => j \in 1 .. Len(l[b])
                                        /\ j > which + 1 => j - 1 \in 1 .. Len(l[b])
                                        /\ j < which + 1 \/ j = which + 1 \/ j > which + 1
      BY <1>1, <3>1
    <3> QED
      BY <3>2, <3>3
  <2>2. CASE ~ which < Len(l[b])
    <3>1. s = Append(l[b], n)
      BY <2>2
    <3> HIDE DEF s
    <3>2. /\ s \in Seq(Item) /\ Len(s) = Len(l[b]) + 1
          /\ \A i \in 1 .. Len(s) : s[i] = IF i = Len(l[b]) + 1 THEN n ELSE l[b][i]
      BY <1>1, <3>1
    <3>3. \A i \in 1 .. Len(s) : i = Len(l[b]) + 1 \/ i \in 1 .. Len(l[b])
      BY <1>1, <3>2
    <3> QED
      BY <3>2, <3>3
  <2> QED
    BY <2>1, <2>2
<1> HIDE DEF g, s
<1>4. Becomes(h, g, [l EXCEPT ![b] = s], {})
  BY <1>2, <1>3, Kept
<1> QED
  BY <1>4 DEF g, s

\* An item that is taken out becomes a tree of its own (cJSON.c:2183-2217).
THEOREM DetachKeeps ==
  ASSUME NEW h, NEW l, Trees(h, l), NEW b \in DOMAIN l, NEW i \in 1 .. Len(l[b])
  PROVE  LET n == l[b][i]
             g == DetachItemViaPointer(h, b, n)
             k == [l EXCEPT ![b] = RemoveAt(@, i)]
         IN /\ Becomes(h, g, k, {})
            /\ n \in g.live /\ Loose(n, k) /\ g.next[n] = NULL /\ Tree(n, k) = Tree(n, l)
<1> DEFINE n == l[b][i]
    g == DetachItemViaPointer(h, b, n)
    s == RemoveAt(l[b], i)
    k == [l EXCEPT ![b] = s]
<1>1. /\ Lists(h, l) /\ l \in [DOMAIN l -> Seq(Item)] /\ l[b] \in Seq(Item) /\ Len(l[b]) \in Nat
      /\ n \in Item /\ n \in h.live /\ b \notin Tree(n, l)
      /\ \A j, m \in 1 .. Len(l[b]) : l[b][j] = l[b][m] => j = m
  BY OneList DEF Trees, Forest, Lists
<1>2. Relinked(h, g) /\ Lists(g, k) /\ g.next[n] = NULL
  BY <1>1, DetachRemoves
<1>3. /\ s \in Seq(Item) /\ Len(s) = Len(l[b]) - 1
      /\ \A j \in 1 .. Len(l[b]) - 1 : s[j] = IF j < i THEN l[b][j] ELSE l[b][j + 1]
  BY <1>1, RemoveAtIs
<1> HIDE DEF s
<1>4. \A j \in 1 .. Len(s) : s[j] # n /\ \E m \in 1 .. Len(l[b]) : s[j] = l[b][m]
  <2>1. \A j \in 1 .. Len(l[b]) - 1 : /\ j \in 1 .. Len(l[b]) /\ j + 1 \in 1 .. Len(l[b])
                                      /\ j < i => j # i
                                      /\ ~ (j < i) => j + 1 # i
    BY <1>1
  <2> QED
    BY <1>1, <1>3, <2>1
<1> HIDE DEF g
<1>5. Becomes(h, g, k, {})
  BY <1>2, <1>3, <1>4, Kept
<1>6. Tree(n, k) = Tree(n, l)
  BY <1>1, <1>3, TreeStays
<1>7. Loose(n, k)
  <2>1. DOMAIN k = DOMAIN l /\ k[b] = s /\ \A c \in DOMAIN l : c # b => k[c] = l[c]
    BY <1>1
  <2>2. \A c \in DOMAIN l : c # b => \A j \in 1 .. Len(l[c]) : l[c][j] # n
    BY <1>1 DEF Lists
  <2> HIDE DEF k, n
  <2> QED
    BY <1>1, <1>4, <2>1, <2>2 DEF Loose
<1>8. n \in g.live
  BY <1>1, <1>5 DEF Becomes
<1> QED
  BY <1>2, <1>5, <1>6, <1>7, <1>8 DEF g, s

\* The strings of live items that are not freed are those that are left.
LEMMA StringsLeft ==
  ASSUME NEW h, Memory(h), NEW S \in SUBSET h.live, NEW g, Freed(h, g, S), StringsCounted(h)
  PROVE  StringsCounted(g)
<1> DEFINE K(T) == {m \in T : OwnsKey(h, m)}
    V(T) == {m \in T : OwnsValue(h, m)}
    R == h.live \ S
<1>1. S \in SUBSET Item /\ R \in SUBSET Item /\ h.live \in SUBSET Item /\ g.live = R
  BY DEF Memory, Freed
<1>2. \A m \in R : (OwnsKey(g, m) <=> OwnsKey(h, m)) /\ (OwnsValue(g, m) <=> OwnsValue(h, m))
  <2> SUFFICES ASSUME NEW m \in R
               PROVE  (OwnsKey(g, m) <=> OwnsKey(h, m)) /\ (OwnsValue(g, m) <=> OwnsValue(h, m))
    OBVIOUS
  <2>1. m \in Item \ S
    BY <1>1
  <2>2. \A f \in Parts : g[f][m] = h[f][m]
    BY <2>1 DEF Freed
  <2>3. g.key[m] = h.key[m] /\ g.const[m] = h.const[m] /\ g.own[m] = h.own[m] /\ g.ref[m] = h.ref[m]
    BY <2>2 DEF Parts
  <2> QED
    BY <2>3 DEF OwnsKey, OwnsValue
<1>3. {m \in g.live : OwnsKey(g, m)} = K(R) /\ {m \in g.live : OwnsValue(g, m)} = V(R)
  BY <1>1, <1>2
<1>4. /\ K(h.live) = K(S) \cup K(R) /\ K(S) \cap K(R) = {}
      /\ V(h.live) = V(S) \cup V(R) /\ V(S) \cap V(R) = {}
      /\ K(S) \in SUBSET Item /\ K(R) \in SUBSET Item
      /\ V(S) \in SUBSET Item /\ V(R) \in SUBSET Item
  BY <1>1
<1>5. /\ g.strings = h.strings - Cardinality(K(S)) - Cardinality(V(S))
      /\ h.strings = Cardinality(K(h.live)) + Cardinality(V(h.live))
  BY DEF Freed, StringsCounted
<1> HIDE DEF K, V, R
<1>6. /\ Cardinality(K(S)) \in Nat /\ Cardinality(K(R)) \in Nat
      /\ Cardinality(V(S)) \in Nat /\ Cardinality(V(R)) \in Nat
  BY <1>4, SetOfItems
<1>7. \A A, B \in SUBSET Item : A \cap B = {} =>
        Cardinality(A \cup B) = Cardinality(A) + Cardinality(B)
  <2> SUFFICES ASSUME NEW A \in SUBSET Item, NEW B \in SUBSET Item, A \cap B = {}
               PROVE  Cardinality(A \cup B) = Cardinality(A) + Cardinality(B)
    OBVIOUS
  <2>1. /\ IsFiniteSet(A) /\ IsFiniteSet(B)
        /\ Cardinality(A) \in Nat /\ Cardinality(B) \in Nat
    BY SetOfItems
  <2>2. Cardinality(A \cup B) = Cardinality(A) + Cardinality(B) - Cardinality(A \cap B)
    BY <2>1, FS_Union
  <2>3. Cardinality(A \cap B) = 0
    BY FS_EmptySet
  <2> QED
    BY <2>1, <2>2, <2>3
<1>8. /\ Cardinality(K(h.live)) = Cardinality(K(S)) + Cardinality(K(R))
      /\ Cardinality(V(h.live)) = Cardinality(V(S)) + Cardinality(V(R))
  BY <1>4, <1>7
<1>9. g.strings = Cardinality(K(R)) + Cardinality(V(R))
  BY <1>5, <1>6, <1>8
<1> QED
  BY <1>3, <1>9 DEF StringsCounted

\* A sublist has no more below an item.
LEMMA TreeOfFewer ==
  ASSUME NEW l, l \in [DOMAIN l -> Seq(Item)], NEW S, NEW n \in Item
  PROVE  LET k == [b \in DOMAIN l \ S |-> l[b]] IN Tree(n, k) \subseteq Tree(n, l)
<1> DEFINE k == [b \in DOMAIN l \ S |-> l[b]]
<1>1. k \in [DOMAIN k -> Seq(Item)] /\ DOMAIN k \subseteq DOMAIN l /\ \A b \in DOMAIN k : k[b] = l[b]
  OBVIOUS
<1> HIDE DEF k
<1>2. Tree(n, l) \in SUBSET Item /\ n \in Tree(n, l) /\ Downward(Tree(n, l), l)
  BY TreeIs
<1>3. Downward(Tree(n, l), k)
  BY <1>1, <1>2 DEF Downward
<1> QED
  BY <1>1, <1>2, <1>3, TreeIs DEF k

\* cJSON_Delete frees an item and all that is below it, each item once and with the strings
\* it owns, and changes no other item (cJSON.c:253-274).
THEOREM DeleteFrees ==
  ASSUME NEW h, NEW l, Trees(h, l), NEW n \in h.live, Loose(n, l), h.next[n] = NULL
  PROVE  Becomes(h, Delete(h, n), [b \in DOMAIN l \ Tree(n, l) |-> l[b]], Tree(n, l))
<1> DEFINE q == Doomed(h, n)
    S == Tree(n, l)
    g == Delete(h, n)
    k == [b \in DOMAIN l \ S |-> l[b]]
<1>1. /\ Memory(h) /\ Lists(h, l) /\ Forest(l) /\ l \in [DOMAIN l -> Seq(Item)]
      /\ n \in Item /\ h.live \in SUBSET Item /\ DOMAIN l \subseteq Item
  BY DEF Trees, Memory, Lists
<1>2. S \in SUBSET h.live
  <2>1. Downward(h.live, l)
    BY DEF Trees, Downward
  <2> QED
    BY <1>1, <2>1, TreeIs
<1>3. Enumerates(q, S)
  BY DoomedAre
<1>4. Freed(h, g, S)
  <2> DEFINE w == CHOOSE t : Frees(h, q, t, 0 .. Len(q))
  <2>1. Len(q) \in Nat
    BY <1>3 DEF Enumerates
  <2>2. Frees(h, q, w, 0 .. Len(q))
    BY <2>1, FreesExist
  <2>3. g = w[Len(q)]
    BY DEF Delete, Frees
  <2> HIDE DEF w, g, q, S
  <2>4. Freed(h, w[Len(q)], S)
    BY <1>1, <1>2, <1>3, <2>2, FreesAll
  <2> QED
    BY <2>3, <2>4
<1> HIDE DEF g, q
<1>5. \A f \in Parts : \A m \in Item \ S : g[f][m] = h[f][m]
  BY <1>4 DEF Freed
<1>6. \A m \in Item \ S : /\ g.next[m] = h.next[m] /\ g.prev[m] = h.prev[m]
                          /\ g.child[m] = h.child[m] /\ g.ref[m] = h.ref[m]
  BY <1>5 DEF Parts, Fields
<1>7. ASSUME NEW b \in DOMAIN l, b \notin S, NEW i \in 1 .. Len(l[b]) PROVE l[b][i] \notin S
  <2>1. l[b][i] # n
    BY DEF Loose
  <2> QED
    BY <1>1, <1>7, <2>1, BoxInTree
<1>8. /\ DOMAIN k = DOMAIN l \ S /\ DOMAIN k \subseteq Item /\ k \in [DOMAIN k -> Seq(Item)]
      /\ \A b \in DOMAIN k : k[b] = l[b] /\ b \in DOMAIN l /\ b \notin S /\ b \in Item
  BY <1>1
<1>9. \A b \in DOMAIN k : \A i \in 1 .. Len(k[b]) :
        k[b][i] = l[b][i] /\ k[b][i] \in Item /\ k[b][i] \in h.live /\ k[b][i] \notin S
  <2>1. \A b \in DOMAIN l : \A i \in 1 .. Len(l[b]) : l[b][i] \in Item /\ l[b][i] \in h.live
    BY <1>1 DEF Trees
  <2> HIDE DEF k, S
  <2> QED
    BY <1>7, <1>8, <2>1
<1>10. Forest(k)
  <2>1. \A b \in DOMAIN k : \A i \in 1 .. Len(k[b]) : b \notin Tree(l[b][i], l)
    BY <1>8, <1>1 DEF Forest
  <2>2. \A m \in Item : Tree(m, k) \subseteq Tree(m, l)
    BY <1>1, TreeOfFewer
  <2> HIDE DEF k, S
  <2> QED
    BY <1>8, <1>9, <2>1, <2>2 DEF Forest
<1> HIDE DEF k, S
<1>11. Lists(g, k)
  <2>1. ASSUME NEW b \in DOMAIN k PROVE Linked(g, b, k[b])
    <3>1. Linked(h, b, k[b]) /\ b \in Item \ S
      BY <1>1, <1>8 DEF Lists
    <3>2. g.child[b] = h.child[b]
      BY <1>6, <3>1
    <3>3. \A i \in 1 .. Len(k[b]) : g.next[k[b][i]] = h.next[k[b][i]] /\ g.prev[k[b][i]] = h.prev[k[b][i]]
      BY <1>6, <1>9
    <3> QED
      BY <3>1, <3>2, <3>3 DEF Linked
  <2>2. \A b, c \in DOMAIN k : \A i \in 1 .. Len(k[b]), j \in 1 .. Len(k[c]) :
          k[b][i] = k[c][j] => b = c /\ i = j
    BY <1>1, <1>8 DEF Lists
  <2> QED
    BY <1>4, <1>8, <2>1, <2>2 DEF Lists, Freed, Memory
<1>12. DOMAIN k = {m \in g.live : ~g.ref[m]}
  <2>1. g.live = h.live \ S /\ g.live \subseteq Item \ S
    BY <1>1, <1>4 DEF Freed
  <2>2. DOMAIN l = {m \in h.live : ~h.ref[m]}
    BY DEF Trees
  <2> QED
    BY <1>6, <1>8, <2>1, <2>2
<1>13. Trees(g, k)
  <2>1. \A b \in DOMAIN k : \A i \in 1 .. Len(k[b]) : k[b][i] \in g.live
    BY <1>4, <1>9 DEF Freed
  <2> QED
    BY <1>4, <1>10, <1>11, <1>12, <2>1 DEF Trees, Freed
<1>14. g.bad = h.bad
  <2>1. "bad" \in DOMAIN h \ (Parts \cup {"live", "strings"})
    BY <1>1 DEF Memory, Parts, Fields
  <2> QED
    BY <1>4, <2>1 DEF Freed
<1>15. \A f \in Marks : \A m \in g.live : g[f][m] = h[f][m]
  <2>1. g.live \subseteq Item \ S /\ Marks \subseteq Parts
    BY <1>1, <1>4 DEF Freed, Marks, Parts
  <2> QED
    BY <1>5, <2>1
<1>16. StringsCounted(h) => StringsCounted(g)
  BY <1>1, <1>2, <1>4, StringsLeft
<1> QED
  BY <1>4, <1>13, <1>14, <1>15, <1>16 DEF Becomes, Freed, g, k, S

\* DeleteItemFromArray and DeleteItemFromObject, for the i-th item of b: it goes with its tree.
THEOREM DeleteItemFrees ==
  ASSUME NEW h, NEW l, Trees(h, l), NEW b \in DOMAIN l, NEW i \in 1 .. Len(l[b])
  PROVE  LET n == l[b][i]
             S == Tree(n, l)
             k == [l EXCEPT ![b] = RemoveAt(@, i)]
         IN Becomes(h, Delete(DetachItemViaPointer(h, b, n), n), [c \in DOMAIN l \ S |-> k[c]], S)
<1> DEFINE n == l[b][i]
    S == Tree(n, l)
    g == DetachItemViaPointer(h, b, n)
    k == [l EXCEPT ![b] = RemoveAt(@, i)]
    e == Delete(g, n)
<1>1. /\ Becomes(h, g, k, {})
      /\ n \in g.live /\ Loose(n, k) /\ g.next[n] = NULL /\ Tree(n, k) = S
  BY DetachKeeps
<1>2. DOMAIN k = DOMAIN l
  OBVIOUS
<1> HIDE DEF g, k, n, S
<1>3. Trees(g, k)
  BY <1>1 DEF Becomes
<1>4. Becomes(g, e, [c \in DOMAIN k \ Tree(n, k) |-> k[c]], Tree(n, k))
  BY <1>1, <1>3, DeleteFrees
<1>5. Becomes(g, e, [c \in DOMAIN l \ S |-> k[c]], S)
  BY <1>1, <1>2, <1>4
<1>6. Becomes(h, e, [c \in DOMAIN l \ S |-> k[c]], {} \cup S)
  BY <1>1, <1>5, BecomesTwice
<1>7. {} \cup S = S
  OBVIOUS
<1> QED
  BY <1>6, <1>7 DEF g, k, n, S

\* The item another takes the place of is freed with its tree (cJSON.c:2288-2335).
THEOREM ReplaceFrees ==
  ASSUME NEW h, NEW l, Trees(h, l), NEW b \in DOMAIN l, NEW i \in 1 .. Len(l[b]),
         NEW new \in h.live, Loose(new, l), b \notin Tree(new, l)
  PROVE  LET n == l[b][i]
             S == Tree(n, l)
             k == [l EXCEPT ![b] = ReplaceAt(@, i, new)]
         IN Becomes(h, ReplaceItemViaPointer(h, b, n, new), [c \in DOMAIN l \ S |-> k[c]], S)
<1> DEFINE n == l[b][i]
    S == Tree(n, l)
    g == Exchange(h, b, n, new)
    s == ReplaceAt(l[b], i, new)
    k == [l EXCEPT ![b] = s]
    e == Delete(g, n)
<1>1. /\ Lists(h, l) /\ l \in [DOMAIN l -> Seq(Item)] /\ l[b] \in Seq(Item) /\ Len(l[b]) \in Nat
      /\ n \in Item /\ n \in h.live /\ b \notin Tree(n, l) /\ new \in Item /\ n # new
      /\ \A j, m \in 1 .. Len(l[b]) : l[b][j] = l[b][m] => j = m
  BY OneList DEF Trees, Forest, Lists, Loose
<1>2. Relinked(h, g) /\ Lists(g, k) /\ g.next[n] = NULL
  BY <1>1, ExchangeReplaces
<1>3. /\ s \in Seq(Item) /\ Len(s) = Len(l[b])
      /\ \A j \in 1 .. Len(l[b]) : s[j] = IF j = i THEN new ELSE l[b][j]
  BY <1>1 DEF ReplaceAt
<1>4. DOMAIN k = DOMAIN l /\ k[b] = s /\ \A c \in DOMAIN l : c # b => k[c] = l[c]
  BY <1>1
<1> HIDE DEF s, g
<1>5. \A j \in 1 .. Len(s) : \/ \E m \in 1 .. Len(l[b]) : s[j] = l[b][m]
                             \/ s[j] \in h.live /\ b \notin Tree(s[j], l)
  BY <1>3
<1>6. Becomes(h, g, k, {})
  BY <1>2, <1>3, <1>5, Kept
<1>7. Tree(n, k) = S
  BY <1>1, <1>3, TreeStays
<1>8. Loose(n, k)
  <2>1. \A c \in DOMAIN l : c # b => \A j \in 1 .. Len(l[c]) : l[c][j] # n
    BY <1>1 DEF Lists
  <2>2. \A j \in 1 .. Len(s) : s[j] # n
    BY <1>1, <1>3
  <2> HIDE DEF k, n
  <2> QED
    BY <1>1, <1>4, <2>1, <2>2 DEF Loose
<1>9. n \in g.live /\ Trees(g, k)
  BY <1>1, <1>6 DEF Becomes
<1> HIDE DEF k, n, S
<1>10. Becomes(g, e, [c \in DOMAIN k \ Tree(n, k) |-> k[c]], Tree(n, k))
  BY <1>2, <1>8, <1>9, DeleteFrees
<1>11. Becomes(g, e, [c \in DOMAIN l \ S |-> k[c]], S)
  BY <1>4, <1>7, <1>10
<1>12. Becomes(h, e, [c \in DOMAIN l \ S |-> k[c]], {} \cup S)
  BY <1>6, <1>11, BecomesTwice
<1>13. {} \cup S = S
  OBVIOUS
<1> QED
  BY <1>12, <1>13 DEF ReplaceItemViaPointer, e, g, k, n, S, s

-----------------------------------------------------------------------------
(* Making and naming.                                                        *)

\* The fields Trees and StringsCounted heed, and those that count allocations.
Heeded == Parts \cup {"live", "strings", "bad"}
Counting(h) == {"budget", "short"} \subseteq DOMAIN h

LEMMA Alike ==
  ASSUME NEW h, NEW l, Trees(h, l), NEW g, g = [f \in DOMAIN g |-> g[f]],
         DOMAIN g = DOMAIN h, \A f \in Heeded : g[f] = h[f]
  PROVE  Becomes(h, g, l, {})
<1>1. /\ g.live = h.live /\ g.kind = h.kind /\ g.key = h.key /\ g.own = h.own /\ g.ref = h.ref
      /\ g.const = h.const /\ g.strings = h.strings /\ g.bad = h.bad
      /\ g.next = h.next /\ g.prev = h.prev /\ g.child = h.child
  BY DEF Heeded, Parts, Fields
<1>2. Memory(h) /\ Lists(h, l)
  BY DEF Trees
<1>3. Links(g)
  BY <1>1, <1>2 DEF Memory, Links
<1>4. Memory(g)
  BY <1>1, <1>2, <1>3 DEF Memory
<1>5. Lists(g, l)
  <2>1. \A b \in DOMAIN l : Linked(g, b, l[b])
    BY <1>1, <1>2 DEF Lists, Linked
  <2> QED
    BY <1>2, <1>3, <2>1 DEF Lists
<1>6. Trees(g, l)
  BY <1>1, <1>4, <1>5 DEF Trees
<1>7. StringsCounted(h) => StringsCounted(g)
  <2>1. \A n : (OwnsKey(g, n) <=> OwnsKey(h, n)) /\ (OwnsValue(g, n) <=> OwnsValue(h, n))
    BY <1>1 DEF OwnsKey, OwnsValue
  <2>2. /\ {n \in g.live : OwnsKey(g, n)} = {n \in h.live : OwnsKey(h, n)}
        /\ {n \in g.live : OwnsValue(g, n)} = {n \in h.live : OwnsValue(h, n)}
    BY <1>1, <2>1
  <2> QED
    BY <1>1, <2>2 DEF StringsCounted
<1>8. \A f \in Marks : \A n \in g.live : g[f][n] = h[f][n]
  BY <1>1 DEF Marks
<1> QED
  BY <1>1, <1>6, <1>7, <1>8 DEF Becomes

\* Counting an allocation, or that there was none, changes nothing that matters here.
LEMMA Noted ==
  ASSUME NEW h, Links(h), Counting(h), NEW f \in {"budget", "short"}, NEW v
  PROVE  LET g == [h EXCEPT ![f] = v] IN
           /\ g = [e \in DOMAIN g |-> g[e]] /\ DOMAIN g = DOMAIN h
           /\ \A e \in DOMAIN h : e # f => g[e] = h[e]
BY DEF Links

LEMMA SpendIs ==
  ASSUME NEW h, NEW l, Trees(h, l), Counting(h)
  PROVE  /\ Becomes(h, Spend(h), l, {}) /\ DOMAIN Spend(h) = DOMAIN h
         /\ \A e \in Heeded : Spend(h)[e] = h[e]
<1> DEFINE v == IF h.budget > 0 THEN h.budget - 1 ELSE h.budget
    g == [h EXCEPT !["budget"] = v]
<1>1. Links(h) /\ Heeded \subseteq DOMAIN h
  BY DEF Trees, Memory, Links, Heeded, Parts, Fields
<1>2. Spend(h) = g
  BY DEF Spend
<1> HIDE DEF v
<1>3. /\ g = [e \in DOMAIN g |-> g[e]] /\ DOMAIN g = DOMAIN h
      /\ \A e \in DOMAIN h : e # "budget" => g[e] = h[e]
  BY <1>1, Noted
<1> HIDE DEF g
<1>4. \A e \in Heeded : g[e] = h[e]
  BY <1>1, <1>3 DEF Heeded, Parts, Fields
<1> QED
  BY <1>2, <1>3, <1>4, Alike

LEMMA FailIs ==
  ASSUME NEW h, NEW l, Trees(h, l), Counting(h)
  PROVE  Becomes(h, Fail(h), l, {})
<1> DEFINE g == [h EXCEPT !["short"] = TRUE]
<1>1. Links(h) /\ Heeded \subseteq DOMAIN h
  BY DEF Trees, Memory, Links, Heeded, Parts, Fields
<1>2. Fail(h) = g
  BY DEF Fail
<1>3. /\ g = [e \in DOMAIN g |-> g[e]] /\ DOMAIN g = DOMAIN h
      /\ \A e \in DOMAIN h : e # "short" => g[e] = h[e]
  BY <1>1, Noted
<1> HIDE DEF g
<1>4. \A e \in Heeded : g[e] = h[e]
  BY <1>1, <1>3 DEF Heeded, Parts, Fields
<1> QED
  BY <1>2, <1>3, <1>4, Alike

\* n is new in g, owns nothing yet, and nothing else has changed.
NewIn(h, g, n) ==
  /\ Memory(g) /\ DOMAIN g = DOMAIN h
  /\ n \in Item \ h.live /\ g.live = h.live \cup {n}
  /\ g.strings = h.strings /\ g.bad = h.bad
  /\ \A f \in Parts : \A m \in Item : m # n => g[f][m] = h[f][m]
  /\ g.next[n] = NULL /\ (g.ref[n] \/ g.child[n] = NULL)
  /\ ~OwnsKey(g, n) /\ ~OwnsValue(g, n)

\* The lists with that of n, unless it is a reference and has none.
WithList(g, l, n) ==
  IF g.ref[n] THEN l ELSE [b \in DOMAIN l \cup {n} |-> IF b = n THEN <<>> ELSE l[b]]

\* There is one item more, a tree of its own, and the others are as they were.
Gains(h, g, k, n) ==
  /\ Trees(g, k) /\ n \notin h.live /\ g.live = h.live \cup {n} /\ g.bad = h.bad
  /\ \A f \in Marks : \A m \in h.live : g[f][m] = h[f][m]
  /\ Loose(n, k) /\ g.next[n] = NULL /\ Tree(n, k) = {n}
  /\ StringsCounted(h) => StringsCounted(g)

LEMMA Born ==
  ASSUME NEW h, NEW l, Trees(h, l), NEW g, NEW n, NewIn(h, g, n)
  PROVE  Gains(h, g, WithList(g, l, n), n)
<1> DEFINE k == WithList(g, l, n)
<1>1. /\ Memory(g) /\ DOMAIN g = DOMAIN h /\ n \in Item /\ n \notin h.live
      /\ g.live = h.live \cup {n} /\ g.strings = h.strings /\ g.bad = h.bad
      /\ g.next[n] = NULL /\ g.ref[n] \in BOOLEAN /\ (g.ref[n] \/ g.child[n] = NULL)
  BY DEF NewIn, Memory
<1>2. /\ Memory(h) /\ Lists(h, l) /\ Forest(l) /\ l \in [DOMAIN l -> Seq(Item)]
      /\ h.live \subseteq Item /\ DOMAIN l \subseteq h.live
      /\ DOMAIN l = {m \in h.live : ~h.ref[m]}
      /\ \A b \in DOMAIN l : \A i \in 1 .. Len(l[b]) : l[b][i] \in h.live
  BY DEF Trees, Memory, Lists
<1>3. \A m \in Item : m # n => /\ g.next[m] = h.next[m] /\ g.prev[m] = h.prev[m]
                               /\ g.child[m] = h.child[m] /\ g.ref[m] = h.ref[m]
                               /\ g.key[m] = h.key[m] /\ g.const[m] = h.const[m]
                               /\ g.own[m] = h.own[m] /\ g.kind[m] = h.kind[m]
  BY DEF NewIn, Parts, Fields
<1>4. /\ DOMAIN k = IF g.ref[n] THEN DOMAIN l ELSE DOMAIN l \cup {n}
      /\ \A b \in DOMAIN l : b \in DOMAIN k /\ k[b] = l[b]
      /\ \A b \in DOMAIN k : b \in DOMAIN l \/ (b = n /\ ~g.ref[n] /\ k[b] = <<>>)
  <2>1. CASE g.ref[n]
    BY <1>2, <2>1 DEF WithList
  <2>2. CASE ~g.ref[n]
    <3>1. n \notin DOMAIN l
      BY <1>1, <1>2
    <3> QED
      BY <2>2, <3>1 DEF WithList
  <2> QED
    BY <2>1, <2>2
<1>5. k = [b \in DOMAIN k |-> k[b]]
  <2>1. CASE g.ref[n]
    BY <1>2, <2>1 DEF WithList
  <2>2. CASE ~g.ref[n]
    BY <2>2 DEF WithList
  <2> QED
    BY <2>1, <2>2
<1> HIDE DEF k
<1>6. \A b \in DOMAIN k : \A i \in 1 .. Len(k[b]) : b \in DOMAIN l /\ b # n /\ k[b] = l[b]
  <2>1. \A b \in DOMAIN k : k[b] = <<>> => 1 .. Len(k[b]) = {}
    OBVIOUS
  <2> QED
    BY <1>1, <1>2, <1>4, <2>1
<1>7. DOMAIN k \subseteq Item /\ k \in [DOMAIN k -> Seq(Item)]
  <2>1. \A b \in DOMAIN k : b \in Item /\ k[b] \in Seq(Item)
    <3>1. \A b \in DOMAIN l : l[b] \in Seq(Item)
      BY <1>2
    <3>2. <<>> \in Seq(Item)
      OBVIOUS
    <3> QED
      BY <1>1, <1>2, <1>4, <3>1, <3>2
  <2> QED
    BY <1>5, <2>1
<1>8. \A b \in DOMAIN k : \A i \in 1 .. Len(k[b]) :
        k[b][i] \in h.live /\ k[b][i] \in Item /\ k[b][i] # n
  BY <1>1, <1>2, <1>6
<1>9. Lists(g, k)
  <2>1. ASSUME NEW b \in DOMAIN k PROVE Linked(g, b, k[b])
    <3>1. CASE b \in DOMAIN l
      <4>1. b \in Item /\ b # n /\ k[b] = l[b] /\ Linked(h, b, l[b])
        BY <1>1, <1>2, <1>4, <3>1 DEF Lists
      <4>2. g.child[b] = h.child[b]
        BY <1>3, <4>1
      <4>3. \A i \in 1 .. Len(k[b]) : g.next[k[b][i]] = h.next[k[b][i]] /\ g.prev[k[b][i]] = h.prev[k[b][i]]
        BY <1>3, <1>8
      <4> QED
        BY <4>1, <4>2, <4>3 DEF Linked
    <3>2. CASE b = n /\ ~g.ref[n] /\ k[b] = <<>>
      <4>1. Len(k[b]) = 0 /\ 1 .. Len(k[b]) = {} /\ g.child[b] = NULL
        BY <1>1, <3>2
      <4> QED
        BY <4>1 DEF Linked
    <3> QED
      BY <1>4, <3>1, <3>2
  <2>2. \A b, c \in DOMAIN k : \A i \in 1 .. Len(k[b]), j \in 1 .. Len(k[c]) :
          k[b][i] = k[c][j] => b = c /\ i = j
    BY <1>2, <1>6 DEF Lists
  <2>3. Links(g)
    BY <1>1 DEF Memory
  <2> QED
    BY <1>7, <2>1, <2>2, <2>3 DEF Lists
<1>10. Forest(k)
  <2> SUFFICES ASSUME NEW b \in DOMAIN k, NEW i \in 1 .. Len(k[b]), b \in Tree(k[b][i], k) PROVE FALSE
    BY DEF Forest
  <2>1. b \in DOMAIN l /\ k[b] = l[b] /\ k[b][i] \in Item
    BY <1>6, <1>8
  <2> DEFINE A == Tree(k[b][i], l)
  <2>2. A \in SUBSET Item /\ k[b][i] \in A /\ Downward(A, l)
    BY <1>2, <2>1, TreeIs
  <2> HIDE DEF A
  <2>3. Downward(A, k)
    BY <1>6, <2>2 DEF Downward
  <2>4. Tree(k[b][i], k) \subseteq A
    BY <1>7, <2>1, <2>2, <2>3, TreeIs
  <2>5. b \notin A
    BY <1>2, <2>1 DEF Forest, A
  <2> QED
    BY <2>4, <2>5
<1>11. DOMAIN k = {m \in g.live : ~g.ref[m]}
  <2>1. \A m \in h.live : m # n /\ g.ref[m] = h.ref[m]
    BY <1>1, <1>2, <1>3
  <2>2. CASE g.ref[n]
    BY <1>1, <1>2, <1>4, <2>1, <2>2
  <2>3. CASE ~g.ref[n]
    BY <1>1, <1>2, <1>4, <2>1, <2>3
  <2> QED
    BY <2>2, <2>3
<1>12. Trees(g, k)
  BY <1>1, <1>8, <1>9, <1>10, <1>11 DEF Trees
<1>13. Tree(n, k) = {n}
  <2>1. {n} \in SUBSET Item /\ n \in {n} /\ Downward({n}, k)
    BY <1>1, <1>6 DEF Downward
  <2> QED
    BY <1>1, <1>7, <2>1, TreeIs
<1>14. Loose(n, k)
  BY <1>1, <1>8 DEF Loose
<1>15. StringsCounted(h) => StringsCounted(g)
  <2>1. \A m \in h.live : /\ OwnsKey(g, m) <=> OwnsKey(h, m)
                          /\ OwnsValue(g, m) <=> OwnsValue(h, m)
    <3> SUFFICES ASSUME NEW m \in h.live
                 PROVE  (OwnsKey(g, m) <=> OwnsKey(h, m)) /\ (OwnsValue(g, m) <=> OwnsValue(h, m))
      OBVIOUS
    <3>1. m \in Item /\ m # n
      BY <1>1, <1>2
    <3> QED
      BY <1>3, <3>1 DEF OwnsKey, OwnsValue
  <2>2. ~OwnsKey(g, n) /\ ~OwnsValue(g, n)
    BY DEF NewIn
  <2>3. /\ {m \in g.live : OwnsKey(g, m)} = {m \in h.live : OwnsKey(h, m)}
        /\ {m \in g.live : OwnsValue(g, m)} = {m \in h.live : OwnsValue(h, m)}
    BY <1>1, <2>1, <2>2
  <2> QED
    BY <1>1, <2>3 DEF StringsCounted
<1>16. \A f \in Marks : \A m \in h.live : g[f][m] = h[f][m]
  <2>1. \A m \in h.live : m \in Item /\ m # n
    BY <1>1, <1>2
  <2>2. Marks \subseteq Parts
    BY DEF Marks, Parts
  <2> QED
    BY <2>1, <2>2 DEF NewIn
<1> QED
  BY <1>1, <1>12, <1>13, <1>14, <1>15, <1>16 DEF Gains, k

LEMMA LeastItem == ASSUME NEW S \in SUBSET Item, S # {} PROVE Min(S) \in S
<1>1. S \in SUBSET Nat
  BY DEF Item
<1>2. \E m \in S : \A k \in S : m <= k
  BY <1>1, Smallest
<1> QED
  BY <1>2 DEF Min

LEMMA NewItemIs ==
  ASSUME NEW h, NEW l, Trees(h, l), Counting(h)
  PROVE  LET r == New_Item(h) IN
           \/ r.n = NULL /\ Becomes(h, r.h, l, {})
           \/ /\ r.n # NULL /\ NewIn(h, r.h, r.n)
              /\ ~r.h.ref[r.n] /\ r.h.key[r.n] = NoKey
<1> DEFINE r == New_Item(h)
    S == Item \ h.live
<1>1. CASE h.budget = 0 \/ S = {}
  <2>1. r = [h |-> Fail(h), n |-> NULL]
    BY <1>1 DEF New_Item
  <2>2. Becomes(h, Fail(h), l, {})
    BY FailIs
  <2> QED
    BY <2>1, <2>2
<1>2. CASE ~ (h.budget = 0 \/ S = {})
  <2> DEFINE n == Min(S)
      e == Spend(h)
      b == Blank(e, n)
      g == [b EXCEPT !.live = @ \cup {n}]
  <2>1. n \in Item /\ n \notin h.live /\ n # NULL
    <3>1. n \in S
      BY <1>2, LeastItem
    <3> QED
      BY <3>1 DEF Item, NULL
  <2>2. r = [h |-> g, n |-> n]
    BY <1>2 DEF New_Item
  <2> HIDE DEF n, r
  <2>3. /\ DOMAIN e = DOMAIN h /\ Memory(e) /\ \A f \in Heeded : e[f] = h[f]
    BY SpendIs DEF Becomes, Trees
  <2> HIDE DEF e
  <2>4. /\ Memory(b) /\ DOMAIN b = DOMAIN e
        /\ \A f \in Parts : \A m \in Item : m # n => b[f][m] = e[f][m]
        /\ \A f \in DOMAIN e \ Parts : b[f] = e[f]
        /\ b.next[n] = NULL /\ b.child[n] = NULL /\ b.key[n] = NoKey
        /\ ~b.own[n] /\ ~b.ref[n] /\ ~b.const[n]
    BY <2>1, <2>3, BlankIs
  <2> HIDE DEF b
  <2>5. b = [f \in DOMAIN b |-> b[f]] /\ "live" \in DOMAIN b /\ Heeded \subseteq DOMAIN b
    BY <2>4 DEF Memory, Links, Heeded, Parts, Fields
  <2>6. /\ g = [f \in DOMAIN g |-> g[f]] /\ DOMAIN g = DOMAIN b /\ g.live = b.live \cup {n}
        /\ \A f \in DOMAIN b \ {"live"} : g[f] = b[f]
    BY <2>5
  <2> HIDE DEF g
  <2>7. /\ g.next = b.next /\ g.prev = b.prev /\ g.child = b.child /\ g.kind = b.kind
        /\ g.key = b.key /\ g.own = b.own /\ g.ref = b.ref /\ g.const = b.const
        /\ g.strings = b.strings /\ g.bad = b.bad
    BY <2>5, <2>6 DEF Heeded, Parts, Fields
  <2>8. b.live = e.live /\ b.strings = e.strings /\ b.bad = e.bad
    BY <2>4, <2>5 DEF Heeded, Parts, Fields
  <2>9. e.live = h.live /\ e.strings = h.strings /\ e.bad = h.bad
    BY <2>3 DEF Heeded
  <2>10. Memory(g)
    <3>1. g.live \subseteq Item
      BY <2>1, <2>4, <2>6 DEF Memory
    <3>2. Links(g)
      BY <2>4, <2>6, <2>7 DEF Memory, Links
    <3> QED
      BY <2>4, <2>6, <2>7, <3>1, <3>2 DEF Memory
  <2>11. \A f \in Parts : \A m \in Item : m # n => g[f][m] = h[f][m]
    <3>1. \A f \in Parts : g[f] = b[f] /\ e[f] = h[f]
      BY <2>3, <2>5, <2>6 DEF Heeded, Parts, Fields
    <3> QED
      BY <2>4, <3>1
  <2>12. ~OwnsKey(g, n) /\ ~OwnsValue(g, n)
    BY <2>4, <2>7 DEF OwnsKey, OwnsValue
  <2>13. NewIn(h, g, n)
    BY <2>1, <2>3, <2>4, <2>6, <2>7, <2>8, <2>9, <2>10, <2>11, <2>12 DEF NewIn
  <2> QED
    BY <2>1, <2>2, <2>4, <2>7, <2>13 DEF r
<1> QED
  BY <1>1, <1>2

\* An item that is made is a tree of its own, or there was no memory for it
\* (cJSON.c:241-250).
THEOREM NewItemGains ==
  ASSUME NEW h, NEW l, Trees(h, l), Counting(h)
  PROVE  LET r == New_Item(h) IN
           \/ r.n = NULL /\ Becomes(h, r.h, l, {})
           \/ /\ r.n # NULL
              /\ Gains(h, r.h, [b \in DOMAIN l \cup {r.n} |-> IF b = r.n THEN <<>> ELSE l[b]], r.n)
<1> DEFINE r == New_Item(h)
<1>1. CASE r.n = NULL /\ Becomes(h, r.h, l, {})
  BY <1>1
<1>2. CASE r.n # NULL /\ NewIn(h, r.h, r.n) /\ ~r.h.ref[r.n]
  <2> HIDE DEF r
  <2>1. Gains(h, r.h, WithList(r.h, l, r.n), r.n)
    BY <1>2, Born
  <2> QED
    BY <1>2, <2>1 DEF WithList, r
<1> QED
  BY <1>1, <1>2, NewItemIs

\* A reference shares the children of an item and owns nothing (cJSON.c:1931-1950).
THEOREM ReferenceGains ==
  ASSUME NEW h, NEW l, Trees(h, l), Counting(h), NEW m \in h.live
  PROVE  LET r == create_reference(h, m) IN
           \/ r.n = NULL /\ Becomes(h, r.h, l, {})
           \/ /\ r.n # NULL /\ Gains(h, r.h, l, r.n)
              /\ r.h.ref[r.n] /\ r.h.child[r.n] = h.child[m]
<1> DEFINE q == New_Item(h)
    r == create_reference(h, m)
<1>1. CASE q.n = NULL /\ Becomes(h, q.h, l, {})
  <2>1. r = q
    BY <1>1 DEF create_reference
  <2> QED
    BY <1>1, <2>1
<1>2. CASE q.n # NULL /\ NewIn(h, q.h, q.n) /\ q.h.key[q.n] = NoKey
  <2> DEFINE e == q.h
      n == q.n
      g == [e EXCEPT !.child[n] = h.child[m], !.kind[n] = h.kind[m], !.own[n] = h.own[m],
                     !.const[n] = h.const[m], !.ref[n] = TRUE]
  <2>1. r = [h |-> g, n |-> n]
    BY <1>2 DEF create_reference
  <2>2. /\ n \in Item /\ n # NULL /\ Memory(e) /\ h.child[m] \in Pointer
        /\ h.own[m] \in BOOLEAN /\ h.const[m] \in BOOLEAN /\ e.next[n] = NULL
    <3>1. m \in Item /\ Memory(h)
      BY DEF Trees, Memory
    <3> HIDE DEF q
    <3> QED
      BY <1>2, <3>1 DEF NewIn, Memory, Links
  <2>3. e.key[n] = NoKey
    BY <1>2
  <2> HIDE DEF n, e, q, r
  <2>4. /\ e = [f \in DOMAIN e |-> e[f]] /\ Heeded \subseteq DOMAIN e
        /\ e.child \in [Item -> Pointer] /\ e.kind = [i \in Item |-> e.kind[i]]
        /\ {e.own, e.ref, e.const} \subseteq [Item -> BOOLEAN]
    BY <2>2 DEF Memory, Links, Heeded, Parts, Fields
  <2>5. /\ g = [f \in DOMAIN g |-> g[f]] /\ DOMAIN g = DOMAIN e
        /\ g.child = [e.child EXCEPT ![n] = h.child[m]] /\ g.kind = [e.kind EXCEPT ![n] = h.kind[m]]
        /\ g.own = [e.own EXCEPT ![n] = h.own[m]] /\ g.const = [e.const EXCEPT ![n] = h.const[m]]
        /\ g.ref = [e.ref EXCEPT ![n] = TRUE]
        /\ \A f \in DOMAIN e \ {"child", "kind", "own", "const", "ref"} : g[f] = e[f]
    <3>1. DOMAIN g = DOMAIN e
      BY <2>4
    <3>2. g = [f \in DOMAIN g |-> g[f]]
      BY <2>4
    <3>3. g.child = [e.child EXCEPT ![n] = h.child[m]]
      BY <2>4 DEF Heeded, Parts, Fields
    <3>4. g.kind = [e.kind EXCEPT ![n] = h.kind[m]]
      BY <2>4 DEF Heeded, Parts, Fields
    <3>5. g.own = [e.own EXCEPT ![n] = h.own[m]]
      BY <2>4 DEF Heeded, Parts, Fields
    <3>6. g.const = [e.const EXCEPT ![n] = h.const[m]]
      BY <2>4 DEF Heeded, Parts, Fields
    <3>7. g.ref = [e.ref EXCEPT ![n] = TRUE]
      BY <2>4 DEF Heeded, Parts, Fields
    <3>8. \A f \in DOMAIN e \ {"child", "kind", "own", "const", "ref"} : g[f] = e[f]
      BY <2>4
    <3> HIDE DEF g
    <3> QED
      BY <3>1, <3>2, <3>3, <3>4, <3>5, <3>6, <3>7, <3>8
  <2> HIDE DEF g
  <2>6. /\ g.next = e.next /\ g.prev = e.prev /\ g.key = e.key /\ g.live = e.live
        /\ g.strings = e.strings /\ g.bad = e.bad
    BY <2>4, <2>5 DEF Heeded, Parts, Fields
  <2>7. /\ g.child \in [Item -> Pointer] /\ g.own \in [Item -> BOOLEAN]
        /\ g.ref \in [Item -> BOOLEAN] /\ g.const \in [Item -> BOOLEAN]
        /\ g.kind = [i \in Item |-> g.kind[i]]
    <3>1. DOMAIN e.kind = Item
      BY <2>4
    <3>2. g.kind = [i \in Item |-> g.kind[i]]
      BY <2>5, <3>1
    <3> QED
      BY <2>2, <2>4, <2>5, <3>2
  <2>8. Memory(g)
    <3>1. Links(g)
      BY <2>2, <2>5, <2>6, <2>7 DEF Memory, Links
    <3>2. g.key = [i \in Item |-> g.key[i]]
      BY <2>2, <2>6 DEF Memory
    <3>3. /\ g.live \subseteq Item /\ g.strings \in Int
          /\ {"live", "kind", "key", "own", "ref", "const", "strings", "bad"} \subseteq DOMAIN g
      BY <2>2, <2>5, <2>6 DEF Memory
    <3>4. {g.own, g.ref, g.const} \subseteq [Item -> BOOLEAN]
      BY <2>7
    <3>5. g.kind = [i \in Item |-> g.kind[i]]
      BY <2>7
    <3> QED
      BY <3>1, <3>2, <3>3, <3>4, <3>5 DEF Memory
  <2>9. \A f \in Parts : \A i \in Item : i # n => g[f][i] = e[f][i]
    <3>1. \A i \in Item : i # n => /\ g.child[i] = e.child[i] /\ g.kind[i] = e.kind[i]
                                   /\ g.own[i] = e.own[i] /\ g.const[i] = e.const[i]
                                   /\ g.ref[i] = e.ref[i]
      <4>1. DOMAIN e.kind = Item
        BY <2>4
      <4> QED
        BY <2>4, <2>5, <4>1
    <3> QED
      BY <2>6, <3>1 DEF Parts, Fields
  <2>10. g.ref[n] /\ g.child[n] = h.child[m]
    BY <2>2, <2>4, <2>5
  <2>11. NewIn(h, e, n)
    BY <1>2 DEF e, n
  <2>12. NewIn(h, g, n)
    <3>1. ~OwnsKey(g, n) /\ ~OwnsValue(g, n)
      BY <2>3, <2>6, <2>10 DEF OwnsKey, OwnsValue
    <3> QED
      BY <2>2, <2>5, <2>6, <2>8, <2>9, <2>10, <2>11, <3>1 DEF NewIn
  <2>13. Gains(h, g, WithList(g, l, n), n)
    BY <2>12, Born
  <2>14. Gains(h, g, l, n)
    BY <2>10, <2>13 DEF WithList
  <2> QED
    BY <2>1, <2>2, <2>10, <2>14 DEF r
<1> QED
  BY <1>1, <1>2, NewItemIs

\* g is h, but that n has another name, and the strings that were owned are counted.
NamedIn(h, g, n) ==
  /\ g = [f \in DOMAIN g |-> g[f]] /\ DOMAIN g = DOMAIN h /\ n \in h.live
  /\ \A f \in Heeded \ {"key", "const", "strings"} : g[f] = h[f]
  /\ g.key = [i \in Item |-> g.key[i]] /\ g.const \in [Item -> BOOLEAN]
  /\ \A i \in Item : i # n => g.key[i] = h.key[i] /\ g.const[i] = h.const[i]
  /\ g.strings = h.strings - One(OwnsKey(h, n)) + One(OwnsKey(g, n))

LEMMA Named ==
  ASSUME NEW h, NEW l, Trees(h, l), NEW g, NEW n, NamedIn(h, g, n)
  PROVE  Trees(g, l) /\ (StringsCounted(h) => StringsCounted(g))
<1>1. /\ Memory(h) /\ Lists(h, l) /\ n \in h.live /\ n \in Item /\ DOMAIN g = DOMAIN h
      /\ h.live \in SUBSET Item
  BY DEF NamedIn, Trees, Memory
<1>2. /\ g.live = h.live /\ g.kind = h.kind /\ g.own = h.own /\ g.ref = h.ref /\ g.bad = h.bad
      /\ g.next = h.next /\ g.prev = h.prev /\ g.child = h.child
  BY DEF NamedIn, Heeded, Parts, Fields
<1>3. g.strings \in Int
  BY <1>1 DEF NamedIn, Memory, One
<1>4. Links(g)
  BY <1>1, <1>2 DEF Memory, Links, NamedIn
<1>5. Memory(g)
  <2>1. /\ g.key = [i \in Item |-> g.key[i]] /\ g.const \in [Item -> BOOLEAN]
    BY DEF NamedIn
  <2>2. g.kind = [i \in Item |-> g.kind[i]]
    BY <1>1, <1>2 DEF Memory
  <2>3. {g.own, g.ref, g.const} \subseteq [Item -> BOOLEAN]
    BY <1>1, <1>2, <2>1 DEF Memory
  <2>4. {"live", "kind", "key", "own", "ref", "const", "strings", "bad"} \subseteq DOMAIN g
    BY <1>1 DEF Memory
  <2> QED
    BY <1>1, <1>2, <1>3, <1>4, <2>1, <2>2, <2>3, <2>4 DEF Memory
<1>6. Lists(g, l)
  <2>1. \A b \in DOMAIN l : Linked(g, b, l[b])
    BY <1>1, <1>2 DEF Lists, Linked
  <2> QED
    BY <1>1, <1>4, <2>1 DEF Lists
<1>7. Trees(g, l)
  BY <1>2, <1>5, <1>6 DEF Trees
<1>8. ASSUME StringsCounted(h) PROVE StringsCounted(g)
  <2> DEFINE R == h.live \ {n}
      A == {m \in R : OwnsKey(h, m)}
      K == {m \in h.live : OwnsKey(h, m)}
      L == {m \in g.live : OwnsKey(g, m)}
      c == One(OwnsKey(h, n))
      d == One(OwnsKey(g, n))
  <2>1. \A m \in R : OwnsKey(g, m) <=> OwnsKey(h, m)
    BY <1>1 DEF NamedIn, OwnsKey
  <2>2. A \in SUBSET R /\ R \in SUBSET Item /\ n \notin R
    BY <1>1
  <2>3. (K = A \cup {n} /\ c = 1) \/ (K = A /\ c = 0)
    BY <1>1 DEF One
  <2>4. (L = A \cup {n} /\ d = 1) \/ (L = A /\ d = 0)
    BY <1>1, <1>2, <2>1 DEF One
  <2>5. {m \in g.live : OwnsValue(g, m)} = {m \in h.live : OwnsValue(h, m)}
    BY <1>2 DEF OwnsValue
  <2>6. g.strings = h.strings - c + d /\ h.strings \in Int
    BY <1>1 DEF NamedIn, Memory
  <2>7. h.strings = Cardinality(K) + Cardinality({m \in h.live : OwnsValue(h, m)})
    BY <1>8 DEF StringsCounted
  <2>8. Cardinality({m \in h.live : OwnsValue(h, m)}) \in Nat
    BY <1>1, SetOfItems
  <2> HIDE DEF A, K, L, c, d, R
  <2>9. Cardinality(K) = Cardinality(A) + c /\ Cardinality(A) \in Nat
    BY <1>1, <2>2, <2>3, OneMore
  <2>10. Cardinality(L) = Cardinality(A) + d
    BY <1>1, <2>2, <2>4, OneMore
  <2>11. c \in Int /\ d \in Int
    BY <2>3, <2>4
  <2>12. g.strings = Cardinality(L) + Cardinality({m \in h.live : OwnsValue(h, m)})
    BY <2>6, <2>7, <2>8, <2>9, <2>10, <2>11
  <2> QED
    BY <2>5, <2>12 DEF StringsCounted, L
<1> QED
  BY <1>7, <1>8

\* g, where a string has been copied if the name is not constant, is named.
LEMMA RenameIs ==
  ASSUME NEW h, Memory(h), NEW s, s = [f \in DOMAIN s |-> s[f]], DOMAIN s = DOMAIN h,
         \A f \in Heeded \ {"strings"} : s[f] = h[f],
         NEW n \in h.live, NEW k, k # NoKey, NEW const \in BOOLEAN,
         s.strings = IF const THEN h.strings ELSE h.strings + 1
  PROVE  LET g == Rename(s, n, k, const) IN
           NamedIn(h, g, n) /\ g.key[n] = k /\ g.const[n] = const
<1> DEFINE g == Rename(s, n, k, const)
    c == One(OwnsKey(s, n))
<1>1. /\ n \in Item /\ Heeded \subseteq DOMAIN s /\ s = [f \in DOMAIN s |-> s[f]]
      /\ s.key = h.key /\ s.const = h.const /\ DOMAIN s.key = Item /\ h.strings \in Int
      /\ s.const \in [Item -> BOOLEAN] /\ c \in Int
  BY DEF Memory, Links, Heeded, Parts, Fields, One
<1>2. c = One(OwnsKey(h, n))
  BY <1>1 DEF OwnsKey
<1>3. g = [s EXCEPT !.strings = @ - c, !.key[n] = k, !.const[n] = const]
  BY DEF Rename
<1> HIDE DEF g, c
<1>4. DOMAIN g = DOMAIN s /\ g = [f \in DOMAIN g |-> g[f]]
  BY <1>3
<1>5. g.strings = s.strings - c
  BY <1>1, <1>3 DEF Heeded, Parts, Fields
<1>6. g.key = [s.key EXCEPT ![n] = k]
  BY <1>1, <1>3 DEF Heeded, Parts, Fields
<1>7. g.const = [s.const EXCEPT ![n] = const]
  BY <1>1, <1>3 DEF Heeded, Parts, Fields
<1>8. \A f \in Heeded \ {"key", "const", "strings"} : g[f] = s[f]
  BY <1>1, <1>3
<1>9. \A f \in Heeded \ {"key", "const", "strings"} : g[f] = h[f]
  BY <1>8
<1>10. /\ g.key = [i \in Item |-> g.key[i]] /\ g.key[n] = k
       /\ \A i \in Item : i # n => g.key[i] = h.key[i]
  BY <1>1, <1>6
<1>11. /\ g.const \in [Item -> BOOLEAN] /\ g.const[n] = const
       /\ \A i \in Item : i # n => g.const[i] = h.const[i]
  BY <1>1, <1>7
<1>12. One(OwnsKey(g, n)) = IF const THEN 0 ELSE 1
  BY <1>10, <1>11 DEF OwnsKey, One
<1>13. g.strings = h.strings - c + One(OwnsKey(g, n))
  <2>1. CASE const
    BY <1>1, <1>5, <1>12, <2>1
  <2>2. CASE ~const
    BY <1>1, <1>5, <1>12, <2>2
  <2> QED
    BY <2>1, <2>2
<1> QED
  BY <1>2, <1>4, <1>9, <1>10, <1>11, <1>13 DEF NamedIn, g

\* A member that is added under a name replaces the name it had, which is freed when the item
\* owned it; when the new one cannot be copied, nothing changes (cJSON.c:2007-2042).
THEOREM AddNamedKeeps ==
  ASSUME NEW h, NEW l, Trees(h, l), Counting(h), NEW b \in DOMAIN l,
         NEW n \in h.live, Loose(n, l), h.next[n] = NULL, b \notin Tree(n, l),
         NEW k, k # NoKey, NEW const \in BOOLEAN
  PROVE  LET r == add_item_to_object(h, b, k, n, const) IN
           \/ ~r.ok /\ ~const /\ Becomes(h, r.h, l, {})
           \/ /\ r.ok /\ Trees(r.h, [l EXCEPT ![b] = Append(@, n)])
              /\ r.h.live = h.live /\ r.h.bad = h.bad
              /\ r.h.key[n] = k /\ r.h.const[n] = const
              /\ \A f \in Marks : \A m \in h.live : m # n => r.h[f][m] = h[f][m]
              /\ StringsCounted(h) => StringsCounted(r.h)
<1> DEFINE r == add_item_to_object(h, b, k, n, const)
    e == Spend(h)
    d == [e EXCEPT !.strings = @ + 1]
    s == IF const THEN h ELSE d
    g == Rename(s, n, k, const)
    a == add_item_to_array(g, b, n)
<1>1. /\ Memory(h) /\ n \in Item /\ n # NULL
      /\ h = [f \in DOMAIN h |-> h[f]] /\ Heeded \subseteq DOMAIN h /\ "strings" \in Heeded
  BY DEF Trees, Memory, Links, Heeded, Parts, Fields, Item, NULL
<1>2. CASE ~const /\ h.budget = 0
  <2>1. r = [h |-> Fail(h), ok |-> FALSE]
    BY <1>1, <1>2 DEF add_item_to_object, strdup
  <2>2. Becomes(h, Fail(h), l, {})
    BY FailIs
  <2> QED
    BY <1>2, <2>1, <2>2
<1>3. CASE const \/ h.budget # 0
  <2>1. r = [h |-> a, ok |-> TRUE]
    <3>1. CASE const
      BY <1>1, <3>1 DEF add_item_to_object
    <3>2. CASE ~const
      BY <1>1, <1>3, <3>2 DEF add_item_to_object, strdup
    <3> QED
      BY <3>1, <3>2
  <2>2. /\ DOMAIN e = DOMAIN h /\ Memory(e) /\ \A f \in Heeded : e[f] = h[f]
    BY SpendIs DEF Becomes, Trees
  <2> HIDE DEF e
  <2>3. /\ d = [f \in DOMAIN d |-> d[f]] /\ DOMAIN d = DOMAIN h /\ d.strings = h.strings + 1
        /\ \A f \in Heeded \ {"strings"} : d[f] = h[f]
    <3>1. e = [f \in DOMAIN e |-> e[f]] /\ e.strings = h.strings
      BY <1>1, <2>2 DEF Memory, Links
    <3> QED
      BY <1>1, <2>2, <3>1
  <2> HIDE DEF d
  <2>4. /\ s = [f \in DOMAIN s |-> s[f]] /\ DOMAIN s = DOMAIN h
        /\ \A f \in Heeded \ {"strings"} : s[f] = h[f]
        /\ s.strings = IF const THEN h.strings ELSE h.strings + 1
    <3>1. CASE const
      BY <1>1, <3>1
    <3>2. CASE ~const
      BY <2>3, <3>2
    <3> QED
      BY <3>1, <3>2
  <2> HIDE DEF s
  <2>5. NamedIn(h, g, n) /\ g.key[n] = k /\ g.const[n] = const
    BY <1>1, <2>4, RenameIs
  <2> HIDE DEF g
  <2>6. Trees(g, l) /\ (StringsCounted(h) => StringsCounted(g))
    BY <2>5, Named
  <2>7. /\ g.live = h.live /\ g.bad = h.bad /\ g.next = h.next /\ g.kind = h.kind
        /\ g.own = h.own /\ g.ref = h.ref
        /\ \A i \in Item : i # n => g.key[i] = h.key[i] /\ g.const[i] = h.const[i]
    BY <2>5 DEF NamedIn, Heeded, Parts, Fields
  <2>8. Becomes(g, a, [l EXCEPT ![b] = Append(@, n)], {})
    BY <2>6, <2>7, AddKeeps
  <2> HIDE DEF a, r
  <2>9. a.live = h.live /\ a.bad = h.bad /\ (StringsCounted(h) => StringsCounted(a))
    BY <2>6, <2>7, <2>8 DEF Becomes
  <2>10. \A f \in Marks : \A m \in h.live : a[f][m] = g[f][m]
    BY <2>8, <2>9 DEF Becomes
  <2>11. a.key[n] = k /\ a.const[n] = const
    BY <2>5, <2>10 DEF Marks
  <2>12. \A f \in Marks : \A m \in h.live : m # n => g[f][m] = h[f][m]
    <3>1. \A m \in h.live : m \in Item
      BY <1>1 DEF Memory
    <3> QED
      BY <2>7, <3>1 DEF Marks
  <2>13. Trees(a, [l EXCEPT ![b] = Append(@, n)])
    BY <2>8 DEF Becomes
  <2> QED
    BY <2>1, <2>9, <2>10, <2>11, <2>12, <2>13 DEF r
<1> QED
  BY <1>2, <1>3
=============================================================================
