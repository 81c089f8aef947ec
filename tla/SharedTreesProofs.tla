------------------------- MODULE SharedTreesProofs -------------------------
(***************************************************************************)
(* The reference counts of shared trees are exact, nothing held refers to  *)
(* a subtree that was freed, no subtree is below itself, and an edit, a    *)
(* parse or the balancing of a tree leaves every other tree as it was: for *)
(* every document, text, edit and number of trees.                         *)
(***************************************************************************)
EXTENDS SharedTrees, TLAPS, FiniteSetTheorems, FunctionTheorems, SequenceTheorems,
        WellFoundedInduction

\* A set of natural numbers that is not empty has a least element.
LEMMA LeastNatural ==
    ASSUME NEW S \in SUBSET Nat, S # {}
    PROVE  \E x \in S : \A y \in S : x <= y
<1>1. PICK x \in S : \A y \in S : ~ (<<y, x>> \in OpToRel(<, Nat))
  BY NatLessThanWellFounded, WFMin
<1>2. ASSUME NEW y \in S PROVE x <= y
  <2>1. ~ (y < x)
    BY <1>1 DEF OpToRel
  <2> QED
    BY <2>1
<1> QED
  BY <1>2

Hit(r, id) == IF r.id = id THEN 1 ELSE 0
Named(s, id) == {i \in DOMAIN s : s[i].id = id}

-----------------------------------------------------------------------------
(* Lists, and how often a list has a reference. *)

\* A list has a length, and is a sequence over whatever has its members.
LEMMA ListIsSeq ==
    ASSUME NEW s, IsList(s)
    PROVE  /\ Len(s) \in Nat /\ DOMAIN s = 1 .. Len(s)
           /\ \A S : (\A i \in 1 .. Len(s) : s[i] \in S) => s \in Seq(S)
<1> DEFINE R == {s[i] : i \in DOMAIN s}
<1>1. s \in Seq(R)
  BY DEF IsList
<1>2. Len(s) \in Nat /\ DOMAIN s = 1 .. Len(s)
  BY <1>1
<1>3. ASSUME NEW S, \A i \in 1 .. Len(s) : s[i] \in S PROVE s \in Seq(S)
  <2>1. s = [i \in 1 .. Len(s) |-> s[i]]
    BY <1>1
  <2> QED
    BY <1>2, <1>3, <2>1, IsASeq
<1> QED
  BY <1>2, <1>3

\* A sequence is a list.
LEMMA SeqIsList ==
    ASSUME NEW S, NEW s \in Seq(S)
    PROVE  IsList(s)
<1>1. s = [i \in 1 .. Len(s) |-> s[i]] /\ DOMAIN s = 1 .. Len(s) /\ Len(s) \in Nat
  OBVIOUS
<1>2. \A i \in 1 .. Len(s) : s[i] \in {s[j] : j \in DOMAIN s}
  BY <1>1
<1> QED
  BY <1>1, <1>2, IsASeq DEF IsList

\* So is a function on the first numbers.
LEMMA FunctionIsList ==
    ASSUME NEW n \in Nat, NEW f, f = [i \in 1 .. n |-> f[i]]
    PROVE  IsList(f) /\ Len(f) = n /\ DOMAIN f = 1 .. n
<1> DEFINE S == {f[i] : i \in 1 .. n}
<1>1. \A i \in 1 .. n : f[i] \in S
  OBVIOUS
<1> HIDE DEF S
<1>2. f \in Seq(S)
  BY <1>1, IsASeq
<1>3. IsList(f) /\ Len(f) \in Nat /\ DOMAIN f = 1 .. Len(f) /\ DOMAIN f = 1 .. n
  BY <1>2, SeqIsList
<1>4. (Len(f) < n => n \in 1 .. Len(f)) /\ (n < Len(f) => Len(f) \in 1 .. n)
  BY <1>3
<1> QED
  BY <1>3, <1>4

LEMMA EmptyIsList == IsList(<<>>) /\ DOMAIN <<>> = {} /\ Len(<<>>) = 0
<1>1. <<>> \in Seq({}) /\ Len(<<>>) = 0
  OBVIOUS
<1>2. IsList(<<>>)
  BY <1>1, SeqIsList
<1>3. DOMAIN <<>> = 1 .. 0
  BY <1>1
<1>4. 1 .. 0 = {}
  OBVIOUS
<1> QED
  BY <1>1, <1>2, <1>3, <1>4

\* A list behind which something comes,
LEMMA ListAppend ==
    ASSUME NEW s, IsList(s), NEW e
    PROVE  /\ IsList(Append(s, e)) /\ Len(Append(s, e)) = Len(s) + 1
           /\ DOMAIN Append(s, e) = 1 .. Len(s) + 1
           /\ \A i \in 1 .. Len(s) : Append(s, e)[i] = s[i]
           /\ Append(s, e)[Len(s) + 1] = e
<1> DEFINE S == {s[i] : i \in DOMAIN s} \cup {e}
<1>1. s \in Seq(S)
  BY ListIsSeq
<1> HIDE DEF S
<1>2. e \in S
  BY DEF S
<1>3. Append(s, e) \in Seq(S)
  BY <1>1, <1>2
<1>4. Len(s) \in Nat
  BY ListIsSeq
<1> QED
  <2>1. IsList(Append(s, e))
    BY <1>3, SeqIsList
  <2>2. Len(Append(s, e)) = Len(s) + 1
    BY <1>1, <1>2
  <2>3. DOMAIN Append(s, e) = 1 .. Len(s) + 1
    BY <1>3, <2>2
  <2> QED
    BY <1>1, <1>2, <1>4, <2>1, <2>2, <2>3, AppendProperties

\* in which a member is replaced,
LEMMA ListExcept ==
    ASSUME NEW s, IsList(s), NEW i \in DOMAIN s, NEW e
    PROVE  /\ IsList([s EXCEPT ![i] = e]) /\ Len([s EXCEPT ![i] = e]) = Len(s)
           /\ DOMAIN [s EXCEPT ![i] = e] = DOMAIN s
<1> DEFINE S == {s[j] : j \in DOMAIN s} \cup {e}
<1>1. s \in Seq(S) /\ e \in S /\ i \in 1 .. Len(s)
  BY ListIsSeq
<1> HIDE DEF S
<1> QED
  BY <1>1, ExceptSeq, SeqIsList

\* the first members of a list,
LEMMA ListFirst ==
    ASSUME NEW s, IsList(s), NEW m \in 0 .. Len(s)
    PROVE  /\ IsList(SubSeq(s, 1, m)) /\ Len(SubSeq(s, 1, m)) = m
           /\ DOMAIN SubSeq(s, 1, m) = 1 .. m
           /\ \A i \in 1 .. m : SubSeq(s, 1, m)[i] = s[i]
<1> DEFINE S == {s[j] : j \in DOMAIN s}
<1>1. Len(s) \in Nat /\ DOMAIN s = 1 .. Len(s) /\ \A i \in 1 .. m : s[i] \in S
  BY ListIsSeq
<1> HIDE DEF S
<1>2. /\ SubSeq(s, 1, m) \in Seq(S) /\ Len(SubSeq(s, 1, m)) = IF 1 <= m THEN m - 1 + 1 ELSE 0
      /\ \A i \in 1 .. m - 1 + 1 : SubSeq(s, 1, m)[i] = s[1 + i - 1]
  BY <1>1, SubSeqProperties
<1>3. Len(SubSeq(s, 1, m)) = m /\ m - 1 + 1 = m /\ \A i \in 1 .. m : 1 + i - 1 = i
  BY <1>1, <1>2
<1> DEFINE f == SubSeq(s, 1, m)
<1>4. f \in Seq(S) /\ Len(f) = m /\ \A i \in 1 .. m : f[i] = s[i]
  BY <1>2, <1>3
<1> HIDE DEF f
<1>5. IsList(f) /\ DOMAIN f = 1 .. m
  BY <1>4, SeqIsList
<1> QED
  BY <1>4, <1>5 DEF f

\* and the others.
LEMMA ListRest ==
    ASSUME NEW s, IsList(s), NEW m \in 0 .. Len(s)
    PROVE  /\ IsList(SubSeq(s, m + 1, Len(s))) /\ Len(SubSeq(s, m + 1, Len(s))) = Len(s) - m
           /\ DOMAIN SubSeq(s, m + 1, Len(s)) = 1 .. Len(s) - m
           /\ \A i \in 1 .. Len(s) - m : SubSeq(s, m + 1, Len(s))[i] = s[m + i]
<1> DEFINE S == {s[j] : j \in DOMAIN s}
<1>1. Len(s) \in Nat /\ DOMAIN s = 1 .. Len(s) /\ \A i \in m + 1 .. Len(s) : s[i] \in S
  BY ListIsSeq
<1> HIDE DEF S
<1>2. \A n \in Nat : m <= n =>
        (IF m + 1 <= n THEN n - (m + 1) + 1 ELSE 0) = n - m /\ n - (m + 1) + 1 = n - m
  BY <1>1
<1>3. \A i \in Nat : m + 1 + i - 1 = m + i
  BY <1>1
<1> DEFINE n == Len(s)
           f == SubSeq(s, m + 1, n)
<1>4. /\ f \in Seq(S) /\ Len(f) = IF m + 1 <= n THEN n - (m + 1) + 1 ELSE 0
      /\ \A i \in 1 .. n - (m + 1) + 1 : f[i] = s[m + 1 + i - 1]
  BY <1>1, SubSeqProperties
<1> HIDE DEF f
<1>5. n \in Nat /\ m <= n /\ m \in Nat
  BY <1>1
<1> HIDE DEF n
<1>6. Len(f) = n - m /\ n - (m + 1) + 1 = n - m
  BY <1>2, <1>4, <1>5
<1>7. ASSUME NEW i \in 1 .. n - m PROVE f[i] = s[m + i]
  <2>1. i \in Nat /\ i \in 1 .. n - (m + 1) + 1
    BY <1>5, <1>6
  <2>2. f[i] = s[m + 1 + i - 1] /\ m + 1 + i - 1 = m + i
    BY <1>3, <1>4, <2>1
  <2> QED
    BY <2>2
<1>8. IsList(f) /\ DOMAIN f = 1 .. n - m
  BY <1>4, <1>5, <1>6, SeqIsList
<1> QED
  BY <1>6, <1>7, <1>8 DEF f, n

\* What is last, and what is in front of it.
LEMMA ListFront ==
    ASSUME NEW s, IsList(s), s # <<>>
    PROVE  /\ Last(s) = s[Len(s)] /\ Len(s) \in DOMAIN s /\ Len(s) - 1 \in Nat
           /\ IsList(Front(s)) /\ Len(Front(s)) = Len(s) - 1
           /\ DOMAIN Front(s) = 1 .. Len(s) - 1
           /\ \A i \in 1 .. Len(s) - 1 : Front(s)[i] = s[i]
<1>1. Len(s) \in Nat /\ Len(s) # 0 /\ DOMAIN s = 1 .. Len(s)
  <2>1. s \in Seq({s[i] : i \in DOMAIN s})
    BY DEF IsList
  <2> QED
    BY <2>1, ListIsSeq
<1>2. Front(s) = SubSeq(s, 1, Len(s) - 1) /\ Last(s) = s[Len(s)]
  BY DEF Front, Last
<1>3. Len(s) - 1 \in 0 .. Len(s)
  BY <1>1
<1> QED
  BY <1>1, <1>2, <1>3, ListFirst
\* A list has a reference finitely often,
LEMMA TimesType ==
    ASSUME NEW s, IsList(s), NEW id
    PROVE  IsFiniteSet(Named(s, id)) /\ Times(id, s) \in Nat /\ Times(id, s) = Cardinality(Named(s, id))
<1>1. IsFiniteSet(1 .. Len(s)) /\ DOMAIN s = 1 .. Len(s)
  BY ListIsSeq, FS_Interval
<1>2. Named(s, id) \in SUBSET (1 .. Len(s))
  BY <1>1 DEF Named
<1>3. IsFiniteSet(Named(s, id))
  BY <1>1, <1>2, FS_Subset
<1>4. Times(id, s) = Cardinality(Named(s, id))
  BY DEF Times, Named
<1> QED
  BY <1>3, <1>4, FS_CardinalityType

\* never when it is empty,
LEMMA TimesEmpty ==
    ASSUME NEW id
    PROVE  Times(id, <<>>) = 0
<1>1. {i \in DOMAIN <<>> : <<>>[i].id = id} = {}
  BY EmptyIsList
<1> QED
  BY <1>1, FS_EmptySet DEF Times

\* at least once when it is there,
LEMMA TimesThere ==
    ASSUME NEW s, IsList(s), NEW i \in DOMAIN s
    PROVE  Times(s[i].id, s) >= 1
<1>1. i \in Named(s, s[i].id)
  BY DEF Named
<1>2. Cardinality(Named(s, s[i].id)) # 0
  BY <1>1, TimesType, FS_EmptySet
<1> QED
  BY <1>2, TimesType

\* once more when it comes behind the list,
LEMMA TimesAppend ==
    ASSUME NEW s, IsList(s), NEW r, NEW id
    PROVE  Times(id, Append(s, r)) = Times(id, s) + Hit(r, id)
<1> DEFINE n == Len(s) + 1  a == Append(s, r)
<1>1. n \in Nat /\ n \notin DOMAIN s /\ DOMAIN s = 1 .. Len(s) /\ DOMAIN a = DOMAIN s \cup {n}
  BY ListIsSeq, ListAppend
<1>2. a[n] = r /\ \A i \in DOMAIN s : a[i] = s[i]
  BY <1>1, ListAppend
<1> HIDE DEF n, a
<1>3. Named(a, id) = IF r.id = id THEN Named(s, id) \cup {n} ELSE Named(s, id)
  BY <1>1, <1>2 DEF Named
<1>4. n \notin Named(s, id)
  BY <1>1 DEF Named
<1>5. IsFiniteSet(Named(s, id)) /\ Times(id, s) \in Nat /\ Times(id, s) = Cardinality(Named(s, id))
  BY TimesType
<1>6. Cardinality(Named(a, id)) = Cardinality(Named(s, id)) + Hit(r, id)
  BY <1>3, <1>4, <1>5, FS_AddElement DEF Hit
<1>7. Times(id, a) = Cardinality(Named(a, id))
  BY ListAppend, TimesType DEF a
<1> QED
  BY <1>5, <1>6, <1>7 DEF a

LEMMA TimesOne ==
    ASSUME NEW r, NEW id
    PROVE  IsList(<<r>>) /\ Times(id, <<r>>) = Hit(r, id)
<1> DEFINE e == <<>>
<1>1. IsList(e) /\ Times(id, e) = 0
  BY EmptyIsList, TimesEmpty
<1>2. Append(e, r) = <<r>>
  OBVIOUS
<1> HIDE DEF e
<1>3. IsList(Append(e, r))
  BY <1>1, ListAppend
<1>4. Times(id, Append(e, r)) = Times(id, e) + Hit(r, id)
  BY <1>1, TimesAppend
<1> QED
  BY <1>1, <1>2, <1>3, <1>4 DEF Hit

\* and the old one once less and the new one once more when a member is replaced.
LEMMA TimesReplaced ==
    ASSUME NEW s, IsList(s), NEW t, IsList(t), DOMAIN t = DOMAIN s, NEW i \in DOMAIN s,
           \A j \in DOMAIN s : j # i => t[j] = s[j], NEW id
    PROVE  Times(id, t) = Times(id, s) - Hit(s[i], id) + Hit(t[i], id)
<1> DEFINE A == Named(s, id) \ {i}
<1>1. IsFiniteSet(Named(s, id)) /\ Times(id, s) \in Nat /\ Times(id, s) = Cardinality(Named(s, id))
  BY TimesType
<1>2. IsFiniteSet(A) /\ Cardinality(A) = Cardinality(Named(s, id)) - Hit(s[i], id)
  <2>1. i \in Named(s, id) <=> s[i].id = id
    BY DEF Named
  <2> QED
    BY <1>1, <2>1, FS_RemoveElement DEF Hit
<1>3. Named(t, id) = IF t[i].id = id THEN A \cup {i} ELSE A
  BY DEF Named
<1>4. Times(id, t) = Cardinality(Named(t, id))
  BY TimesType
<1>5. i \notin A
  OBVIOUS
<1> HIDE DEF A
<1>6. Cardinality(Named(t, id)) = Cardinality(A) + Hit(t[i], id)
  <2>1. Cardinality(A) \in Nat
    BY <1>2, FS_CardinalityType
  <2>2. CASE t[i].id = id
    BY <1>2, <1>3, <1>5, <2>1, <2>2, FS_AddElement DEF Hit
  <2>3. CASE t[i].id # id
    BY <1>3, <2>1, <2>3 DEF Hit
  <2> QED
    BY <2>2, <2>3
<1> QED
  BY <1>1, <1>2, <1>4, <1>6
LEMMA TimesExcept ==
    ASSUME NEW s, IsList(s), NEW i \in DOMAIN s, NEW r, NEW id
    PROVE  Times(id, [s EXCEPT ![i] = r]) = Times(id, s) - Hit(s[i], id) + Hit(r, id)
<1> DEFINE t == [s EXCEPT ![i] = r]
<1>1. IsList(t) /\ DOMAIN t = DOMAIN s /\ t[i] = r /\ \A j \in DOMAIN s : j # i => t[j] = s[j]
  BY ListExcept
<1> HIDE DEF t
<1>2. Times(id, t) = Times(id, s) - Hit(s[i], id) + Hit(t[i], id)
  BY <1>1, TimesReplaced
<1> QED
  BY <1>1, <1>2 DEF t

\* A list that is cut in two has what its parts have.
LEMMA TimesCut ==
    ASSUME NEW s, IsList(s), NEW m \in 0 .. Len(s), NEW id
    PROVE  Times(id, s) = Times(id, SubSeq(s, 1, m)) + Times(id, SubSeq(s, m + 1, Len(s)))
<1> DEFINE a == SubSeq(s, 1, m)  b == SubSeq(s, m + 1, Len(s))
           A == Named(a, id)  B == Named(b, id)
           far == {k \in Named(s, id) : k > m}
           f == [k \in B |-> m + k]
<1>1. Len(s) \in Nat /\ DOMAIN s = 1 .. Len(s) /\ m \in Nat /\ m <= Len(s)
  BY ListIsSeq
<1>2. IsList(a) /\ DOMAIN a = 1 .. m /\ \A i \in 1 .. m : a[i] = s[i]
  BY ListFirst
<1>3. IsList(b) /\ DOMAIN b = 1 .. Len(s) - m /\ \A i \in 1 .. Len(s) - m : b[i] = s[m + i]
  BY ListRest
<1> HIDE DEF a, b
<1>4. Named(s, id) = A \cup far /\ A \cap far = {}
  BY <1>1, <1>2 DEF Named
<1>5. f \in [B -> far]
  <2> SUFFICES ASSUME NEW k \in B PROVE m + k \in far
    OBVIOUS
  <2>1. k \in 1 .. Len(s) - m /\ b[k].id = id
    BY <1>3 DEF Named
  <2>2. m + k \in 1 .. Len(s) /\ m + k > m
    BY <1>1, <2>1
  <2> QED
    BY <1>1, <1>3, <2>1, <2>2 DEF Named
<1>6. \A x, y \in B : f[x] = f[y] => x = y
  BY <1>1, <1>3 DEF Named
<1>7. ASSUME NEW k \in far PROVE \E j \in B : f[j] = k
  <2>1. k \in 1 .. Len(s) /\ k > m /\ s[k].id = id
    BY <1>1 DEF Named
  <2>2. k - m \in 1 .. Len(s) - m /\ m + (k - m) = k
    BY <1>1, <2>1
  <2>3. k - m \in B
    BY <1>3, <2>1, <2>2 DEF Named
  <2> QED
    BY <2>2, <2>3
<1> HIDE DEF f
<1>8. ExistsBijection(B, far)
  BY <1>5, <1>6, <1>7, Fun_IsBij, Fun_ExistsBij
<1>9. /\ IsFiniteSet(A) /\ Times(id, a) = Cardinality(A) /\ Cardinality(A) \in Nat
      /\ IsFiniteSet(B) /\ Times(id, b) = Cardinality(B) /\ Cardinality(B) \in Nat
      /\ Times(id, s) = Cardinality(Named(s, id))
  BY <1>2, <1>3, TimesType
<1>10. IsFiniteSet(far) /\ Cardinality(far) = Cardinality(B)
  BY <1>8, <1>9, FS_Bijection
<1> HIDE DEF A, B, far
<1>11. Cardinality(A \cup far) = Cardinality(A) + Cardinality(far) - Cardinality(A \cap far)
  BY <1>9, <1>10, FS_Union
<1>12. Cardinality(A \cap far) = 0
  BY <1>4, FS_EmptySet
<1> QED
  BY <1>4, <1>9, <1>10, <1>11, <1>12 DEF a, b

\* So has one whose last member is taken away.
LEMMA TimesFront ==
    ASSUME NEW s, IsList(s), s # <<>>, NEW id
    PROVE  Times(id, s) = Times(id, Front(s)) + Hit(Last(s), id)
<1>1. /\ IsList(Front(s)) /\ Len(s) - 1 \in Nat /\ Len(Front(s)) = Len(s) - 1
      /\ DOMAIN Front(s) = 1 .. Len(s) - 1 /\ \A i \in 1 .. Len(s) - 1 : Front(s)[i] = s[i]
      /\ Last(s) = s[Len(s)] /\ DOMAIN s = 1 .. Len(s) /\ Len(s) \in Nat
  BY ListFront, ListIsSeq
<1> DEFINE f == Front(s) a == Append(f, Last(s))
<1> HIDE DEF f
<1>2. IsList(a) /\ DOMAIN a = 1 .. Len(s) /\ \A i \in 1 .. Len(s) : a[i] = s[i]
  BY <1>1, ListAppend DEF f
<1> HIDE DEF a
<1>3. Named(a, id) = Named(s, id)
  BY <1>1, <1>2 DEF Named
<1>4. Times(id, s) = Times(id, a)
  BY <1>2, <1>3, TimesType
<1> QED
  BY <1>1, <1>4, TimesAppend DEF a, f

-----------------------------------------------------------------------------
(* Who holds what: `own` has the list of references of each holder. *)

Into(own, id) == UNION {{p} \X Named(own[p], id) : p \in DOMAIN own}
With(own, p, list) == [q \in DOMAIN own \cup {p} |-> IF q = p THEN list ELSE own[q]]
Without(own, p) == [q \in DOMAIN own \ {p} |-> own[q]]
Has(own, p, id) == IF p \in DOMAIN own THEN Times(id, own[p]) ELSE 0
Finite(own) == \A id \in Nat \ {0} : IsFiniteSet(Into(own, id))
Tally(own, id) == Cardinality(Into(own, id))
Lists(own) == \A p \in DOMAIN own : IsList(own[p])

LEMMA IntoMember ==
    ASSUME NEW own, NEW id, NEW p, NEW i
    PROVE  <<p, i>> \in Into(own, id) <=> p \in DOMAIN own /\ i \in DOMAIN own[p] /\ own[p][i].id = id
<1>1. <<p, i>> \in Into(own, id) <=> \E q \in DOMAIN own : <<p, i>> \in {q} \X Named(own[q], id)
  BY DEF Into
<1>2. \A q : <<p, i>> \in {q} \X Named(own[q], id) <=> q = p /\ i \in Named(own[p], id)
  OBVIOUS
<1> QED
  BY <1>1, <1>2 DEF Named

\* What one holder has is apart from the rest.
LEMMA TallyApart ==
    ASSUME NEW own, NEW p \in DOMAIN own, IsList(own[p]), NEW id
    PROVE  /\ IsFiniteSet(Into(own, id)) <=> IsFiniteSet(Into(Without(own, p), id))
           /\ IsFiniteSet(Into(own, id)) =>
                /\ Tally(own, id) = Tally(Without(own, p), id) + Times(id, own[p])
                /\ Tally(Without(own, p), id) \in Nat /\ Times(id, own[p]) \in Nat
<1> DEFINE R == Into(Without(own, p), id)  M == {p} \X Named(own[p], id)
<1>1. Into(own, id) = R \cup M
  BY DEF Into, Without
<1>2. R \cap M = {}
  BY DEF Into, Without
<1>3. IsFiniteSet(Named(own[p], id)) /\ Times(id, own[p]) = Cardinality(Named(own[p], id))
      /\ Times(id, own[p]) \in Nat
  BY TimesType
<1>4. IsFiniteSet({p}) /\ Cardinality({p}) = 1
  BY FS_Singleton
<1>5. IsFiniteSet(M) /\ Cardinality(M) = 1 * Times(id, own[p])
  BY <1>3, <1>4, FS_Product
<1> HIDE DEF R, M
<1>6. ASSUME IsFiniteSet(R)
      PROVE  IsFiniteSet(R \cup M) /\ Cardinality(R) \in Nat
             /\ Cardinality(R \cup M) = Cardinality(R) + Cardinality(M) - Cardinality(R \cap M)
  BY <1>5, <1>6, FS_Union, FS_CardinalityType
<1>7. IsFiniteSet(R \cup M) => IsFiniteSet(R)
  <2>1. R \in SUBSET (R \cup M)
    OBVIOUS
  <2> QED
    BY <2>1, FS_Subset
<1>8. Cardinality(R \cap M) = 0
  BY <1>2, FS_EmptySet
<1> QED
  BY <1>1, <1>3, <1>5, <1>6, <1>7, <1>8 DEF R, Tally

\* What changes when a holder gets another list,
LEMMA TallyWith ==
    ASSUME NEW own, Lists(own), NEW p, NEW list, IsList(list), NEW id, IsFiniteSet(Into(own, id))
    PROVE  /\ Lists(With(own, p, list)) /\ IsFiniteSet(Into(With(own, p, list), id))
           /\ Tally(own, id) \in Nat /\ Has(own, p, id) \in Nat /\ Times(id, list) \in Nat
           /\ Tally(With(own, p, list), id) = Tally(own, id) - Has(own, p, id) + Times(id, list)
           /\ Tally(With(own, p, list), id) \in Nat /\ Has(own, p, id) <= Tally(own, id)
<1> DEFINE w == With(own, p, list)
<1>1. p \in DOMAIN w /\ w[p] = list /\ Lists(w)
  BY DEF With, Lists
<1>2. Without(w, p) = Without(own, p)
  BY DEF With, Without
<1> HIDE DEF w
<1>3. /\ IsFiniteSet(Into(w, id)) <=> IsFiniteSet(Into(Without(own, p), id))
      /\ IsFiniteSet(Into(w, id)) => Tally(w, id) = Tally(Without(own, p), id) + Times(id, list)
  BY <1>1, <1>2, TallyApart
<1>4. CASE p \in DOMAIN own
  <2>1. IsFiniteSet(Into(Without(own, p), id))
        /\ Tally(own, id) = Tally(Without(own, p), id) + Times(id, own[p])
        /\ Tally(Without(own, p), id) \in Nat /\ Times(id, own[p]) \in Nat
    BY <1>4, TallyApart DEF Lists
  <2> QED
    BY <1>1, <1>3, <1>4, <2>1, TimesType DEF w, Has
<1>5. CASE p \notin DOMAIN own
  <2>1. Into(Without(own, p), id) = Into(own, id)
    BY <1>5 DEF Into, Without
  <2>2. Tally(own, id) \in Nat
    BY FS_CardinalityType DEF Tally
  <2>3. Tally(Without(own, p), id) = Tally(own, id)
    BY <2>1 DEF Tally
  <2> QED
    BY <1>1, <1>3, <1>5, <2>1, <2>2, <2>3, TimesType DEF w, Has
<1> QED
  BY <1>4, <1>5

\* or lets go of its list.
LEMMA TallyWithout ==
    ASSUME NEW own, Lists(own), NEW p \in DOMAIN own, NEW id, IsFiniteSet(Into(own, id))
    PROVE  /\ Lists(Without(own, p)) /\ IsFiniteSet(Into(Without(own, p), id))
           /\ Tally(own, id) \in Nat /\ Times(id, own[p]) \in Nat /\ Tally(Without(own, p), id) \in Nat
           /\ Tally(Without(own, p), id) = Tally(own, id) - Times(id, own[p])
<1>1. IsList(own[p]) /\ Lists(Without(own, p))
  BY DEF Lists, Without
<1>2. Tally(own, id) \in Nat
  BY FS_CardinalityType DEF Tally
<1> QED
  BY <1>1, <1>2, TallyApart

\* What is in a list is counted.
LEMMA TallyThere ==
    ASSUME NEW own, NEW p \in DOMAIN own, NEW i \in DOMAIN own[p], IsFiniteSet(Into(own, own[p][i].id))
    PROVE  Tally(own, own[p][i].id) \in Nat /\ Tally(own, own[p][i].id) >= 1
<1>1. <<p, i>> \in Into(own, own[p][i].id)
  BY IntoMember
<1>2. Tally(own, own[p][i].id) # 0 /\ Tally(own, own[p][i].id) \in Nat
  BY <1>1, FS_EmptySet, FS_CardinalityType DEF Tally
<1> QED
  BY <1>2

\* What is counted once is in one place.
LEMMA TallyOnce ==
    ASSUME NEW own, NEW id, IsFiniteSet(Into(own, id)), Tally(own, id) = 1,
           NEW s \in Into(own, id), NEW t \in Into(own, id)
    PROVE  s = t
<1>1. \E x : Into(own, id) = {x}
  BY FS_Singleton DEF Tally
<1> QED
  BY <1>1

-----------------------------------------------------------------------------
(* The heap, with the roots of the trees, what the parser holds and what   *)
(* was dropped.  An operation is taken apart into steps between which a    *)
(* count may be due: there are more references counted than there are.     *)

Refs(h, id) == IF id \in DOMAIN h THEN h[id].refs ELSE 0
Alive(h) == {id \in DOMAIN h : h[id].refs > 0}
Own(h, rs, hd, dr) ==
    [p \in {0, -1} \cup Alive(h) \cup dr |->
        IF p = 0 THEN rs ELSE IF p = -1 THEN hd ELSE h[p].node.kids]
Entry(x) == DOMAIN x = {"node", "refs"} /\ x.refs \in Nat /\ Stands(x.node)
HeapOK(h) == IsList(h) /\ \A id \in DOMAIN h : Entry(h[id])
Shaped(r) == r.id \in Nat /\ (r.id = 0 => Inlined(r.leaf))
AllShaped(list) == IsList(list) /\ \A i \in DOMAIN list : Shaped(list[i])
Holding(own) == \A p \in DOMAIN own : AllShaped(own[p])
DroppedOK(h, dr) == dr \subseteq DOMAIN h /\ \A id \in dr : h[id].refs = 0
Loose(h, rs, hd, dr) ==
    HeapOK(h) /\ DroppedOK(h, dr) /\ Holding(Own(h, rs, hd, dr)) /\ Finite(Own(h, rs, hd, dr))
Due(h, rs, hd, dr, id) == Refs(h, id) - Tally(Own(h, rs, hd, dr), id)
Core(h, rs, hd, dr) == Loose(h, rs, hd, dr) /\ \A id \in Nat \ {0} : Due(h, rs, hd, dr, id) = 0

\* The heap is numbered from 1.
LEMMA HeapIds ==
    ASSUME NEW h, HeapOK(h)
    PROVE  /\ Len(h) \in Nat /\ DOMAIN h = 1 .. Len(h) /\ DOMAIN h \subseteq Nat \ {0}
           /\ 0 \notin DOMAIN h /\ -1 \notin DOMAIN h
           /\ \A id : Refs(h, id) \in Nat
<1>1. Len(h) \in Nat /\ DOMAIN h = 1 .. Len(h)
  BY ListIsSeq DEF HeapOK
<1>2. \A id : Refs(h, id) \in Nat
  BY DEF HeapOK, Entry, Refs
<1> QED
  BY <1>1, <1>2

\* Who holds what.
LEMMA OwnValues ==
    ASSUME NEW h, HeapOK(h), NEW rs, NEW hd, NEW dr, DroppedOK(h, dr)
    PROVE  /\ DOMAIN Own(h, rs, hd, dr) = {0, -1} \cup Alive(h) \cup dr
           /\ Own(h, rs, hd, dr)[0] = rs /\ Own(h, rs, hd, dr)[-1] = hd
           /\ \A p \in Alive(h) \cup dr : /\ p # 0 /\ p # -1 /\ p \in DOMAIN h
                                         /\ p \in DOMAIN Own(h, rs, hd, dr)
                                         /\ Own(h, rs, hd, dr)[p] = h[p].node.kids
<1>1. \A p \in Alive(h) \cup dr : p \in DOMAIN h
  BY DEF DroppedOK, Alive
<1>2. \A p \in Alive(h) \cup dr : p # 0 /\ p # -1
  BY <1>1, HeapIds
<1> QED
  BY <1>1, <1>2 DEF Own

\* A holder is the trees, the parser, or a node that is alive or dropped.
LEMMA OwnHolders ==
    ASSUME NEW h, HeapOK(h), NEW rs, NEW hd, NEW dr, DroppedOK(h, dr), NEW p \in DOMAIN Own(h, rs, hd, dr)
    PROVE  \/ p = 0 \/ p = -1
           \/ (p \in Alive(h) \/ p \in dr) /\ p \in DOMAIN h /\ p \in Nat \ {0}
<1>1. DOMAIN Own(h, rs, hd, dr) = {0, -1} \cup Alive(h) \cup dr
  BY DEF Own
<1>2. DOMAIN h \subseteq Nat \ {0}
  BY HeapIds
<1> QED
  BY <1>1, <1>2 DEF DroppedOK, Alive

LEMMA OwnEnds ==
    ASSUME NEW h, NEW rs, NEW hd, NEW dr
    PROVE  /\ 0 \in DOMAIN Own(h, rs, hd, dr) /\ Own(h, rs, hd, dr)[0] = rs
           /\ -1 \in DOMAIN Own(h, rs, hd, dr) /\ Own(h, rs, hd, dr)[-1] = hd
  BY DEF Own

LEMMA DueType ==
    ASSUME NEW h, NEW rs, NEW hd, NEW dr, Loose(h, rs, hd, dr), NEW id \in Nat \ {0}
    PROVE  /\ Refs(h, id) \in Nat /\ Tally(Own(h, rs, hd, dr), id) \in Nat
           /\ IsFiniteSet(Into(Own(h, rs, hd, dr), id)) /\ Lists(Own(h, rs, hd, dr))
<1>1. IsFiniteSet(Into(Own(h, rs, hd, dr), id)) /\ Lists(Own(h, rs, hd, dr))
  BY DEF Loose, Finite, Holding, Lists, AllShaped
<1> QED
  BY <1>1, HeapIds, FS_CardinalityType DEF Tally, Loose

\* Where every reference is counted, what a holder has is alive.
LEMMA ThereIsAlive ==
    ASSUME NEW h, NEW rs, NEW hd, NEW dr, Core(h, rs, hd, dr),
           NEW p \in DOMAIN Own(h, rs, hd, dr), NEW i \in DOMAIN Own(h, rs, hd, dr)[p]
    PROVE  LET r == Own(h, rs, hd, dr)[p][i]
           IN  Shaped(r) /\ (r.id # 0 => r.id \in Alive(h) /\ r.id \in DOMAIN h /\ r.id \notin dr)
<1> DEFINE own == Own(h, rs, hd, dr)  r == own[p][i]
<1>1. Shaped(r)
  BY DEF Core, Loose, Holding, AllShaped
<1>2. ASSUME r.id # 0 PROVE r.id \in Alive(h) /\ r.id \in DOMAIN h /\ r.id \notin dr
  <2>1. r.id \in Nat \ {0}
    BY <1>1, <1>2 DEF Shaped
  <2>2. IsFiniteSet(Into(own, r.id)) /\ Refs(h, r.id) \in Nat /\ Tally(own, r.id) \in Nat
    BY <2>1, DueType DEF Core
  <2>3. Tally(own, r.id) >= 1
    BY <2>2, TallyThere
  <2>4. Refs(h, r.id) >= 1
    BY <2>1, <2>2, <2>3 DEF Core, Due
  <2>5. DroppedOK(h, dr)
    BY DEF Core, Loose
  <2> HIDE DEF r, own
  <2>6. r.id \in DOMAIN h /\ h[r.id].refs >= 1
    BY <2>2, <2>4 DEF Refs
  <2> QED
    BY <2>2, <2>5, <2>6 DEF Alive, DroppedOK, Refs
<1> QED
  BY <1>1, <1>2

\* References are retained to what is alive: they are due.
LEMMA StepRetain ==
    ASSUME NEW h, NEW rs, NEW hd, NEW dr, Loose(h, rs, hd, dr),
           NEW list, IsList(list), \A i \in DOMAIN list : list[i].id # 0 => list[i].id \in Alive(h),
           NEW h2, h2 = Retained(h, list)
    PROVE      /\ Loose(h2, rs, hd, dr) /\ Own(h2, rs, hd, dr) = Own(h, rs, hd, dr)
               /\ DOMAIN h2 = DOMAIN h /\ Alive(h2) = Alive(h) /\ Len(h2) = Len(h)
               /\ \A id \in DOMAIN h : h2[id].node = h[id].node
               /\ \A id : Times(id, list) \in Nat
               /\ \A id \in Nat \ {0} :
                    /\ Refs(h2, id) = Refs(h, id) + Times(id, list)
                    /\ Due(h2, rs, hd, dr, id) = Due(h, rs, hd, dr, id) + Times(id, list)
<1>1. HeapOK(h) /\ DroppedOK(h, dr) /\ \A id : Times(id, list) \in Nat
  BY TimesType DEF Loose
<1>2. DOMAIN h2 = DOMAIN h /\ \A id \in DOMAIN h : h2[id] = [h[id] EXCEPT !.refs = @ + Times(id, list)]
  BY DEF Retained
<1>3. \A id \in DOMAIN h : Entry(h2[id]) /\ h2[id].node = h[id].node
                           /\ h2[id].refs = h[id].refs + Times(id, list)
  BY <1>1, <1>2 DEF HeapOK, Entry
<1>4. IsList(h2) /\ Len(h2) = Len(h)
  <2>1. Len(h) \in Nat /\ DOMAIN h = 1 .. Len(h) /\ h2 = [id \in 1 .. Len(h) |-> h2[id]]
    BY <1>1, HeapIds DEF Retained
  <2> QED
    BY <2>1, FunctionIsList
<1>5. \A id : Times(id, list) # 0 /\ id # 0 => id \in Alive(h)
  <2> SUFFICES ASSUME NEW id, Times(id, list) # 0, id # 0 PROVE id \in Alive(h)
    OBVIOUS
  <2>1. Named(list, id) # {}
    BY TimesType, FS_EmptySet
  <2> QED
    BY <2>1 DEF Named
<1>6. HeapOK(h2) /\ DroppedOK(h2, dr)
  <2>1. \A id \in dr : id \in DOMAIN h /\ id # 0 /\ id \notin Alive(h)
    BY <1>1, HeapIds DEF DroppedOK, Alive
  <2> QED
    BY <1>1, <1>2, <1>3, <1>4, <1>5, <2>1 DEF HeapOK, DroppedOK
<1>7. Alive(h2) = Alive(h)
  <2>1. ASSUME NEW id \in DOMAIN h PROVE h2[id].refs > 0 <=> h[id].refs > 0
    <3>1. h[id].refs \in Nat /\ id # 0
      BY <1>1, HeapIds DEF HeapOK, Entry
    <3>2. Times(id, list) # 0 => h[id].refs > 0
      BY <1>5, <3>1 DEF Alive
    <3> QED
      BY <1>1, <1>3, <3>1, <3>2
  <2> QED
    BY <1>2, <2>1 DEF Alive
<1>8. Own(h2, rs, hd, dr) = Own(h, rs, hd, dr)
  <2>1. \A p \in {0, -1} \cup Alive(h) \cup dr : p \in {0, -1} \/ h2[p].node = h[p].node
    BY <1>1, <1>3 DEF Alive, DroppedOK
  <2> QED
    BY <1>7, <2>1 DEF Own
<1>9. Loose(h2, rs, hd, dr)
  BY <1>6, <1>8 DEF Loose
<1>10. ASSUME NEW id \in Nat \ {0}
       PROVE  /\ Refs(h2, id) = Refs(h, id) + Times(id, list)
              /\ Due(h2, rs, hd, dr, id) = Due(h, rs, hd, dr, id) + Times(id, list)
  <2>1. Refs(h2, id) = Refs(h, id) + Times(id, list)
    <3>1. CASE id \in DOMAIN h
      BY <1>2, <1>3, <3>1 DEF Refs
    <3>2. CASE id \notin DOMAIN h
      <4>1. Times(id, list) = 0
        BY <1>5, <3>2 DEF Alive
      <4> QED
        BY <1>2, <3>2, <4>1 DEF Refs
    <3> QED
      BY <3>1, <3>2
  <2>2. Refs(h, id) \in Nat /\ Tally(Own(h, rs, hd, dr), id) \in Nat /\ Times(id, list) \in Nat
    BY <1>1, DueType
  <2> QED
    BY <1>8, <2>1, <2>2 DEF Due
<1> QED
  BY <1>1, <1>2, <1>3, <1>4, <1>7, <1>8, <1>9, <1>10

\* References are released that are counted; what is freed is dropped.
Counted(h, list) == \A id \in Nat \ {0} : Times(id, list) <= Refs(h, id)
WithFreed(dr, h, list) == dr \cup Freed(h, list)
LEMMA StepRelease ==
    ASSUME NEW h, NEW rs, NEW hd, NEW dr, Loose(h, rs, hd, dr),
           NEW list, IsList(list), Counted(h, list),
           NEW h2, h2 = Released(h, list), NEW dr2, dr2 = WithFreed(dr, h, list)
    PROVE  /\ Loose(h2, rs, hd, dr2) /\ Own(h2, rs, hd, dr2) = Own(h, rs, hd, dr)
           /\ DOMAIN h2 = DOMAIN h /\ Len(h2) = Len(h)
           /\ \A id : id \in Alive(h2) <=> id \in Alive(h) /\ id \notin Freed(h, list)
           /\ \A id \in DOMAIN h : h2[id].node = h[id].node
           /\ \A id : Times(id, list) \in Nat
           /\ \A id \in Nat \ {0} :
                /\ Refs(h2, id) = Refs(h, id) - Times(id, list)
                /\ Due(h2, rs, hd, dr2, id) = Due(h, rs, hd, dr, id) - Times(id, list)
<1>1. HeapOK(h) /\ DroppedOK(h, dr) /\ \A id : Times(id, list) \in Nat
  BY TimesType DEF Loose
<1>12. dr2 = dr \cup Freed(h, list) /\ \A id \in Nat \ {0} : Times(id, list) <= Refs(h, id)
  BY DEF WithFreed, Counted
<1>2. DOMAIN h2 = DOMAIN h /\ \A id \in DOMAIN h : h2[id] = [h[id] EXCEPT !.refs = @ - Times(id, list)]
  BY DEF Released
<1>3. ASSUME NEW id \in DOMAIN h
      PROVE  Entry(h2[id]) /\ h2[id].node = h[id].node /\ h2[id].refs = h[id].refs - Times(id, list)
  <2>1. h[id].refs \in Nat /\ Times(id, list) \in Nat /\ Entry(h[id])
    BY <1>1 DEF HeapOK, Entry
  <2>2. Times(id, list) <= h[id].refs
    BY <1>1, <1>12, HeapIds DEF Refs
  <2> QED
    BY <1>2, <2>1, <2>2 DEF Entry
<1>4. IsList(h2) /\ Len(h2) = Len(h)
  <2>1. Len(h) \in Nat /\ DOMAIN h = 1 .. Len(h) /\ h2 = [id \in 1 .. Len(h) |-> h2[id]]
    BY <1>1, HeapIds DEF Released
  <2> QED
    BY <2>1, FunctionIsList
<1>5. ASSUME NEW id \in DOMAIN h
      PROVE  /\ id \in Freed(h, list) <=> h[id].refs > 0 /\ h2[id].refs = 0
             /\ h[id].refs \in Nat /\ h2[id].refs \in Nat /\ h2[id].refs <= h[id].refs
  <2>1. h[id].refs \in Nat /\ h2[id].refs \in Nat /\ Times(id, list) \in Nat
    BY <1>1, <1>3 DEF HeapOK, Entry
  <2>2. h2[id].refs = h[id].refs - Times(id, list)
    BY <1>3
  <2> QED
    BY <2>1, <2>2 DEF Freed
<1>6. Freed(h, list) \subseteq DOMAIN h
  BY DEF Freed
<1>7. Alive(h2) = Alive(h) \ Freed(h, list)
  <2>1. \A id \in DOMAIN h : h2[id].refs > 0 <=> h[id].refs > 0 /\ id \notin Freed(h, list)
    BY <1>5
  <2> QED
    BY <1>2, <2>1 DEF Alive
<1>8. HeapOK(h2) /\ DroppedOK(h2, dr2)
  <2>1. \A id \in dr2 : id \in DOMAIN h /\ h2[id].refs = 0
    BY <1>1, <1>5, <1>6, <1>12 DEF DroppedOK
  <2> QED
    BY <1>2, <1>3, <1>4, <2>1 DEF HeapOK, DroppedOK
<1>9. Own(h2, rs, hd, dr2) = Own(h, rs, hd, dr)
  <2>1. Alive(h2) \cup dr2 = Alive(h) \cup dr
    <3>1. Freed(h, list) \subseteq Alive(h)
      BY DEF Freed, Alive
    <3> QED
      BY <1>7, <1>12, <3>1
  <2>2. \A p \in Alive(h) \cup dr : h2[p].node = h[p].node
    BY <1>1, <1>3 DEF Alive, DroppedOK
  <2>3. {0, -1} \cup Alive(h2) \cup dr2 = {0, -1} \cup Alive(h) \cup dr
    BY <2>1
  <2> QED
    BY <2>2, <2>3 DEF Own
<1>10. Loose(h2, rs, hd, dr2)
  BY <1>8, <1>9 DEF Loose
<1>11. ASSUME NEW id \in Nat \ {0}
       PROVE  /\ Refs(h2, id) = Refs(h, id) - Times(id, list)
              /\ Due(h2, rs, hd, dr2, id) = Due(h, rs, hd, dr, id) - Times(id, list)
  <2>1. Refs(h2, id) = Refs(h, id) - Times(id, list)
    <3>1. CASE id \in DOMAIN h
      BY <1>2, <1>3, <3>1 DEF Refs
    <3>2. CASE id \notin DOMAIN h
      <4>1. Times(id, list) <= 0 /\ Times(id, list) \in Nat
        BY <1>1, <1>12, <3>2 DEF Refs
      <4> QED
        BY <1>2, <3>2, <4>1 DEF Refs
    <3> QED
      BY <3>1, <3>2
  <2>2. Refs(h, id) \in Nat /\ Tally(Own(h, rs, hd, dr), id) \in Nat /\ Times(id, list) \in Nat
    BY <1>1, DueType
  <2> QED
    BY <1>9, <2>1, <2>2 DEF Due
<1> QED
  BY <1>1, <1>2, <1>3, <1>4, <1>7, <1>9, <1>10, <1>11

\* Of what is shared, a release frees nothing.
LEMMA StepReleaseShared ==
    ASSUME NEW h, NEW rs, NEW hd, NEW dr, Loose(h, rs, hd, dr),
           NEW list, IsList(list), Counted(h, list),
           NEW h2, h2 = Released(h, list), Freed(h, list) = {}
    PROVE  /\ Loose(h2, rs, hd, dr) /\ Own(h2, rs, hd, dr) = Own(h, rs, hd, dr)
           /\ DOMAIN h2 = DOMAIN h /\ Alive(h2) = Alive(h) /\ Len(h2) = Len(h)
           /\ \A id \in DOMAIN h : h2[id].node = h[id].node
           /\ \A id : Times(id, list) \in Nat
           /\ \A id \in Nat \ {0} :
                /\ Refs(h2, id) = Refs(h, id) - Times(id, list)
                /\ Due(h2, rs, hd, dr, id) = Due(h, rs, hd, dr, id) - Times(id, list)
<1>1. dr = WithFreed(dr, h, list)
  BY DEF WithFreed
<1>2. Loose(h2, rs, hd, dr) /\ Own(h2, rs, hd, dr) = Own(h, rs, hd, dr)
  BY <1>1, StepRelease
<1>3. DOMAIN h2 = DOMAIN h /\ Len(h2) = Len(h)
      /\ \A id : id \in Alive(h2) <=> id \in Alive(h) /\ id \notin Freed(h, list)
  BY <1>1, StepRelease
<1>7. Alive(h2) = Alive(h)
  BY <1>3
<1>4. \A id \in DOMAIN h : h2[id].node = h[id].node
  BY <1>1, StepRelease
<1>5. \A id : Times(id, list) \in Nat
  BY <1>1, StepRelease
<1>6. ASSUME NEW id \in Nat \ {0}
      PROVE  /\ Refs(h2, id) = Refs(h, id) - Times(id, list)
             /\ Due(h2, rs, hd, dr, id) = Due(h, rs, hd, dr, id) - Times(id, list)
  BY <1>1, StepRelease
<1> QED
  BY <1>2, <1>3, <1>4, <1>5, <1>6, <1>7

\* A holder of the heap gets another list, and a count is due for what it had.
LEMMA DueWith ==
    ASSUME NEW h, NEW rs, NEW hd, NEW dr, Loose(h, rs, hd, dr),
           NEW h2, NEW rs2, NEW hd2, NEW dr2, HeapOK(h2), DroppedOK(h2, dr2),
           NEW p, NEW list, AllShaped(list),
           Own(h2, rs2, hd2, dr2) = With(Own(h, rs, hd, dr), p, list)
    PROVE  /\ Loose(h2, rs2, hd2, dr2)
           /\ \A id \in Nat \ {0} :
                /\ Has(Own(h, rs, hd, dr), p, id) \in Nat /\ Times(id, list) \in Nat
                /\ Due(h2, rs2, hd2, dr2, id) =
                     Due(h, rs, hd, dr, id) + (Refs(h2, id) - Refs(h, id))
                       + Has(Own(h, rs, hd, dr), p, id) - Times(id, list)
<1> DEFINE own == Own(h, rs, hd, dr)  own2 == Own(h2, rs2, hd2, dr2)
<1>1. Lists(own) /\ IsList(list) /\ \A id \in Nat \ {0} : IsFiniteSet(Into(own, id))
  BY DEF Loose, Holding, Finite, Lists, AllShaped
<1>2. own2 = With(own, p, list) /\ Holding(own)
  BY DEF Loose
<1> HIDE DEF own, own2
<1>3. ASSUME NEW id \in Nat \ {0}
      PROVE  /\ IsFiniteSet(Into(own2, id)) /\ Tally(own, id) \in Nat /\ Has(own, p, id) \in Nat
             /\ Times(id, list) \in Nat /\ Tally(own2, id) \in Nat
             /\ Tally(own2, id) = Tally(own, id) - Has(own, p, id) + Times(id, list)
  BY <1>1, <1>2, TallyWith
<1>4. Holding(own2)
  BY <1>2 DEF Holding, With
<1>5. Loose(h2, rs2, hd2, dr2)
  BY <1>3, <1>4 DEF Loose, Finite, own2
<1>6. ASSUME NEW id \in Nat \ {0}
      PROVE  Due(h2, rs2, hd2, dr2, id) =
               Due(h, rs, hd, dr, id) + (Refs(h2, id) - Refs(h, id)) + Has(own, p, id) - Times(id, list)
  <2>1. Refs(h, id) \in Nat /\ Refs(h2, id) \in Nat
    BY HeapIds DEF Loose
  <2>2. /\ Due(h2, rs2, hd2, dr2, id) = Refs(h2, id) - Tally(own2, id)
        /\ Due(h, rs, hd, dr, id) = Refs(h, id) - Tally(own, id)
    BY DEF Due, own, own2
  <2> QED
    BY <1>3, <2>1, <2>2
<1> QED
  BY <1>3, <1>5, <1>6 DEF own

\* The roots of the trees, or what the parser holds, are others.
LEMMA StepRoots ==
    ASSUME NEW h, NEW rs, NEW hd, NEW dr, Loose(h, rs, hd, dr), NEW rs2, AllShaped(rs2)
    PROVE  /\ Loose(h, rs2, hd, dr) /\ Own(h, rs2, hd, dr) = With(Own(h, rs, hd, dr), 0, rs2)
           /\ \A id \in Nat \ {0} :
                /\ Times(id, rs) \in Nat /\ Times(id, rs2) \in Nat
                /\ Due(h, rs2, hd, dr, id) = Due(h, rs, hd, dr, id) + Times(id, rs) - Times(id, rs2)
<1>1. HeapOK(h) /\ DroppedOK(h, dr)
  BY DEF Loose
<1>2. Own(h, rs2, hd, dr) = With(Own(h, rs, hd, dr), 0, rs2)
  BY <1>1, OwnValues DEF Own, With
<1>3. 0 \in DOMAIN Own(h, rs, hd, dr) /\ Own(h, rs, hd, dr)[0] = rs
  BY DEF Own
<1>4. \A id : Has(Own(h, rs, hd, dr), 0, id) = Times(id, rs)
  BY <1>3 DEF Has
<1>5. \A id \in Nat \ {0} :
         /\ Has(Own(h, rs, hd, dr), 0, id) \in Nat /\ Times(id, rs2) \in Nat
         /\ Due(h, rs2, hd, dr, id) =
              Due(h, rs, hd, dr, id) + (Refs(h, id) - Refs(h, id))
                + Has(Own(h, rs, hd, dr), 0, id) - Times(id, rs2)
  BY <1>1, <1>2, DueWith
<1>6. \A id \in Nat \ {0} : Refs(h, id) \in Nat /\ Due(h, rs, hd, dr, id) \in Int
  BY DueType DEF Due
<1>7. Loose(h, rs2, hd, dr)
  BY <1>1, <1>2, DueWith
<1> QED
  BY <1>2, <1>4, <1>5, <1>6, <1>7

LEMMA StepHeld ==
    ASSUME NEW h, NEW rs, NEW hd, NEW dr, Loose(h, rs, hd, dr), NEW hd2, AllShaped(hd2)
    PROVE  /\ Loose(h, rs, hd2, dr) /\ Own(h, rs, hd2, dr) = With(Own(h, rs, hd, dr), -1, hd2)
           /\ \A id \in Nat \ {0} :
                /\ Times(id, hd) \in Nat /\ Times(id, hd2) \in Nat
                /\ Due(h, rs, hd2, dr, id) = Due(h, rs, hd, dr, id) + Times(id, hd) - Times(id, hd2)
<1>1. HeapOK(h) /\ DroppedOK(h, dr)
  BY DEF Loose
<1>2. Own(h, rs, hd2, dr) = With(Own(h, rs, hd, dr), -1, hd2)
  BY <1>1, OwnValues DEF Own, With
<1>3. -1 \in DOMAIN Own(h, rs, hd, dr) /\ Own(h, rs, hd, dr)[-1] = hd
  BY DEF Own
<1>4. \A id : Has(Own(h, rs, hd, dr), -1, id) = Times(id, hd)
  BY <1>3 DEF Has
<1>5. \A id \in Nat \ {0} :
         /\ Has(Own(h, rs, hd, dr), -1, id) \in Nat /\ Times(id, hd2) \in Nat
         /\ Due(h, rs, hd2, dr, id) =
              Due(h, rs, hd, dr, id) + (Refs(h, id) - Refs(h, id))
                + Has(Own(h, rs, hd, dr), -1, id) - Times(id, hd2)
  BY <1>1, <1>2, DueWith
<1>6. \A id \in Nat \ {0} : Refs(h, id) \in Nat /\ Due(h, rs, hd, dr, id) \in Int
  BY DueType DEF Due
<1>7. Loose(h, rs, hd2, dr)
  BY <1>1, <1>2, DueWith
<1> QED
  BY <1>2, <1>4, <1>5, <1>6, <1>7

\* A node is new on the heap: what it holds is due.
Allocates(h, rs, hd, dr, s, n, h2) ==
    /\ Loose(h2, rs, hd, dr) /\ Own(h2, rs, hd, dr) = With(Own(h, rs, hd, dr), n, s.kids)
    /\ n \in Nat \ {0} /\ n \notin DOMAIN h /\ n \notin DOMAIN Own(h, rs, hd, dr)
    /\ DOMAIN h2 = DOMAIN h \cup {n} /\ Alive(h2) = Alive(h) \cup {n} /\ h2[n].node = s
    /\ \A id \in DOMAIN h : h2[id] = h[id]
    /\ \A id \in Nat \ {0} :
         /\ Times(id, s.kids) \in Nat
         /\ Refs(h2, id) = Refs(h, id) + (IF id = n THEN 1 ELSE 0)
         /\ Due(h2, rs, hd, dr, id) =
              Due(h, rs, hd, dr, id) + (IF id = n THEN 1 ELSE 0) - Times(id, s.kids)
LEMMA StepAlloc ==
    ASSUME NEW h, NEW rs, NEW hd, NEW dr, Loose(h, rs, hd, dr),
           NEW s, Stands(s), AllShaped(s.kids),
           NEW n, n = Len(h) + 1, NEW h2, h2 = Append(h, [node |-> s, refs |-> 1])
    PROVE  Allocates(h, rs, hd, dr, s, n, h2)
<1> DEFINE e == [node |-> s, refs |-> 1]
<1>1. HeapOK(h) /\ DroppedOK(h, dr)
  BY DEF Loose
<1>2. n \in Nat \ {0} /\ n \notin DOMAIN h /\ Len(h) \in Nat /\ DOMAIN h = 1 .. Len(h)
  BY <1>1, HeapIds
<1>3. IsList(h2) /\ DOMAIN h2 = DOMAIN h \cup {n} /\ h2[n] = e /\ \A id \in DOMAIN h : h2[id] = h[id]
  <2>1. IsList(h) /\ 1 .. n = 1 .. Len(h) \cup {n}
    BY <1>1, <1>2 DEF HeapOK
  <2>2. h2 = Append(h, e)
    OBVIOUS
  <2> HIDE DEF e
  <2> QED
    BY <1>2, <2>1, <2>2, ListAppend
<1>4. Entry(e) /\ e.refs = 1 /\ e.node = s
  BY DEF Entry
<1> HIDE DEF e
<1>5. HeapOK(h2) /\ DroppedOK(h2, dr)
  BY <1>1, <1>3, <1>4 DEF HeapOK, DroppedOK
<1>6. Alive(h2) = Alive(h) \cup {n}
  BY <1>3, <1>4 DEF Alive
<1>7. Own(h2, rs, hd, dr) = With(Own(h, rs, hd, dr), n, s.kids)
  <2>1. n # 0 /\ n # -1
    BY <1>2
  <2>2. \A p \in Alive(h) \cup dr : p \in DOMAIN h /\ h2[p] = h[p] /\ p # n
    BY <1>1, <1>2, <1>3 DEF Alive, DroppedOK
  <2>3. DOMAIN Own(h, rs, hd, dr) = {0, -1} \cup Alive(h) \cup dr
    BY DEF Own
  <2> QED
    BY <1>3, <1>4, <1>6, <2>1, <2>2, <2>3 DEF Own, With
<1>8. n \notin DOMAIN Own(h, rs, hd, dr)
  BY <1>1, <1>2 DEF Own, Alive, DroppedOK
<1>9. \A id \in Nat \ {0} : Refs(h2, id) = Refs(h, id) + (IF id = n THEN 1 ELSE 0)
  <2> TAKE id \in Nat \ {0}
  <2>1. Refs(h, id) \in Nat
    BY <1>1, HeapIds
  <2> QED
    BY <1>2, <1>3, <1>4, <2>1 DEF Refs
<1>10. /\ Loose(h2, rs, hd, dr)
       /\ \A id \in Nat \ {0} :
            /\ Has(Own(h, rs, hd, dr), n, id) \in Nat /\ Times(id, s.kids) \in Nat
            /\ Due(h2, rs, hd, dr, id) =
                 Due(h, rs, hd, dr, id) + (Refs(h2, id) - Refs(h, id))
                   + Has(Own(h, rs, hd, dr), n, id) - Times(id, s.kids)
  BY <1>5, <1>7, DueWith
<1>11. ASSUME NEW id \in Nat \ {0}
       PROVE  Due(h2, rs, hd, dr, id) =
                Due(h, rs, hd, dr, id) + (IF id = n THEN 1 ELSE 0) - Times(id, s.kids)
  <2>1. Has(Own(h, rs, hd, dr), n, id) = 0
    BY <1>8 DEF Has
  <2>2. Refs(h, id) \in Nat /\ Due(h, rs, hd, dr, id) \in Int /\ Times(id, s.kids) \in Nat
    <3>1. Refs(h, id) \in Nat /\ Tally(Own(h, rs, hd, dr), id) \in Nat
      BY DueType
    <3> QED
      BY <1>10, <3>1 DEF Due
  <2>3. Refs(h2, id) - Refs(h, id) = IF id = n THEN 1 ELSE 0
    BY <1>9, <2>2
  <2> QED
    BY <1>10, <2>1, <2>2, <2>3
<1> QED
  BY <1>2, <1>3, <1>4, <1>6, <1>7, <1>8, <1>9, <1>10, <1>11 DEF e, Allocates

\* A node that holds or is dropped is written to.
Writes(h, rs, hd, dr, p, s, h2) ==
    /\ Loose(h2, rs, hd, dr) /\ Own(h2, rs, hd, dr) = With(Own(h, rs, hd, dr), p, s.kids)
    /\ DOMAIN h2 = DOMAIN h /\ Alive(h2) = Alive(h) /\ h2[p].node = s /\ p \in DOMAIN h
    /\ \A id \in DOMAIN h : h2[id].refs = h[id].refs /\ (id # p => h2[id] = h[id])
    /\ \A id \in Nat \ {0} :
         /\ Times(id, h[p].node.kids) \in Nat /\ Times(id, s.kids) \in Nat
         /\ Refs(h2, id) = Refs(h, id)
         /\ Due(h2, rs, hd, dr, id) =
              Due(h, rs, hd, dr, id) + Times(id, h[p].node.kids) - Times(id, s.kids)
LEMMA StepNode ==
    ASSUME NEW h, NEW rs, NEW hd, NEW dr, Loose(h, rs, hd, dr),
           NEW p, p \in Alive(h) \/ p \in dr, NEW s, Stands(s), AllShaped(s.kids),
           NEW h2, h2 = [h EXCEPT ![p].node = s]
    PROVE  Writes(h, rs, hd, dr, p, s, h2)
<1>1. HeapOK(h) /\ DroppedOK(h, dr)
  BY DEF Loose
<1>2. p \in DOMAIN h /\ p # 0 /\ p # -1
  BY <1>1, OwnValues
<1>3. /\ DOMAIN h2 = DOMAIN h /\ h2[p] = [h[p] EXCEPT !.node = s]
      /\ \A id \in DOMAIN h : id # p => h2[id] = h[id]
  BY <1>2
<1>4. Entry(h2[p]) /\ h2[p].node = s /\ h2[p].refs = h[p].refs
  BY <1>1, <1>2, <1>3 DEF HeapOK, Entry
<1>5. IsList(h2)
  BY <1>1, <1>2, ListExcept DEF HeapOK
<1>6. HeapOK(h2) /\ DroppedOK(h2, dr)
  BY <1>1, <1>2, <1>3, <1>4, <1>5 DEF HeapOK, DroppedOK
<1>7. \A id \in DOMAIN h : h2[id].refs = h[id].refs
  BY <1>3, <1>4
<1>8. Alive(h2) = Alive(h)
  BY <1>3, <1>7 DEF Alive
<1>9. Own(h2, rs, hd, dr) = With(Own(h, rs, hd, dr), p, s.kids)
  <2>1. \A q \in Alive(h) \cup dr : q \in DOMAIN h
    BY <1>1 DEF Alive, DroppedOK
  <2>2. DOMAIN Own(h, rs, hd, dr) = {0, -1} \cup Alive(h) \cup dr
        /\ DOMAIN Own(h2, rs, hd, dr) = {0, -1} \cup Alive(h) \cup dr
        /\ p \in {0, -1} \cup Alive(h) \cup dr
    BY <1>8 DEF Own
  <2>3. ASSUME NEW q \in {0, -1} \cup Alive(h) \cup dr
        PROVE  Own(h2, rs, hd, dr)[q] = IF q = p THEN s.kids ELSE Own(h, rs, hd, dr)[q]
    BY <1>2, <1>3, <1>4, <1>8, <2>1, <2>3 DEF Own
  <2>4. Own(h2, rs, hd, dr) = [q \in DOMAIN Own(h2, rs, hd, dr) |-> Own(h2, rs, hd, dr)[q]]
    BY DEF Own
  <2> QED
    BY <2>2, <2>3, <2>4 DEF With
<1>10. \A id : Has(Own(h, rs, hd, dr), p, id) = Times(id, h[p].node.kids)
  <2>1. p \in DOMAIN Own(h, rs, hd, dr) /\ Own(h, rs, hd, dr)[p] = h[p].node.kids
    BY <1>2 DEF Own
  <2> QED
    BY <2>1 DEF Has
<1>11. \A id \in Nat \ {0} : Refs(h2, id) = Refs(h, id) /\ Refs(h, id) \in Nat /\ Due(h, rs, hd, dr, id) \in Int
  BY <1>3, <1>7, DueType DEF Refs, Due
<1>12. /\ Loose(h2, rs, hd, dr)
       /\ \A id \in Nat \ {0} :
            /\ Has(Own(h, rs, hd, dr), p, id) \in Nat /\ Times(id, s.kids) \in Nat
            /\ Due(h2, rs, hd, dr, id) =
                 Due(h, rs, hd, dr, id) + (Refs(h2, id) - Refs(h, id))
                   + Has(Own(h, rs, hd, dr), p, id) - Times(id, s.kids)
  <2>1. AllShaped(s.kids) /\ Loose(h, rs, hd, dr)
    OBVIOUS
  <2> DEFINE K == s.kids
  <2> HIDE DEF K
  <2>2. AllShaped(K) /\ Own(h2, rs, hd, dr) = With(Own(h, rs, hd, dr), p, K)
    BY <1>9 DEF K
  <2>3. /\ Loose(h2, rs, hd, dr)
        /\ \A id \in Nat \ {0} :
             /\ Has(Own(h, rs, hd, dr), p, id) \in Nat /\ Times(id, K) \in Nat
             /\ Due(h2, rs, hd, dr, id) =
                  Due(h, rs, hd, dr, id) + (Refs(h2, id) - Refs(h, id))
                    + Has(Own(h, rs, hd, dr), p, id) - Times(id, K)
    <3>1. Loose(h2, rs, hd, dr)
      BY <1>6, <2>2, DueWith
    <3>2. ASSUME NEW id \in Nat \ {0}
          PROVE  /\ Has(Own(h, rs, hd, dr), p, id) \in Nat /\ Times(id, K) \in Nat
                 /\ Due(h2, rs, hd, dr, id) =
                      Due(h, rs, hd, dr, id) + (Refs(h2, id) - Refs(h, id))
                        + Has(Own(h, rs, hd, dr), p, id) - Times(id, K)
      BY <1>6, <2>2, DueWith
    <3> QED
      BY <3>1, <3>2
  <2> QED
    BY <2>3 DEF K
<1>13. ASSUME NEW id \in Nat \ {0}
       PROVE  /\ Times(id, h[p].node.kids) \in Nat /\ Times(id, s.kids) \in Nat
              /\ Due(h2, rs, hd, dr, id) =
                   Due(h, rs, hd, dr, id) + Times(id, h[p].node.kids) - Times(id, s.kids)
  <2>1. Has(Own(h, rs, hd, dr), p, id) = Times(id, h[p].node.kids)
    BY <1>10
  <2>2. /\ Has(Own(h, rs, hd, dr), p, id) \in Nat /\ Times(id, s.kids) \in Nat
        /\ Due(h2, rs, hd, dr, id) =
             Due(h, rs, hd, dr, id) + (Refs(h2, id) - Refs(h, id))
               + Has(Own(h, rs, hd, dr), p, id) - Times(id, s.kids)
    BY <1>12
  <2>3. Refs(h2, id) = Refs(h, id) /\ Refs(h, id) \in Nat /\ Due(h, rs, hd, dr, id) \in Int
    BY <1>11
  <2> QED
    BY <2>1, <2>2, <2>3
<1> QED
  BY <1>2, <1>3, <1>4, <1>7, <1>8, <1>9, <1>11, <1>12, <1>13 DEF Writes

\* A dropped node lets go of its children.
LeftOf(dr, p) == dr \ {p}
LEMMA StepDropped ==
    ASSUME NEW h, NEW rs, NEW hd, NEW dr, Loose(h, rs, hd, dr), NEW p \in dr, NEW dr2, dr2 = LeftOf(dr, p)
    PROVE  /\ Loose(h, rs, hd, dr2) /\ Own(h, rs, hd, dr2) = Without(Own(h, rs, hd, dr), p)
           /\ \A id \in Nat \ {0} :
                /\ Times(id, h[p].node.kids) \in Nat
                /\ Due(h, rs, hd, dr2, id) = Due(h, rs, hd, dr, id) + Times(id, h[p].node.kids)
<1> DEFINE own == Own(h, rs, hd, dr)  own2 == Own(h, rs, hd, dr2)
<1>1. HeapOK(h) /\ DroppedOK(h, dr) /\ DroppedOK(h, dr2)
  BY DEF Loose, DroppedOK, LeftOf
<1>2. p # 0 /\ p # -1 /\ p \in DOMAIN own /\ own[p] = h[p].node.kids
  <2>1. p # 0 /\ p # -1
    BY <1>1, OwnValues
  <2> QED
    BY <2>1 DEF Own
<1>9. p \notin Alive(h)
  BY <1>1 DEF Alive, DroppedOK
<1>3. own2 = Without(own, p)
  BY <1>2, <1>9 DEF Own, Without, LeftOf
<1>4. Lists(own) /\ Holding(own) /\ \A id \in Nat \ {0} : IsFiniteSet(Into(own, id))
  BY DEF Loose, Holding, Finite, Lists, AllShaped
<1> HIDE DEF own, own2
<1>5. ASSUME NEW id \in Nat \ {0}
      PROVE  /\ IsFiniteSet(Into(own2, id)) /\ Tally(own, id) \in Nat /\ Times(id, own[p]) \in Nat
             /\ Tally(own2, id) \in Nat /\ Tally(own2, id) = Tally(own, id) - Times(id, own[p])
  BY <1>2, <1>3, <1>4, TallyWithout
<1>6. Holding(own2)
  BY <1>3, <1>4 DEF Holding, Without
<1>7. Loose(h, rs, hd, dr2)
  BY <1>1, <1>5, <1>6 DEF Loose, Finite, own2
<1>8. ASSUME NEW id \in Nat \ {0}
      PROVE  Due(h, rs, hd, dr2, id) = Due(h, rs, hd, dr, id) + Times(id, own[p])
  <2>1. Refs(h, id) \in Nat
    BY <1>1, HeapIds
  <2>2. /\ Due(h, rs, hd, dr2, id) = Refs(h, id) - Tally(own2, id)
        /\ Due(h, rs, hd, dr, id) = Refs(h, id) - Tally(own, id)
    BY DEF Due, own, own2
  <2> QED
    BY <1>5, <2>1, <2>2
<1> QED
  BY <1>2, <1>3, <1>5, <1>7, <1>8 DEF own, own2

-----------------------------------------------------------------------------
(* What the operations make of a node: its children, and where it lives. *)

LEMMA ResizeShape ==
    ASSUME NEW s, {"inline", "kids"} \subseteq DOMAIN s, NEW padding, NEW size
    PROVE  LET t == [Resize(s, padding, size) EXCEPT !.changed = TRUE]
           IN  /\ {"inline", "kids"} \subseteq DOMAIN t /\ t.kids = s.kids
               /\ t.inline = (s.inline /\ CanInline(padding, size, s.lookahead))
  BY DEF Resize

LEMMA ResizeStands ==
    ASSUME NEW s, Stands(s), NEW padding, NEW size
    PROVE  LET t == [Resize(s, padding, size) EXCEPT !.changed = TRUE]
           IN  Stands(t) /\ t.kids = s.kids
<1>1. {"inline", "kids"} \subseteq DOMAIN s /\ s.inline = FALSE /\ IsList(s.kids)
  BY DEF Stands
<1> DEFINE t == [Resize(s, padding, size) EXCEPT !.changed = TRUE]
<1>2. {"inline", "kids"} \subseteq DOMAIN t /\ t.kids = s.kids
      /\ t.inline = (s.inline /\ CanInline(padding, size, s.lookahead))
  BY <1>1, ResizeShape
<1> HIDE DEF t
<1> QED
  BY <1>1, <1>2 DEF Stands, t

\* An inline leaf stays one, or stands on the heap.
LEMMA ResizeInlined ==
    ASSUME NEW s, Inlined(s), NEW padding, NEW size
    PROVE  LET t == [Resize(s, padding, size) EXCEPT !.changed = TRUE]
           IN  t.kids = <<>> /\ t.inline \in BOOLEAN
               /\ (t.inline => Inlined(t)) /\ (~t.inline => Stands(t))
<1>1. {"inline", "kids"} \subseteq DOMAIN s /\ s.inline = TRUE /\ s.kids = <<>>
  BY DEF Inlined
<1> DEFINE t == [Resize(s, padding, size) EXCEPT !.changed = TRUE]
<1>2. {"inline", "kids"} \subseteq DOMAIN t /\ t.kids = s.kids
      /\ t.inline = (s.inline /\ CanInline(padding, size, s.lookahead))
  BY <1>1, ResizeShape
<1>3. CanInline(padding, size, s.lookahead) \in BOOLEAN
  BY DEF CanInline
<1> HIDE DEF t
<1>4. t.inline \in BOOLEAN /\ t.kids = <<>>
  BY <1>1, <1>2, <1>3
<1>5. (t.inline => t.inline = TRUE) /\ (~t.inline => t.inline = FALSE)
  BY <1>4
<1> QED
  BY <1>2, <1>4, <1>5, EmptyIsList DEF Stands, Inlined, t

\* The sums a node takes of its children leave the children as they are.
LEMMA SummarizedShape ==
    ASSUME NEW s, Stands(s), NEW children
    PROVE  Stands(Summarized(s, children)) /\ Summarized(s, children).kids = s.kids
<1> DEFINE Same(t) == {"inline", "kids"} \subseteq DOMAIN t /\ t.kids = s.kids /\ t.inline = FALSE
<1>1. Same(s) /\ IsList(s.kids)
  BY DEF Stands
<1>2. ASSUME NEW t, Same(t)
      PROVE  Same(WithExtent(t, children)) /\ Same(WithCounts(t, children)) /\ Same(WithMarks(t, children))
  <2>1. Same(WithExtent(t, children))
    BY <1>2 DEF WithExtent
  <2>2. Same(WithCounts(t, children))
    BY <1>2 DEF WithCounts
  <2>3. Same(WithMarks(t, children))
    BY <1>2 DEF WithMarks
  <2> QED
    BY <2>1, <2>2, <2>3
<1> HIDE DEF Same
<1>3. Same(Summarized(s, children))
  BY <1>1, <1>2 DEF Summarized
<1> QED
  BY <1>1, <1>3 DEF Stands, Same

LEMMA NewNodeShape ==
    ASSUME NEW symbol, NEW kids, IsList(kids), NEW children, NEW production
    PROVE  Stands(NewNode(symbol, kids, children, production))
           /\ NewNode(symbol, kids, children, production).kids = kids
<1> DEFINE s == [Fresh(symbol, LengthZero, LengthZero, 0, 0)
                  EXCEPT !.kids = kids, !.production = production,
                         !.fragileLeft = symbol >= BuiltinSymErrorRepeat,
                         !.fragileRight = symbol >= BuiltinSymErrorRepeat]
<1>1. {"inline", "kids"} \subseteq DOMAIN s /\ s.inline = FALSE /\ s.kids = kids
  BY DEF Fresh
<1>2. NewNode(symbol, kids, children, production) = Summarized(s, children)
  BY DEF NewNode
<1> HIDE DEF s
<1>3. Stands(s)
  BY <1>1 DEF Stands
<1> QED
  BY <1>1, <1>2, <1>3, SummarizedShape

\* A new leaf is one of the two.
LEMMA NewLeafShape ==
    ASSUME NEW symbol, NEW padding, NEW size, NEW lookahead, NEW state, NEW external, NEW column
    PROVE  LET t == NewLeaf(symbol, padding, size, lookahead, state, external, column)
           IN  t.kids = <<>> /\ t.inline \in BOOLEAN
               /\ (t.inline => Inlined(t)) /\ (~t.inline => Stands(t))
<1> DEFINE t == NewLeaf(symbol, padding, size, lookahead, state, external, column)
           inline == /\ symbol <= MaxInlineSymbol /\ ~external /\ ~column
                     /\ CanInline(padding, size, lookahead)
<1>1. inline \in BOOLEAN
  OBVIOUS
<1>2. {"inline", "kids"} \subseteq DOMAIN t /\ t.kids = <<>> /\ t.inline = inline
  BY DEF NewLeaf, Fresh
<1> HIDE DEF t, inline
<1>3. t.inline \in BOOLEAN
  BY <1>1, <1>2
<1>4. (t.inline => t.inline = TRUE) /\ (~t.inline => t.inline = FALSE)
  BY <1>3
<1> QED
  BY <1>2, <1>3, <1>4, EmptyIsList DEF Stands, Inlined, t

-----------------------------------------------------------------------------
(* The operations on a heap where every reference is counted. *)

\* What a node that is alive holds.
LEMMA KidsAlive ==
    ASSUME NEW h, NEW rs, NEW hd, NEW dr, Core(h, rs, hd, dr), NEW p \in Alive(h) \cup dr
    PROVE  /\ p \in DOMAIN Own(h, rs, hd, dr) /\ p \in DOMAIN h /\ p # 0 /\ p # -1
           /\ Own(h, rs, hd, dr)[p] = h[p].node.kids
           /\ Stands(h[p].node) /\ AllShaped(h[p].node.kids)
           /\ \A i \in DOMAIN h[p].node.kids :
                h[p].node.kids[i].id # 0 => /\ h[p].node.kids[i].id \in Alive(h)
                                            /\ h[p].node.kids[i].id \in DOMAIN h
                                            /\ h[p].node.kids[i].id \in Nat \ {0}
<1>1. HeapOK(h) /\ DroppedOK(h, dr) /\ Holding(Own(h, rs, hd, dr))
  BY DEF Core, Loose
<1>2. p \in DOMAIN h /\ p # 0 /\ p # -1
  BY <1>1, OwnValues
<1>3. p \in DOMAIN Own(h, rs, hd, dr) /\ Own(h, rs, hd, dr)[p] = h[p].node.kids
  BY <1>2 DEF Own
<1>4. Stands(h[p].node) /\ AllShaped(h[p].node.kids)
  BY <1>1, <1>2, <1>3 DEF HeapOK, Entry, Holding
<1>5. ASSUME NEW i \in DOMAIN h[p].node.kids, h[p].node.kids[i].id # 0
      PROVE  h[p].node.kids[i].id \in Alive(h) /\ h[p].node.kids[i].id \in DOMAIN h
  BY <1>3, <1>5, ThereIsAlive
<1>6. DOMAIN h \subseteq Nat \ {0}
  BY <1>1, HeapIds
<1> QED
  BY <1>2, <1>3, <1>4, <1>5, <1>6

\* A subtree that is shared is cloned: the clone takes one of its references.
LEMMA MakeMutClones ==
    ASSUME NEW h, NEW rs, NEW hd, Core(h, rs, hd, {}),
           NEW r, r.id \in Alive(h), h[r.id].refs # 1
    PROVE  LET m == MakeMut(h, r)  n == Len(h) + 1  K == h[r.id].node.kids
           IN  /\ m.ref = HeapRef(n) /\ Loose(m.heap, rs, hd, {})
               /\ n \in Nat \ {0} /\ n \notin DOMAIN h /\ n \notin DOMAIN Own(h, rs, hd, {})
               /\ DOMAIN m.heap = DOMAIN h \cup {n} /\ Alive(m.heap) = Alive(h) \cup {n}
               /\ m.heap[n].node = h[r.id].node
               /\ \A id \in DOMAIN h : m.heap[id].node = h[id].node
               /\ Own(m.heap, rs, hd, {}) = With(Own(h, rs, hd, {}), n, K)
               /\ \A id \in Nat \ {0} :
                    /\ Times(id, K) \in Nat
                    /\ Refs(m.heap, id) = Refs(h, id) + Times(id, K) + (IF id = n THEN 1 ELSE 0) - Hit(r, id)
                    /\ Due(m.heap, rs, hd, {}, id) = (IF id = n THEN 1 ELSE 0) - Hit(r, id)
<1> DEFINE n == Len(h) + 1  K == h[r.id].node.kids  s == h[r.id].node
           h1 == Retained(h, K)
           h2 == Append(h1, [node |-> s, refs |-> 1])
           h3 == Released(h2, <<r>>)
           own == Own(h, rs, hd, {})
<1>1. HeapOK(h) /\ Loose(h, rs, hd, {}) /\ \A id \in Nat \ {0} : Due(h, rs, hd, {}, id) = 0
  BY DEF Core, Loose
<1>2. /\ r.id \in DOMAIN h /\ r.id # 0 /\ Stands(s) /\ AllShaped(K) /\ IsList(K)
      /\ \A i \in DOMAIN K : K[i].id # 0 => K[i].id \in Alive(h)
  BY KidsAlive DEF AllShaped
<1>3. h[r.id].refs \in Nat /\ h[r.id].refs >= 2 /\ r.id \in Nat \ {0}
  BY <1>1, <1>2, HeapIds DEF HeapOK, Entry, Alive
<1> HIDE DEF s, K
<1>4. MakeMut(h, r) = [heap |-> h3, ref |-> HeapRef(n)]
  <2>1. Kids(h, r) = K /\ Deref(h, r) = s
    BY <1>2 DEF Kids, Deref, K, s
  <2>2. Len(h1) = Len(h)
    BY <1>1, <1>2, StepRetain DEF h1
  <2>3. Clone(h, r) = [heap |-> h2, ref |-> HeapRef(n)]
    BY <1>2, <2>1, <2>2 DEF Clone, Alloc, Stands, h1, h2
  <2> HIDE DEF h2, n
  <2>4. Released(Clone(h, r).heap, <<r>>) = h3 /\ Clone(h, r).ref = HeapRef(n)
    BY <2>3
  <2> QED
    BY <1>2, <2>4 DEF MakeMut
<1>5. /\ Loose(h1, rs, hd, {}) /\ Own(h1, rs, hd, {}) = own
      /\ DOMAIN h1 = DOMAIN h /\ Alive(h1) = Alive(h) /\ Len(h1) = Len(h)
      /\ \A id \in DOMAIN h : h1[id].node = h[id].node
      /\ \A id : Times(id, K) \in Nat
      /\ \A id \in Nat \ {0} :
           /\ Refs(h1, id) = Refs(h, id) + Times(id, K)
           /\ Due(h1, rs, hd, {}, id) = Due(h, rs, hd, {}, id) + Times(id, K)
  BY <1>1, <1>2, StepRetain
<1>6. s.kids = K
  BY DEF s, K
<1> HIDE DEF h1, own
<1>7. /\ Loose(h2, rs, hd, {}) /\ Own(h2, rs, hd, {}) = With(own, n, K)
      /\ n \in Nat \ {0} /\ n \notin DOMAIN h /\ n \notin DOMAIN own
      /\ DOMAIN h2 = DOMAIN h \cup {n} /\ Alive(h2) = Alive(h) \cup {n} /\ h2[n].node = s
      /\ \A id \in DOMAIN h : h2[id] = h1[id]
      /\ \A id \in Nat \ {0} :
           /\ Refs(h2, id) = Refs(h1, id) + (IF id = n THEN 1 ELSE 0)
           /\ Due(h2, rs, hd, {}, id) =
                Due(h1, rs, hd, {}, id) + (IF id = n THEN 1 ELSE 0) - Times(id, K)
  <2> DEFINE n1 == Len(h1) + 1
  <2>1. n1 = n
    BY <1>5
  <2>2. /\ Loose(h2, rs, hd, {}) /\ Own(h2, rs, hd, {}) = With(Own(h1, rs, hd, {}), n1, s.kids)
        /\ n1 \in Nat \ {0} /\ n1 \notin DOMAIN h1 /\ n1 \notin DOMAIN Own(h1, rs, hd, {})
        /\ DOMAIN h2 = DOMAIN h1 \cup {n1} /\ Alive(h2) = Alive(h1) \cup {n1} /\ h2[n1].node = s
        /\ \A id \in DOMAIN h1 : h2[id] = h1[id]
        /\ \A id \in Nat \ {0} :
             /\ Refs(h2, id) = Refs(h1, id) + (IF id = n1 THEN 1 ELSE 0)
             /\ Due(h2, rs, hd, {}, id) =
                  Due(h1, rs, hd, {}, id) + (IF id = n1 THEN 1 ELSE 0) - Times(id, s.kids)
    <3>1. Loose(h1, rs, hd, {}) /\ Stands(s) /\ AllShaped(s.kids)
      BY <1>2, <1>5, <1>6
    <3>2. Allocates(h1, rs, hd, {}, s, n1, h2)
      BY <3>1, StepAlloc
    <3> HIDE DEF n1, h2
    <3> QED
      BY <3>2 DEF Allocates
  <2> HIDE DEF n1, n, h2
  <2> QED
    BY <1>5, <1>6, <2>1, <2>2
<1> HIDE DEF h2, n
<1>8. /\ \A id : Times(id, <<r>>) = Hit(r, id) /\ Hit(r, id) \in {0, 1}
      /\ IsList(<<r>>)
  BY TimesOne DEF Hit
<1>9. \A id \in Nat \ {0} : Refs(h, id) \in Nat
  BY <1>1, HeapIds
<1>10. Refs(h, r.id) >= 2
  BY <1>2, <1>3 DEF Refs
<1>20. ASSUME NEW id \in Nat \ {0}
       PROVE  /\ Refs(h2, id) = Refs(h, id) + Times(id, K) + (IF id = n THEN 1 ELSE 0)
              /\ Times(id, K) \in Nat
  <2>1. Refs(h2, id) = Refs(h1, id) + (IF id = n THEN 1 ELSE 0)
    BY <1>7
  <2>2. Refs(h1, id) = Refs(h, id) + Times(id, K) /\ Times(id, K) \in Nat
    BY <1>5
  <2> QED
    BY <2>1, <2>2
<1>11. \A id \in Nat \ {0} : Times(id, <<r>>) <= Refs(h2, id)
  <2> TAKE id \in Nat \ {0}
  <2>3. Refs(h2, id) = Refs(h, id) + Times(id, K) + (IF id = n THEN 1 ELSE 0) /\ Times(id, K) \in Nat
    BY <1>20
  <2>1. Refs(h2, id) >= Refs(h, id) /\ Refs(h2, id) \in Nat
    BY <1>9, <2>3
  <2>2. Hit(r, id) <= Refs(h, id)
    BY <1>9, <1>10 DEF Hit
  <2> QED
    BY <1>8, <1>9, <2>1, <2>2
<1>12. Freed(h2, <<r>>) = {}
  <2> SUFFICES ASSUME NEW id \in DOMAIN h2, h2[id].refs > 0, h2[id].refs = Times(id, <<r>>)
               PROVE  FALSE
    BY DEF Freed
  <2>1. HeapOK(h2)
    BY <1>7 DEF Loose
  <2>2. id \in Nat \ {0} /\ Refs(h2, id) = h2[id].refs
    BY <2>1, HeapIds DEF Refs
  <2>3. id = r.id
    BY <1>8, <2>2, HeapIds, <2>1 DEF Hit
  <2>4. Refs(h2, id) >= 2
    <3>1. Refs(h2, id) = Refs(h, id) + Times(id, K) + (IF id = n THEN 1 ELSE 0) /\ Times(id, K) \in Nat
      BY <1>20, <2>2
    <3> QED
      BY <1>9, <1>10, <2>2, <2>3, <3>1
  <2> QED
    BY <1>8, <2>2, <2>4
<1>13. /\ Loose(h3, rs, hd, {}) /\ Own(h3, rs, hd, {}) = Own(h2, rs, hd, {})
       /\ DOMAIN h3 = DOMAIN h2 /\ Alive(h3) = Alive(h2)
       /\ \A id \in DOMAIN h2 : h3[id].node = h2[id].node
       /\ \A id \in Nat \ {0} :
            /\ Refs(h3, id) = Refs(h2, id) - Times(id, <<r>>)
            /\ Due(h3, rs, hd, {}, id) = Due(h2, rs, hd, {}, id) - Times(id, <<r>>)
  <2> DEFINE list == <<r>>
  <2>1. Loose(h2, rs, hd, {}) /\ IsList(list) /\ Counted(h2, list)
    BY <1>7, <1>8, <1>11 DEF Counted
  <2>2. Freed(h2, list) = {}
    BY <1>12
  <2>3. h3 = Released(h2, list)
    OBVIOUS
  <2> HIDE DEF list, h3
  <2>8. Loose(h3, rs, hd, {}) /\ Own(h3, rs, hd, {}) = Own(h2, rs, hd, {})
        /\ DOMAIN h3 = DOMAIN h2 /\ Alive(h3) = Alive(h2)
    BY <2>1, <2>2, <2>3, StepReleaseShared
  <2>5. \A id \in DOMAIN h2 : h3[id].node = h2[id].node
    BY <2>1, <2>2, <2>3, StepReleaseShared
  <2>9. ASSUME NEW id \in Nat \ {0}
        PROVE  /\ Refs(h3, id) = Refs(h2, id) - Times(id, list)
               /\ Due(h3, rs, hd, {}, id) = Due(h2, rs, hd, {}, id) - Times(id, list)
    BY <2>1, <2>2, <2>3, StepReleaseShared
  <2> QED
    BY <2>5, <2>8, <2>9 DEF list
<1> HIDE DEF h3
<1>15. /\ Loose(h3, rs, hd, {}) /\ Own(h3, rs, hd, {}) = With(own, n, K)
       /\ DOMAIN h3 = DOMAIN h \cup {n} /\ Alive(h3) = Alive(h) \cup {n}
       /\ h3[n].node = s /\ \A id \in DOMAIN h : h3[id].node = h[id].node
  BY <1>5, <1>7, <1>13
<1>16. ASSUME NEW id \in Nat \ {0}
       PROVE  /\ Refs(h3, id) = Refs(h, id) + Times(id, K) + (IF id = n THEN 1 ELSE 0) - Hit(r, id)
              /\ Due(h3, rs, hd, {}, id) = (IF id = n THEN 1 ELSE 0) - Hit(r, id)
  <2>1. Times(id, K) \in Nat /\ Refs(h, id) \in Nat /\ Due(h, rs, hd, {}, id) = 0 /\ Hit(r, id) \in {0, 1}
    BY <1>1, <1>5, <1>8, <1>9
  <2>2. Refs(h3, id) = Refs(h2, id) - Hit(r, id)
        /\ Due(h3, rs, hd, {}, id) = Due(h2, rs, hd, {}, id) - Hit(r, id)
    BY <1>8, <1>13
  <2>3. Due(h2, rs, hd, {}, id) = Due(h1, rs, hd, {}, id) + (IF id = n THEN 1 ELSE 0) - Times(id, K)
    BY <1>7
  <2>4. Due(h1, rs, hd, {}, id) = Due(h, rs, hd, {}, id) + Times(id, K)
    BY <1>5
  <2> HIDE DEF Hit
  <2> QED
    BY <1>20, <2>1, <2>2, <2>3, <2>4
<1> QED
  BY <1>4, <1>5, <1>7, <1>15, <1>16 DEF s, K, n, own

\* What an edit makes of a subtree: of one that is shared or held inline, a new one.
Rewritten(h, rs, hd, r, K, w) ==
    /\ Loose(w.heap, rs, hd, {}) /\ Shaped(w.ref)
    /\ \A id \in DOMAIN h : id \in DOMAIN w.heap /\ (id # w.ref.id => w.heap[id].node = h[id].node)
    /\ \A id \in Nat \ {0} : Due(w.heap, rs, hd, {}, id) = Hit(w.ref, id) - Hit(r, id)
    /\ w.ref.id # 0 => /\ \A id : id \in Alive(w.heap) <=> id \in Alive(h) \/ id = w.ref.id
                       /\ w.heap[w.ref.id].node.kids = K
    /\ w.ref.id = 0 => r.id = 0 /\ Alive(w.heap) = Alive(h)
    /\ w.ref.id = r.id => (r.id # 0 => h[r.id].refs = 1) /\ Own(w.heap, rs, hd, {}) = Own(h, rs, hd, {})
    /\ w.ref.id # r.id => /\ w.ref.id \notin DOMAIN h /\ w.ref.id \notin DOMAIN Own(h, rs, hd, {})
                          /\ Own(w.heap, rs, hd, {}) = With(Own(h, rs, hd, {}), w.ref.id, K)

LEMMA RewriteInline ==
    ASSUME NEW h, NEW rs, NEW hd, Core(h, rs, hd, {}), NEW r, r.id = 0, Inlined(r.leaf),
           NEW padding, NEW size
    PROVE  Rewritten(h, rs, hd, r, <<>>, Rewrite(h, r, padding, size))
<1> DEFINE new == [Resize(r.leaf, padding, size) EXCEPT !.changed = TRUE]
           w == Rewrite(h, r, padding, size)  n == Len(h) + 1
           h2 == Append(h, [node |-> new, refs |-> 1])
<1> SUFFICES Rewritten(h, rs, hd, r, <<>>, w)
  OBVIOUS
<1>1. Loose(h, rs, hd, {}) /\ \A id \in Nat \ {0} : Due(h, rs, hd, {}, id) = 0
  BY DEF Core
<1>2. new.kids = <<>> /\ new.inline \in BOOLEAN /\ (new.inline => Inlined(new)) /\ (~new.inline => Stands(new))
  BY ResizeInlined
<1>3. r.leaf.inline = TRUE
  BY DEF Inlined
<1> HIDE DEF new
<1>4. w = Alloc(h, new)
  BY <1>3 DEF Rewrite, MakeMut, Deref, new
<1>5. \A id \in Nat \ {0} : Hit(r, id) = 0
  BY DEF Hit
<1> HIDE DEF w
<1>6. CASE new.inline
  <2>1. w.heap = h /\ w.ref.id = 0 /\ w.ref.leaf = new
    BY <1>4, <1>6 DEF Alloc, InlineRef
  <2>2. Shaped(w.ref) /\ \A id \in Nat \ {0} : Hit(w.ref, id) = 0
    BY <1>2, <1>6, <2>1 DEF Shaped, Hit
  <2> QED
    BY <1>1, <1>5, <2>1, <2>2 DEF Rewritten
<1>7. CASE ~new.inline
  <2>1. w.heap = h2 /\ w.ref.id = n
    BY <1>4, <1>7 DEF Alloc, HeapRef
  <2>2. AllShaped(new.kids) /\ Stands(new) /\ \A id : Times(id, new.kids) = 0
    BY <1>2, <1>7, EmptyIsList, TimesEmpty DEF AllShaped
  <2>10. Allocates(h, rs, hd, {}, new, n, h2)
    BY <1>1, <2>2, StepAlloc
  <2> HIDE DEF h2, n
  <2>3. Loose(h2, rs, hd, {}) /\ Own(h2, rs, hd, {}) = With(Own(h, rs, hd, {}), n, new.kids)
    BY <2>10 DEF Allocates
  <2>4. n \in Nat \ {0} /\ n \notin DOMAIN h /\ n \notin DOMAIN Own(h, rs, hd, {})
    BY <2>10 DEF Allocates
  <2>5. DOMAIN h2 = DOMAIN h \cup {n} /\ Alive(h2) = Alive(h) \cup {n} /\ h2[n].node = new
    BY <2>10 DEF Allocates
  <2>6. \A id \in DOMAIN h : h2[id] = h[id]
    BY <2>10 DEF Allocates
  <2>7. ASSUME NEW id \in Nat \ {0}
        PROVE  Due(h2, rs, hd, {}, id) = Hit(w.ref, id) - Hit(r, id)
    <3>1. Due(h2, rs, hd, {}, id) =
            Due(h, rs, hd, {}, id) + (IF id = n THEN 1 ELSE 0) - Times(id, new.kids)
      BY <2>10 DEF Allocates
    <3>2. Hit(w.ref, id) = IF id = n THEN 1 ELSE 0
      BY <2>1 DEF Hit
    <3> QED
      BY <1>1, <1>5, <2>2, <3>1, <3>2
  <2>8. Shaped(w.ref) /\ w.ref.id # 0 /\ w.ref.id # r.id
    BY <2>1, <2>4 DEF Shaped
  <2>9. \A id : id \in Alive(h2) <=> id \in Alive(h) \/ id = n
    BY <2>5
  <2> QED
    BY <1>2, <2>1, <2>3, <2>4, <2>5, <2>6, <2>7, <2>8, <2>9 DEF Rewritten
<1> QED
  BY <1>2, <1>6, <1>7

LEMMA RewriteNode ==
    ASSUME NEW h, NEW rs, NEW hd, Core(h, rs, hd, {}), NEW r, r.id \in Alive(h),
           NEW padding, NEW size
    PROVE  Rewritten(h, rs, hd, r, h[r.id].node.kids, Rewrite(h, r, padding, size))
<1> DEFINE K == h[r.id].node.kids  own == Own(h, rs, hd, {})
           m == MakeMut(h, r)  hm == m.heap  x == m.ref.id
           new == [Resize(h[r.id].node, padding, size) EXCEPT !.changed = TRUE]
           w == Rewrite(h, r, padding, size)
<1> SUFFICES Rewritten(h, rs, hd, r, K, w)
  OBVIOUS
<1>1. Loose(h, rs, hd, {}) /\ HeapOK(h) /\ \A id \in Nat \ {0} : Due(h, rs, hd, {}, id) = 0
  BY DEF Core, Loose
<1>2. r.id \in DOMAIN h /\ r.id # 0 /\ r.id \in Nat /\ Stands(h[r.id].node) /\ AllShaped(K)
  BY <1>1, KidsAlive, HeapIds
<1>3. /\ Loose(hm, rs, hd, {}) /\ x \in Alive(hm) /\ hm[x].node = h[r.id].node /\ x \in Nat \ {0}
      /\ \A id \in DOMAIN h : id \in DOMAIN hm /\ hm[id].node = h[id].node
      /\ \A id : id \in Alive(hm) <=> id \in Alive(h) \/ id = x
      /\ m.ref = HeapRef(x) \/ (m.ref = r /\ x = r.id)
      /\ x = r.id => h[r.id].refs = 1 /\ Own(hm, rs, hd, {}) = own
      /\ x # r.id => x \notin DOMAIN h /\ x \notin DOMAIN own /\ Own(hm, rs, hd, {}) = With(own, x, K)
  <2>1. CASE h[r.id].refs = 1
    <3>1. hm = h /\ m.ref = r
      BY <2>1 DEF MakeMut
    <3> QED
      BY <1>1, <1>2, <2>1, <3>1
  <2>2. CASE h[r.id].refs # 1
    <3> DEFINE n == Len(h) + 1
    <3>1. m.ref = HeapRef(n) /\ x = n
      BY <2>2, MakeMutClones DEF HeapRef
    <3>2. Loose(hm, rs, hd, {}) /\ n \in Nat \ {0} /\ n \notin DOMAIN h /\ n \notin DOMAIN own
      BY <2>2, MakeMutClones
    <3>3. DOMAIN hm = DOMAIN h \cup {n} /\ Alive(hm) = Alive(h) \cup {n} /\ hm[n].node = h[r.id].node
      BY <2>2, MakeMutClones
    <3>4. Own(hm, rs, hd, {}) = With(own, n, K) /\ \A id \in DOMAIN h : hm[id].node = h[id].node
      BY <2>2, MakeMutClones
    <3> HIDE DEF n, K, own, hm, x, m
    <3>5. x # r.id
      BY <1>2, <3>1, <3>2
    <3>6. \A id : id \in Alive(hm) <=> id \in Alive(h) \/ id = x
      BY <3>1, <3>3
    <3> QED
      BY <3>1, <3>2, <3>3, <3>4, <3>5, <3>6
  <2> QED
    BY <2>1, <2>2
<1>4. ASSUME NEW id \in Nat \ {0}
      PROVE  Due(hm, rs, hd, {}, id) = (IF id = x THEN 1 ELSE 0) - Hit(r, id)
  <2>1. CASE h[r.id].refs = 1
    <3>1. hm = h /\ m.ref = r
      BY <2>1 DEF MakeMut
    <3> QED
      BY <1>1, <3>1 DEF Hit
  <2>2. CASE h[r.id].refs # 1
    <3>1. m.ref = HeapRef(Len(h) + 1)
      BY <2>2, MakeMutClones
    <3>3. x = Len(h) + 1
      BY <3>1 DEF HeapRef
    <3>2. Due(hm, rs, hd, {}, id) = (IF id = Len(h) + 1 THEN 1 ELSE 0) - Hit(r, id)
      BY <2>2, MakeMutClones
    <3> QED
      BY <3>2, <3>3
  <2> QED
    BY <2>1, <2>2
<1> DEFINE h2 == [hm EXCEPT ![x].node = new]
<1>5. w.heap = h2 /\ w.ref = m.ref /\ w.ref.id = x
  <2>1. Deref(hm, m.ref) = h[r.id].node
    BY <1>3 DEF Deref
  <2>2. h[r.id].node.inline = FALSE
    BY <1>2 DEF Stands
  <2> HIDE DEF hm, x
  <2>3. w = IF Deref(m.heap, m.ref).inline THEN Alloc(m.heap, [Resize(Deref(m.heap, m.ref), padding, size) EXCEPT !.changed = TRUE])
            ELSE [heap |-> [m.heap EXCEPT ![m.ref.id].node =
                             [Resize(Deref(m.heap, m.ref), padding, size) EXCEPT !.changed = TRUE]],
                  ref |-> m.ref]
    BY DEF Rewrite
  <2>4. Deref(m.heap, m.ref) = h[r.id].node
    BY <2>1 DEF hm
  <2> HIDE DEF m, w
  <2>5. w = [heap |-> [m.heap EXCEPT ![m.ref.id].node = new], ref |-> m.ref]
    BY <2>2, <2>3, <2>4
  <2> QED
    BY <2>5 DEF hm, x
<1>6. Stands(new) /\ new.kids = K /\ AllShaped(new.kids)
  BY <1>2, ResizeStands
<1> HIDE DEF w, new, m, hm, x, K, own
<1>16. h2 = [hm EXCEPT ![x].node = new]
  BY DEF h2
<1> HIDE DEF h2
<1>17. Writes(hm, rs, hd, {}, x, new, h2)
  BY <1>3, <1>6, <1>16, StepNode
<1>7. Loose(h2, rs, hd, {}) /\ Own(h2, rs, hd, {}) = With(Own(hm, rs, hd, {}), x, new.kids)
  BY <1>17 DEF Writes
<1>8. DOMAIN h2 = DOMAIN hm /\ Alive(h2) = Alive(hm) /\ h2[x].node = new /\ x \in DOMAIN hm
  BY <1>17 DEF Writes
<1>9. \A id \in DOMAIN hm : id # x => h2[id] = hm[id]
  BY <1>17 DEF Writes
<1>10. ASSUME NEW id \in Nat \ {0}
       PROVE  Due(h2, rs, hd, {}, id) = (IF id = x THEN 1 ELSE 0) - Hit(r, id)
  <2>1. hm[x].node.kids = K
    BY <1>3 DEF K
  <2>2. Due(h2, rs, hd, {}, id) =
          Due(hm, rs, hd, {}, id) + Times(id, hm[x].node.kids) - Times(id, new.kids)
    BY <1>17 DEF Writes
  <2>3. Times(id, new.kids) \in Nat
    BY <1>6, TimesType DEF AllShaped
  <2>4. Hit(r, id) \in {0, 1}
    BY DEF Hit
  <2> QED
    BY <1>4, <1>6, <2>1, <2>2, <2>3, <2>4
<1>11. Own(h2, rs, hd, {}) = IF x = r.id THEN own ELSE With(own, x, K)
  <2>1. CASE x = r.id
    <3>1. x \in DOMAIN own /\ own[x] = K
      BY <2>1, KidsAlive DEF own, K
    <3>2. own = [q \in DOMAIN own |-> own[q]]
      BY DEF own, Own
    <3> QED
      BY <1>3, <1>6, <1>7, <2>1, <3>1, <3>2 DEF With
  <2>2. CASE x # r.id
    BY <1>3, <1>6, <1>7, <2>2 DEF With
  <2> QED
    BY <2>1, <2>2
<1>12. Shaped(w.ref) /\ w.ref.id = x /\ x # 0 /\ \A id : Hit(w.ref, id) = IF id = x THEN 1 ELSE 0
  BY <1>3, <1>5 DEF Shaped, Hit
<1>13. \A id \in DOMAIN h : id \in DOMAIN h2 /\ (id # x => h2[id].node = h[id].node)
  BY <1>3, <1>8, <1>9
<1>14. \A id : id \in Alive(h2) <=> id \in Alive(h) \/ id = x
  BY <1>3, <1>8
<1>15. \A id \in Nat \ {0} : Due(h2, rs, hd, {}, id) = Hit(w.ref, id) - Hit(r, id)
  BY <1>10, <1>12
<1> QED
  BY <1>3, <1>5, <1>6, <1>7, <1>8, <1>11, <1>12, <1>13, <1>14, <1>15 DEF Rewritten, own

\* The place of an edited subtree takes what was made of it: who holds what, then.
Moved(own, own2, p, i, r, K, ref) ==
    \A q \in DOMAIN own2 : \A j \in DOMAIN own2[q] :
      \/ q = p /\ j = i /\ own2[q][j] = ref
      \/ q = ref.id /\ q # r.id /\ j \in DOMAIN K /\ own2[q][j] = K[j]
      \/ q \in DOMAIN own /\ j \in DOMAIN own[q] /\ own2[q][j] = own[q][j] /\ (q # p \/ j # i)
Placed(h, rs, hd, p, i, r, K, w, h2, rs2) ==
    /\ Core(h2, rs2, hd, {})
    /\ Moved(Own(h, rs, hd, {}), Own(h2, rs2, hd, {}), p, i, r, K, w.ref)
    /\ \A id \in Alive(h) : id \in Alive(h2)
    /\ w.ref.id # 0 => w.ref.id \in Alive(h2) /\ DOMAIN h2[w.ref.id].node.kids = DOMAIN K
    /\ \A id \in DOMAIN h : /\ id \in DOMAIN h2 /\ DOMAIN h2[id].node.kids = DOMAIN h[id].node.kids
                            /\ id # p /\ id # w.ref.id => h2[id].node = h[id].node

LEMMA EditPlaces ==
    ASSUME NEW h, NEW rs, NEW hd, Core(h, rs, hd, {}), NEW p, NEW i,
           \/ p = 0 /\ i \in DOMAIN rs
           \/ p \in Alive(h) /\ i \in DOMAIN h[p].node.kids,
           NEW r, r = IF p = 0 THEN rs[i] ELSE h[p].node.kids[i],
           NEW K, r.id # 0 => r.id \in Alive(h) /\ K = h[r.id].node.kids,
           NEW w, Rewritten(h, rs, hd, r, K, w),
           NEW h2, h2 = IF p = 0 THEN w.heap ELSE [w.heap EXCEPT ![p].node.kids[i] = w.ref],
           NEW rs2, rs2 = IF p = 0 THEN [rs EXCEPT ![i] = w.ref] ELSE rs
    PROVE  Placed(h, rs, hd, p, i, r, K, w, h2, rs2)
<1> DEFINE own == Own(h, rs, hd, {})  hw == w.heap  mid == Own(hw, rs, hd, {})
           list == own[p]  list2 == [list EXCEPT ![i] = w.ref]  x == w.ref.id
           own2 == Own(h2, rs2, hd, {})
<1>1. Loose(h, rs, hd, {}) /\ HeapOK(h) /\ 0 \notin Alive(h) /\ \A id \in Alive(h) : id \in DOMAIN h /\ id # -1
  <2>1. Loose(h, rs, hd, {}) /\ HeapOK(h)
    BY DEF Core, Loose
  <2> QED
    BY <2>1, HeapIds DEF Alive
<1>2. p \in DOMAIN own /\ list = (IF p = 0 THEN rs ELSE h[p].node.kids) /\ i \in DOMAIN list /\ list[i] = r
  BY <1>1 DEF Own
<1>3. AllShaped(list) /\ IsList(list)
  BY <1>1, <1>2 DEF Loose, Holding, AllShaped
<1>4. /\ Loose(hw, rs, hd, {}) /\ Shaped(w.ref)
      /\ \A id \in DOMAIN h : id \in DOMAIN hw /\ (id # x => hw[id].node = h[id].node)
      /\ \A id \in Nat \ {0} : Due(hw, rs, hd, {}, id) = Hit(w.ref, id) - Hit(r, id)
  BY DEF Rewritten
<1>5. /\ x # 0 => (\A id : id \in Alive(hw) <=> id \in Alive(h) \/ id = x) /\ hw[x].node.kids = K
      /\ x = 0 => r.id = 0 /\ Alive(hw) = Alive(h)
      /\ x = r.id => mid = own
      /\ x # r.id => x \notin DOMAIN h /\ x \notin DOMAIN own /\ mid = With(own, x, K)
  BY DEF Rewritten
<1>6. ASSUME NEW id \in DOMAIN h PROVE hw[id].node.kids = h[id].node.kids
  <2>1. id # 0
    BY <1>1, HeapIds
  <2>2. CASE id = x
    <3>1. x = r.id
      BY <1>5, <2>2
    <3>2. hw[x].node.kids = K
      BY <1>5, <2>1, <2>2
    <3>3. K = h[r.id].node.kids
      BY <2>1, <2>2, <3>1
    <3> QED
      BY <2>2, <3>1, <3>2, <3>3, Zenon
  <2>3. CASE id # x
    BY <1>4, <2>3
  <2> QED
    BY <2>2, <2>3
<1>7. AllShaped(list2) /\ IsList(list2) /\ DOMAIN list2 = DOMAIN list
      /\ \A id \in Nat \ {0} : Times(id, list2) = Times(id, list) - Hit(r, id) + Hit(w.ref, id)
                               /\ Times(id, list) \in Nat
  <2>1. IsList(list2) /\ DOMAIN list2 = DOMAIN list
    BY <1>2, <1>3, ListExcept
  <2>2. AllShaped(list2)
    BY <1>2, <1>3, <1>4, <2>1 DEF AllShaped
  <2> HIDE DEF list
  <2> QED
    BY <1>2, <1>3, <2>1, <2>2, TimesExcept, TimesType
<1> HIDE DEF hw, list, list2, x, own, mid, own2
<1>8. Loose(h2, rs2, hd, {}) /\ own2 = With(mid, p, list2) /\ \A id \in Nat \ {0} : Due(h2, rs2, hd, {}, id) = 0
  <2>1. CASE p = 0
    <3>1. h2 = hw /\ rs2 = list2 /\ rs = list
      BY <1>2, <2>1 DEF hw, list2
    <3>2. Loose(hw, list2, hd, {}) /\ Own(hw, list2, hd, {}) = With(Own(hw, list, hd, {}), 0, list2)
      BY <1>4, <1>7, <3>1, StepRoots
    <3>3. ASSUME NEW id \in Nat \ {0} PROVE Due(h2, rs2, hd, {}, id) = 0
      <4>1. Due(hw, list2, hd, {}, id) = Due(hw, list, hd, {}, id) + Times(id, list) - Times(id, list2)
        BY <1>4, <1>7, <3>1, StepRoots
      <4>2. Due(hw, list, hd, {}, id) = Hit(w.ref, id) - Hit(r, id)
        BY <1>4, <3>1
      <4>3. Hit(w.ref, id) \in {0, 1} /\ Hit(r, id) \in {0, 1}
        BY DEF Hit
      <4> QED
        BY <1>7, <3>1, <4>1, <4>2, <4>3
    <3> QED
      BY <2>1, <3>1, <3>2, <3>3 DEF own2, mid
  <2>2. CASE p # 0
    <3> DEFINE s == [hw[p].node EXCEPT !.kids = list2]
    <3>1. p \in Alive(hw) /\ p \in DOMAIN h /\ p \in DOMAIN hw /\ hw[p].node.kids = list
      BY <1>1, <1>2, <1>4, <1>5, <1>6, <2>2
    <3>2. Stands(hw[p].node) /\ DOMAIN hw[p] = {"node", "refs"}
      BY <1>4, <3>1 DEF Loose, HeapOK, Entry
    <3>3. Stands(s) /\ s.kids = list2
      BY <1>7, <3>2 DEF Stands
    <3>4. rs2 = rs /\ h2 = [hw EXCEPT ![p].node = s]
      <4>1. rs2 = rs /\ h2 = [hw EXCEPT ![p].node.kids[i] = w.ref]
        BY <2>2 DEF hw
      <4>2. [hw[p].node.kids EXCEPT ![i] = w.ref] = list2
        BY <3>1 DEF list2
      <4> QED
        BY <4>1, <4>2 DEF s
    <3> HIDE DEF s
    <3>5. Writes(hw, rs, hd, {}, p, s, h2)
      BY <1>4, <1>7, <3>1, <3>3, <3>4, StepNode
    <3>6. Loose(h2, rs2, hd, {}) /\ own2 = With(mid, p, list2)
      BY <3>3, <3>4, <3>5 DEF Writes, own2, mid
    <3>7. ASSUME NEW id \in Nat \ {0} PROVE Due(h2, rs2, hd, {}, id) = 0
      <4>1. Due(h2, rs2, hd, {}, id) = Due(hw, rs, hd, {}, id) + Times(id, list) - Times(id, list2)
        BY <3>1, <3>3, <3>4, <3>5 DEF Writes
      <4>2. Due(hw, rs, hd, {}, id) = Hit(w.ref, id) - Hit(r, id)
        BY <1>4
      <4>3. Hit(w.ref, id) \in {0, 1} /\ Hit(r, id) \in {0, 1}
        BY DEF Hit
      <4> QED
        BY <1>7, <4>1, <4>2, <4>3
    <3> QED
      BY <3>6, <3>7
  <2> QED
    BY <2>1, <2>2
<1>9. Core(h2, rs2, hd, {})
  BY <1>8 DEF Core
<1>10. ASSUME NEW q \in DOMAIN own2, NEW j \in DOMAIN own2[q]
       PROVE  \/ q = p /\ j = i /\ own2[q][j] = w.ref
              \/ q = x /\ q # r.id /\ j \in DOMAIN K /\ own2[q][j] = K[j]
              \/ q \in DOMAIN own /\ j \in DOMAIN own[q] /\ own2[q][j] = own[q][j] /\ (q # p \/ j # i)
  <2>1. CASE q = p
    <3>1. own2[q] = list2 /\ j \in DOMAIN list
      BY <1>7, <1>8, <2>1 DEF With
    <3>2. list2[j] = IF j = i THEN w.ref ELSE list[j]
      BY <3>1 DEF list2
    <3> QED
      BY <1>2, <2>1, <3>1, <3>2 DEF list
  <2>2. CASE q # p
    <3>1. q \in DOMAIN mid /\ own2[q] = mid[q]
      BY <1>8, <2>2 DEF With
    <3> QED
      BY <1>5, <2>2, <3>1 DEF With
  <2> QED
    BY <2>1, <2>2
<1>11. /\ \A id \in DOMAIN hw : id \in DOMAIN h2 /\ DOMAIN h2[id].node.kids = DOMAIN hw[id].node.kids
                                /\ (id # p => h2[id] = hw[id])
       /\ Alive(h2) = Alive(hw)
  <2>1. CASE p = 0
    BY <2>1 DEF hw
  <2>2. CASE p # 0
    <3>1. p \in DOMAIN hw
      BY <1>1, <1>4, <2>2
    <3>2. h2 = [hw EXCEPT ![p].node.kids[i] = w.ref] /\ DOMAIN hw[p] = {"node", "refs"}
          /\ {"inline", "kids"} \subseteq DOMAIN hw[p].node
      BY <1>4, <2>2, <3>1 DEF hw, Loose, HeapOK, Entry, Stands
    <3>3. DOMAIN h2 = DOMAIN hw /\ h2[p].refs = hw[p].refs /\ DOMAIN h2[p].node.kids = DOMAIN hw[p].node.kids
          /\ \A id \in DOMAIN hw : id # p => h2[id] = hw[id]
      BY <3>1, <3>2
    <3> QED
      BY <3>3 DEF Alive
  <2> QED
    BY <2>1, <2>2
<1>12. x # 0 => x \in Alive(h2) /\ DOMAIN h2[x].node.kids = DOMAIN K
  <2>1. x # 0 => x \in Alive(hw) /\ x \in DOMAIN hw /\ hw[x].node.kids = K
    BY <1>5 DEF Alive
  <2> QED
    BY <1>11, <2>1
<1>13. \A id \in Alive(h) : id \in Alive(h2)
  BY <1>5, <1>11
<1>14. ASSUME NEW id \in DOMAIN h
       PROVE  /\ id \in DOMAIN h2 /\ DOMAIN h2[id].node.kids = DOMAIN h[id].node.kids
              /\ id # p /\ id # x => h2[id].node = h[id].node
  BY <1>4, <1>6, <1>11
<1> QED
  <2>1. Moved(own, own2, p, i, r, K, w.ref)
    BY <1>10 DEF Moved, x
  <2>2. \A id \in DOMAIN h : /\ id \in DOMAIN h2 /\ DOMAIN h2[id].node.kids = DOMAIN h[id].node.kids
                             /\ id # p /\ id # x => h2[id].node = h[id].node
    BY <1>14
  <2>3. \A id \in Alive(h) : id \in Alive(h2)
    BY <1>13
  <2> USE DEF own, own2, x
  <2>4. Moved(Own(h, rs, hd, {}), Own(h2, rs2, hd, {}), p, i, r, K, w.ref)
    BY <2>1
  <2>5. w.ref.id # 0 => w.ref.id \in Alive(h2) /\ DOMAIN h2[w.ref.id].node.kids = DOMAIN K
    BY <1>12
  <2>6. \A id \in DOMAIN h : /\ id \in DOMAIN h2 /\ DOMAIN h2[id].node.kids = DOMAIN h[id].node.kids
                             /\ id # p /\ id # w.ref.id => h2[id].node = h[id].node
    BY <2>2
  <2> QED
    BY <1>9, <2>3, <2>4, <2>5, <2>6, Zenon DEF Placed

-----------------------------------------------------------------------------
(* What only one holder may reach, and that no subtree holds itself.       *)

\* Of these subtrees there are references in the others of them, and in one place else.
Sole(own, O, anchor) ==
    \A x \in O : /\ x \in Nat \ {0}
                 /\ \A p \in DOMAIN own : \A j \in DOMAIN own[p] :
                      own[p][j].id = x => p \in O \/ <<p, j>> = anchor
\* Who holds a subtree is above it.
RankOn(rank, bound) == bound \in Nat /\ rank \in [Nat -> 0 .. bound] /\ rank[0] = 0
Ranked(own, rank) ==
    \A p \in DOMAIN own : p # 0 /\ p # -1 => \A j \in DOMAIN own[p] : rank[own[p][j].id] < rank[p]

\* What is counted once has one holder.
LEMMA OneHolder ==
    ASSUME NEW h, NEW rs, NEW hd, NEW dr, Core(h, rs, hd, dr),
           NEW x \in DOMAIN h, h[x].refs = 1,
           NEW p, NEW i, NEW q, NEW j, p \in DOMAIN Own(h, rs, hd, dr), i \in DOMAIN Own(h, rs, hd, dr)[p],
           q \in DOMAIN Own(h, rs, hd, dr), j \in DOMAIN Own(h, rs, hd, dr)[q],
           Own(h, rs, hd, dr)[p][i].id = x, Own(h, rs, hd, dr)[q][j].id = x
    PROVE  p = q /\ i = j
<1> DEFINE own == Own(h, rs, hd, dr)
<1>1. x \in Nat \ {0} /\ Refs(h, x) = 1
  BY HeapIds DEF Core, Loose, Refs
<1>2. IsFiniteSet(Into(own, x)) /\ Tally(own, x) \in Nat /\ Due(h, rs, hd, dr, x) = 0
  BY <1>1, DueType DEF Core
<1>3. Tally(own, x) = 1
  BY <1>1, <1>2 DEF Due
<1> HIDE DEF own
<1>4. <<p, i>> \in Into(own, x) /\ <<q, j>> \in Into(own, x)
  BY IntoMember DEF own
<1>5. <<p, i>> = <<q, j>>
  BY <1>2, <1>3, <1>4, TallyOnce
<1> QED
  BY <1>5

\* So it may join what only its holder may reach.
LEMMA SoleJoins ==
    ASSUME NEW h, NEW rs, NEW hd, NEW dr, Core(h, rs, hd, dr),
           NEW O, NEW anchor, Sole(Own(h, rs, hd, dr), O, anchor),
           NEW p, p \in DOMAIN Own(h, rs, hd, dr), NEW i, i \in DOMAIN Own(h, rs, hd, dr)[p],
           p \in O \/ <<p, i>> = anchor,
           NEW x \in DOMAIN h, h[x].refs = 1, Own(h, rs, hd, dr)[p][i].id = x
    PROVE  Sole(Own(h, rs, hd, dr), O \cup {x}, anchor)
<1> DEFINE own == Own(h, rs, hd, dr)
<1>1. x \in Nat \ {0}
  BY HeapIds DEF Core, Loose
<1>2. ASSUME NEW q \in DOMAIN own, NEW j \in DOMAIN own[q], own[q][j].id = x
      PROVE  q = p /\ j = i
  BY <1>2, OneHolder
<1> HIDE DEF own
<1>3. ASSUME NEW y \in O \cup {x}
      PROVE  /\ y \in Nat \ {0}
             /\ \A q \in DOMAIN own : \A j \in DOMAIN own[q] :
                  own[q][j].id = y => q \in O \cup {x} \/ <<q, j>> = anchor
  <2>1. CASE y = x
    BY <1>1, <1>2, <2>1
  <2>2. CASE y \in O
    BY <2>2 DEF Sole, own
  <2> QED
    BY <2>1, <2>2
<1> QED
  BY <1>3 DEF Sole, own

\* What an edit writes to, only its tree may reach: before
LEMMA EditSole ==
    ASSUME NEW h, NEW rs, NEW hd, Core(h, rs, hd, {}), NEW p, NEW i,
           p \in DOMAIN Own(h, rs, hd, {}), i \in DOMAIN Own(h, rs, hd, {})[p],
           NEW r, r = Own(h, rs, hd, {})[p][i],
           NEW K, NEW w, Rewritten(h, rs, hd, r, K, w),
           NEW h2, NEW rs2, Placed(h, rs, hd, p, i, r, K, w, h2, rs2),
           NEW O, NEW anchor, anchor[1] = 0, Sole(Own(h, rs, hd, {}), O, anchor), p \in O \/ <<p, i>> = anchor
    PROVE  \E W : /\ O \subseteq W /\ Sole(Own(h, rs, hd, {}), W, anchor)
                  /\ \A id \in DOMAIN h : id \notin W => h2[id].node = h[id].node
<1> DEFINE own == Own(h, rs, hd, {})  x == w.ref.id
           W == O \cup (IF x = r.id /\ x # 0 THEN {x} ELSE {})
<1>1. 0 \notin DOMAIN h
  BY HeapIds DEF Core, Loose
<1>2. r.id # 0 => r.id \in DOMAIN h
  BY ThereIsAlive
<1>3. Sole(own, W, anchor)
  <2>1. CASE x = r.id /\ x # 0
    <3>1. h[x].refs = 1 /\ x \in DOMAIN h
      BY <1>2, <2>1 DEF Rewritten
    <3>2. Sole(own, O \cup {x}, anchor)
      BY <2>1, <3>1, SoleJoins
    <3> QED
      BY <2>1, <3>2
  <2>2. CASE ~(x = r.id /\ x # 0)
    <3>1. W = O
      BY <2>2
    <3> QED
      BY <3>1
  <2> QED
    BY <2>1, <2>2
<1>4. ASSUME NEW id \in DOMAIN h, id \notin W PROVE h2[id].node = h[id].node
  <2>1. id # p
    BY <1>1, <1>4
  <2>2. id # x
    <3>1. x # r.id => x \notin DOMAIN h
      BY DEF Rewritten
    <3> QED
      BY <1>1, <1>4, <3>1
  <2> QED
    BY <2>1, <2>2 DEF Placed
<1>5. O \subseteq W
  OBVIOUS
<1> HIDE DEF W
<1> QED
  BY <1>3, <1>4, <1>5

\* and after it.
Joined(O, x) == O \cup ({x} \ {0})
Ranking(rank, x, y) == [rank EXCEPT ![x] = rank[y]]
LEMMA EditSoleAfter ==
    ASSUME NEW h, NEW rs, NEW hd, Core(h, rs, hd, {}), NEW p, NEW i,
           p \in DOMAIN Own(h, rs, hd, {}), i \in DOMAIN Own(h, rs, hd, {})[p],
           NEW r, r = Own(h, rs, hd, {})[p][i],
           NEW K, r.id # 0 => K = h[r.id].node.kids, r.id = 0 => K = <<>>,
           NEW w, Rewritten(h, rs, hd, r, K, w),
           NEW h2, NEW rs2, Placed(h, rs, hd, p, i, r, K, w, h2, rs2),
           NEW O, O \subseteq Alive(h), NEW anchor, Sole(Own(h, rs, hd, {}), O, anchor),
           p \in O \/ <<p, i>> = anchor,
           NEW rank, NEW bound, RankOn(rank, bound), Ranked(Own(h, rs, hd, {}), rank)
    PROVE  /\ Sole(Own(h2, rs2, hd, {}), Joined(O, w.ref.id), anchor)
           /\ RankOn(Ranking(rank, w.ref.id, r.id), bound)
           /\ Ranked(Own(h2, rs2, hd, {}), Ranking(rank, w.ref.id, r.id))
<1> DEFINE own == Own(h, rs, hd, {})  own2 == Own(h2, rs2, hd, {})  x == w.ref.id
           O2 == O \cup ({x} \ {0})  rank2 == [rank EXCEPT ![x] = rank[r.id]]
<1>1. 0 \notin DOMAIN h /\ -1 \notin DOMAIN h /\ DOMAIN h \subseteq Nat
  BY HeapIds DEF Core, Loose
<1>2. x \in Nat /\ r.id \in Nat /\ (r.id # 0 => r.id \in Alive(h) /\ r.id \in DOMAIN h)
  BY ThereIsAlive DEF Rewritten, Shaped
<1>3. x # r.id => x # 0 /\ x \notin DOMAIN h /\ x \notin DOMAIN own
  BY DEF Rewritten
<1>4. x = r.id /\ x # 0 => h[x].refs = 1
  BY DEF Rewritten
<1>5. \A q \in DOMAIN own : \A j \in DOMAIN own[q] :
         own[q][j].id \in Nat /\ (own[q][j].id # 0 => own[q][j].id \in DOMAIN h)
  BY ThereIsAlive DEF Shaped
<1>6. r.id # 0 => r.id \in DOMAIN own /\ own[r.id] = K /\ r.id # -1
  BY <1>2, KidsAlive
<1>12. r.id = 0 => DOMAIN K = {}
  BY EmptyIsList
<1>7. ASSUME NEW q \in DOMAIN own2, NEW j \in DOMAIN own2[q]
      PROVE  \/ q = p /\ j = i /\ own2[q][j] = w.ref
             \/ q = x /\ q # r.id /\ j \in DOMAIN K /\ own2[q][j] = K[j]
             \/ q \in DOMAIN own /\ j \in DOMAIN own[q] /\ own2[q][j] = own[q][j] /\ (q # p \/ j # i)
  BY DEF Placed, Moved
<1>8. ASSUME NEW q \in DOMAIN own, NEW j \in DOMAIN own[q], own[q][j].id = x, x # 0
      PROVE  q = p /\ j = i
  <2>1. x = r.id /\ h[x].refs = 1 /\ x \in DOMAIN h
    BY <1>2, <1>3, <1>4, <1>5, <1>8
  <2> QED
    BY <1>8, <2>1, OneHolder
<1>13. Sole(own, O, anchor) /\ Ranked(own, rank) /\ r = own[p][i] /\ p \in DOMAIN own /\ i \in DOMAIN own[p]
  OBVIOUS
<1> HIDE DEF own, own2, x
<1>9. Sole(own2, O2, anchor)
  <2> SUFFICES ASSUME NEW y \in O2, NEW q \in DOMAIN own2, NEW j \in DOMAIN own2[q], own2[q][j].id = y
               PROVE  q \in O2 \/ <<q, j>> = anchor
    <3>1. \A y \in O2 : y \in Nat \ {0}
      BY <1>2, <1>13 DEF Sole
    <3> QED
      BY <3>1 DEF Sole
  <2>1. CASE q = p /\ j = i
    BY <2>1
  <2>2. CASE q = x /\ q # r.id
    BY <1>3, <2>2
  <2>3. CASE q \in DOMAIN own /\ j \in DOMAIN own[q] /\ own2[q][j] = own[q][j] /\ (q # p \/ j # i)
    <3>3. y # 0
      BY <1>13 DEF Sole
    <3>1. y # x
      BY <1>8, <2>3, <3>3
    <3>2. y \in O
      BY <3>1
    <3> QED
      BY <1>13, <2>3, <3>2 DEF Sole
  <2> QED
    BY <1>7, <2>1, <2>2, <2>3
<1>10. RankOn(rank2, bound) /\ rank2[x] = rank[r.id] /\ \A y \in Nat : y # x => rank2[y] = rank[y]
  <2>1. rank \in [Nat -> 0 .. bound] /\ rank[0] = 0
    BY DEF RankOn
  <2> QED
    BY <1>2, <1>3, <2>1 DEF RankOn
<1>11. Ranked(own2, rank2)
  <2> SUFFICES ASSUME NEW q \in DOMAIN own2, q # 0, q # -1, NEW j \in DOMAIN own2[q]
               PROVE  rank2[own2[q][j].id] < rank2[q]
    BY DEF Ranked
  <2> HIDE DEF rank2
  <2>0. \A a \in DOMAIN own : a # 0 /\ a # -1 => a \in Nat /\ \A b \in DOMAIN own[a] : rank[own[a][b].id] < rank[a]
    <3>1. ASSUME NEW a \in DOMAIN own, a # 0, a # -1 PROVE a \in Nat
      BY <3>1, OwnHolders DEF own, Core, Loose
    <3> QED
      BY <1>13, <3>1 DEF Ranked
  <2>1. CASE q = p /\ j = i /\ own2[q][j] = w.ref
    <3>1. rank[r.id] < rank[p] /\ p \in Nat
      BY <1>13, <2>0, <2>1
    <3>2. rank2[p] = rank[p]
      BY <1>3, <1>10, <1>13, <3>1
    <3> QED
      BY <1>10, <2>1, <3>1, <3>2 DEF x
  <2>2. CASE q = x /\ q # r.id /\ j \in DOMAIN K /\ own2[q][j] = K[j]
    <3>1. r.id # 0
      BY <1>12, <2>2
    <3>2. rank[K[j].id] < rank[r.id] /\ K[j].id \in Nat /\ (K[j].id # 0 => K[j].id \in DOMAIN h)
      BY <1>5, <1>6, <2>0, <2>2, <3>1
    <3>3. K[j].id # x
      BY <1>3, <2>2, <3>2
    <3> QED
      BY <1>10, <2>2, <3>2, <3>3
  <2>3. CASE q \in DOMAIN own /\ j \in DOMAIN own[q] /\ own2[q][j] = own[q][j] /\ (q # p \/ j # i)
    <3>1. q \in Nat /\ rank[own[q][j].id] < rank[q] /\ own[q][j].id \in Nat
      BY <1>5, <2>0, <2>3
    <3>2. rank2[q] = rank[q]
      BY <1>3, <1>10, <2>3, <3>1
    <3>3. rank2[own[q][j].id] = rank[own[q][j].id]
      BY <1>3, <1>5, <1>10, <2>3, <3>1
    <3> QED
      BY <2>3, <3>1, <3>2, <3>3
  <2> QED
    BY <1>7, <2>1, <2>2, <2>3
<1> QED
  BY <1>9, <1>10, <1>11 DEF own2, x, Joined, Ranking

-----------------------------------------------------------------------------
(* Release.                                                                *)

\* Nobody holds more than is counted.
LEMMA HeldIsCounted ==
    ASSUME NEW h, NEW rs, NEW hd, NEW dr, Core(h, rs, hd, dr), NEW p \in DOMAIN Own(h, rs, hd, dr)
    PROVE  Counted(h, Own(h, rs, hd, dr)[p])
<1> DEFINE own == Own(h, rs, hd, dr)
<1> SUFFICES ASSUME NEW id \in Nat \ {0} PROVE Times(id, own[p]) <= Refs(h, id)
  BY DEF Counted
<1>1. Loose(h, rs, hd, dr) /\ Due(h, rs, hd, dr, id) = 0
  BY DEF Core
<1>2. Refs(h, id) \in Nat /\ Tally(own, id) \in Nat /\ IsFiniteSet(Into(own, id)) /\ Lists(own)
  BY <1>1, DueType
<1>3. Refs(h, id) = Tally(own, id)
  BY <1>1, <1>2 DEF Due
<1> HIDE DEF own
<1>4. Times(id, own[p]) \in Nat /\ Tally(Without(own, p), id) \in Nat
      /\ Tally(Without(own, p), id) = Tally(own, id) - Times(id, own[p])
  BY <1>2, TallyWithout DEF own
<1> QED
  BY <1>2, <1>3, <1>4

\* A node that was freed lets go of its children.
LetsGo(h, rs, hd, dr, p, h2, dr2) ==
    /\ Core(h2, rs, hd, dr2) /\ Own(h2, rs, hd, dr2) = Without(Own(h, rs, hd, dr), p)
    /\ DOMAIN h2 = DOMAIN h /\ \A id \in DOMAIN h : h2[id].node = h[id].node
LEMMA ReleaseCore ==
    ASSUME NEW h, NEW rs, NEW hd, NEW dr, Core(h, rs, hd, dr), NEW p \in dr,
           NEW h2, h2 = Released(h, h[p].node.kids),
           NEW dr2, dr2 = (dr \ {p}) \cup Freed(h, h[p].node.kids)
    PROVE  LetsGo(h, rs, hd, dr, p, h2, dr2)
<1> DEFINE K == h[p].node.kids  own == Own(h, rs, hd, dr)  mid == WithFreed(dr, h, K)
           rest == LeftOf(mid, p)
<1>1. Loose(h, rs, hd, dr) /\ DroppedOK(h, dr) /\ \A id \in Nat \ {0} : Due(h, rs, hd, dr, id) = 0
  BY DEF Core, Loose
<1>2. p \in DOMAIN own /\ own[p] = K /\ IsList(K) /\ p \in DOMAIN h
  BY KidsAlive DEF AllShaped
<1>3. Counted(h, K)
  BY <1>2, HeldIsCounted
<1>4. h2 = Released(h, K) /\ dr2 = LeftOf(mid, p) /\ p \in mid
  <2>1. p \notin Freed(h, K)
    BY <1>1 DEF DroppedOK, Freed
  <2> QED
    BY <2>1 DEF WithFreed, LeftOf
<1>5. mid = WithFreed(dr, h, K) /\ rest = LeftOf(mid, p) /\ dr2 = rest
  BY <1>4
<1> HIDE DEF K, mid, rest
<1>6. Loose(h2, rs, hd, mid) /\ Own(h2, rs, hd, mid) = own
  BY <1>1, <1>2, <1>3, <1>4, <1>5, StepRelease
<1>7. DOMAIN h2 = DOMAIN h
  BY <1>1, <1>2, <1>3, <1>4, <1>5, StepRelease
<1>8. \A id \in DOMAIN h : h2[id].node = h[id].node
  BY <1>1, <1>2, <1>3, <1>4, <1>5, StepRelease
<1>9. ASSUME NEW id \in Nat \ {0}
      PROVE  Due(h2, rs, hd, mid, id) = Due(h, rs, hd, dr, id) - Times(id, K)
  BY <1>1, <1>2, <1>3, <1>4, <1>5, StepRelease
<1>10. h2[p].node.kids = K
  BY <1>2, <1>8 DEF K
<1>11. Loose(h2, rs, hd, rest) /\ Own(h2, rs, hd, rest) = Without(Own(h2, rs, hd, mid), p)
  BY <1>4, <1>5, <1>6, StepDropped
<1>12. ASSUME NEW id \in Nat \ {0} PROVE Due(h2, rs, hd, rest, id) = 0
  <2>1. /\ Times(id, h2[p].node.kids) \in Nat
        /\ Due(h2, rs, hd, rest, id) = Due(h2, rs, hd, mid, id) + Times(id, h2[p].node.kids)
    BY <1>4, <1>5, <1>6, StepDropped
  <2> QED
    BY <1>1, <1>9, <1>10, <2>1
<1>13. Core(h2, rs, hd, dr2)
  BY <1>5, <1>11, <1>12 DEF Core
<1> QED
  BY <1>5, <1>6, <1>7, <1>8, <1>11, <1>13 DEF LetsGo

-----------------------------------------------------------------------------
(* The invariant: every reference is counted; some subtrees only the tree   *)
(* that is edited, or the parser, may reach; and no subtree holds itself.   *)

RootsOf(trs) == [t \in DOMAIN trs |-> trs[t].root]
TreesOK(trs) == IsList(trs) /\ \A t \in DOMAIN trs : "root" \in DOMAIN trs[t]
Anchor(hd, jb) == IF jb.op = "edit" THEN <<0, jb.tree>> ELSE <<-1, Len(hd)>>

\* No operation is under way.
IdleOK(O, hd, jb) == jb = Idle /\ hd = <<>> /\ O = {}
\* What is still to be edited is in the tree, or below what only it may reach.
FrameOK(O, h, jb, f) ==
    \/ f.in = 0 /\ DOMAIN f.parts \subseteq {jb.tree}
    \/ f.in \in O /\ DOMAIN f.parts \subseteq DOMAIN h[f.in].node.kids
EditOK(O, h, trs, hd, dr, jb) ==
    /\ jb.op = "edit" /\ {"op", "tree", "stack"} \subseteq DOMAIN jb /\ dr = {} /\ hd = <<>>
    /\ jb.tree \in DOMAIN trs /\ IsList(jb.stack)
    /\ \A k \in DOMAIN jb.stack : FrameOK(O, h, jb, jb.stack[k])
\* What a parse has of the old tree is alive; the frames nest on its stack.
EntryOK(h, hd, f) ==
    /\ {"ref", "next", "base"} \subseteq DOMAIN f
    /\ Shaped(f.ref) /\ (f.ref.id # 0 => f.ref.id \in Alive(h))
    /\ f.next \in Nat \ {0} /\ f.base \in 1 .. Len(hd)
FramesOK(h, hd, frames) ==
    /\ IsList(frames) /\ \A k \in DOMAIN frames : EntryOK(h, hd, frames[k])
    /\ \A k, l \in DOMAIN frames : k <= l => frames[k].base <= frames[l].base
ParseOK(O, h, trs, hd, dr, jb) ==
    /\ jb.op = "parse" /\ {"op", "tree", "frames"} \subseteq DOMAIN jb /\ dr = {} /\ O = {}
    /\ jb.tree \in DOMAIN trs /\ hd # <<>> /\ FramesOK(h, hd, jb.frames)
\* What is balanced and what was rotated, only the parser may reach.
TurnedOK(O, h, rank, at, tree) ==
    LET kids == h[tree].node.kids  child == kids[1].id
    IN  /\ tree \in O /\ 1 \in DOMAIN kids /\ child \in O
        /\ Len(h[child].node.kids) >= 2 /\ Last(h[child].node.kids).id \in O
        /\ rank[at] < rank[tree]
BalanceOK(O, rank, h, hd, dr, jb) ==
    /\ jb.op = "balance" /\ hd # <<>>
    /\ {"op", "text", "ranges", "todo", "top", "round", "at", "left", "turned"} \subseteq DOMAIN jb
    /\ jb.todo \subseteq O /\ jb.top \in O \cup {0} /\ jb.at \in O \cup {0} /\ IsList(jb.turned)
    /\ \A k \in DOMAIN jb.turned : TurnedOK(O, h, rank, jb.at, jb.turned[k])
    /\ jb.top = 0 => jb.at = 0 /\ jb.turned = <<>>
    /\ dr # {} => O \subseteq {hd[Len(hd)].id} /\ jb.turned = <<>>
JobOK(O, rank, h, trs, hd, dr, jb) ==
    \/ IdleOK(O, hd, jb) \/ EditOK(O, h, trs, hd, dr, jb)
    \/ ParseOK(O, h, trs, hd, dr, jb) \/ BalanceOK(O, rank, h, hd, dr, jb)

Apart(own, O, anchor, rank, bound) ==
    Sole(own, O, anchor) /\ RankOn(rank, bound) /\ Ranked(own, rank)
Good(O, rank, bound, h, trs, hd, dr, jb) ==
    /\ Core(h, RootsOf(trs), hd, dr) /\ TreesOK(trs) /\ O \subseteq Alive(h)
    /\ Apart(Own(h, RootsOf(trs), hd, dr), O, Anchor(hd, jb), rank, bound)
    /\ JobOK(O, rank, h, trs, hd, dr, jb)
IInv == \E O, rank, bound : Good(O, rank, bound, heap, trees, held, dropped, job)

LEMMA RootsAppend ==
    ASSUME NEW trs, TreesOK(trs), NEW tree, "root" \in DOMAIN tree
    PROVE  /\ TreesOK(Append(trs, tree)) /\ RootsOf(Append(trs, tree)) = Append(RootsOf(trs), tree.root)
           /\ IsList(RootsOf(trs)) /\ Len(RootsOf(trs)) = Len(trs) /\ Len(trs) \in Nat
           /\ DOMAIN Append(trs, tree) = DOMAIN trs \cup {Len(trs) + 1}
           /\ \A t \in DOMAIN trs : Append(trs, tree)[t] = trs[t]
<1> DEFINE n == Len(trs)  a == Append(trs, tree)  rs == RootsOf(trs)  ar == Append(rs, tree.root)
<1>1. n \in Nat /\ DOMAIN trs = 1 .. n
  BY ListIsSeq DEF TreesOK
<1>2. IsList(a) /\ DOMAIN a = 1 .. n + 1 /\ (\A i \in 1 .. n : a[i] = trs[i]) /\ a[n + 1] = tree
  BY ListAppend DEF TreesOK
<1>3. IsList(rs) /\ Len(rs) = n /\ DOMAIN rs = 1 .. n
  <2>1. rs = [t \in 1 .. n |-> rs[t]]
    BY <1>1 DEF RootsOf
  <2> HIDE DEF rs
  <2> QED
    BY <1>1, <2>1, FunctionIsList
<1>4. DOMAIN ar = 1 .. n + 1 /\ (\A i \in 1 .. n : ar[i] = rs[i]) /\ ar[n + 1] = tree.root
      /\ IsList(ar) /\ Len(ar) = n + 1
  <2> HIDE DEF rs, n
  <2> QED
    BY <1>3, ListAppend
<1>5. \A i \in 1 .. n + 1 : i = n + 1 \/ i \in 1 .. n
  BY <1>1
<1>6. \A i \in 1 .. n : rs[i] = trs[i].root
  BY <1>1 DEF RootsOf
<1> HIDE DEF a, rs, ar, n
<1>7. RootsOf(a) = ar
  <2>1. ar = [i \in 1 .. n + 1 |-> ar[i]]
    <3>1. ar \in Seq({ar[i] : i \in DOMAIN ar})
      BY <1>4 DEF IsList
    <3> QED
      BY <1>4, <3>1
  <2>2. \A i \in 1 .. n + 1 : a[i].root = ar[i]
    BY <1>2, <1>4, <1>5, <1>6
  <2> QED
    BY <1>2, <2>1, <2>2 DEF RootsOf
<1>8. TreesOK(a)
  BY <1>1, <1>2, <1>5 DEF TreesOK
<1>9. 1 .. n + 1 = 1 .. n \cup {n + 1}
  BY <1>1
<1> QED
  BY <1>1, <1>2, <1>3, <1>7, <1>8, <1>9 DEF a, rs, ar, n

LEMMA RootsExcept ==
    ASSUME NEW trs, TreesOK(trs), NEW t \in DOMAIN trs, NEW r
    PROVE  /\ TreesOK([trs EXCEPT ![t].root = r])
           /\ DOMAIN [trs EXCEPT ![t].root = r] = DOMAIN trs
           /\ RootsOf([trs EXCEPT ![t].root = r]) = [RootsOf(trs) EXCEPT ![t] = r]
<1> DEFINE e == [trs[t] EXCEPT !.root = r]  trs2 == [trs EXCEPT ![t] = e]
<1>1. IsList(trs2) /\ DOMAIN trs2 = DOMAIN trs
  BY ListExcept DEF TreesOK
<1>2. e.root = r /\ "root" \in DOMAIN e
  BY DEF TreesOK
<1>3. trs2 = [trs EXCEPT ![t].root = r]
  OBVIOUS
<1> HIDE DEF e
<1>4. TreesOK(trs2)
  BY <1>1, <1>2 DEF TreesOK
<1>5. RootsOf(trs2) = [RootsOf(trs) EXCEPT ![t] = r]
  BY <1>1, <1>2 DEF RootsOf
<1> QED
  BY <1>1, <1>3, <1>4, <1>5

\* Fewer references are as far apart.
LEMMA FewerApart ==
    ASSUME NEW own, NEW own2, NEW O, NEW O2, NEW anchor, NEW rank, NEW bound, Apart(own, O, anchor, rank, bound),
           \A p \in DOMAIN own2 : p \in DOMAIN own /\ own2[p] = own[p],
           O2 = O
    PROVE  Apart(own2, O2, anchor, rank, bound)
  BY DEF Apart, Sole, Ranked

-----------------------------------------------------------------------------
(* Each action keeps the invariant.                                         *)

LEMMA ReleaseStepGood ==
    ASSUME NEW O, NEW rank, NEW bound, Good(O, rank, bound, heap, trees, held, dropped, job), ReleaseStep
    PROVE  Good(O, rank, bound, heap', trees', held', dropped', job')
<1> DEFINE rs == RootsOf(trees)  own == Own(heap, rs, held, dropped)  own2 == Own(heap', rs, held, dropped')
<1>1. PICK id \in dropped :
         /\ heap' = Released(heap, heap[id].node.kids)
         /\ dropped' = (dropped \ {id}) \cup Freed(heap, heap[id].node.kids)
  BY DEF ReleaseStep
<1>2. trees' = trees /\ held' = held /\ job' = job
  BY DEF ReleaseStep
<1>3. Core(heap, rs, held, dropped) /\ TreesOK(trees) /\ O \subseteq Alive(heap)
      /\ Apart(own, O, Anchor(held, job), rank, bound) /\ JobOK(O, rank, heap, trees, held, dropped, job)
  BY DEF Good
<1> HIDE DEF rs
<1>4. LetsGo(heap, rs, held, dropped, id, heap', dropped')
  BY <1>1, <1>3, ReleaseCore
<1>5. Core(heap', rs, held, dropped') /\ own2 = Without(own, id)
  BY <1>4 DEF LetsGo
<1>6. Apart(own2, O, Anchor(held, job), rank, bound)
  <2>1. \A p \in DOMAIN own2 : p \in DOMAIN own /\ own2[p] = own[p]
    BY <1>5 DEF Without
  <2> HIDE DEF own, own2
  <2> QED
    BY <1>3, <2>1, FewerApart
<1>7. CASE IdleOK(O, held, job)
  <2>1. O \subseteq Alive(heap') /\ JobOK(O, rank, heap', trees, held, dropped', job)
    BY <1>7 DEF IdleOK, JobOK
  <2> QED
    BY <1>2, <1>3, <1>5, <1>6, <2>1 DEF Good, rs
<1>8. CASE BalanceOK(O, rank, heap, held, dropped, job)
  <2>1. O \subseteq {held[Len(held)].id} /\ job.turned = <<>>
    BY <1>8 DEF BalanceOK
  <2>2. BalanceOK(O, rank, heap', held, dropped', job)
    <3>1. DOMAIN job.turned = {}
      BY <2>1, EmptyIsList
    <3> QED
      BY <1>8, <2>1, <3>1 DEF BalanceOK
  <2>3. O \subseteq Alive(heap')
    <3> SUFFICES ASSUME NEW x \in O PROVE x \in Alive(heap')
      OBVIOUS
    <3>1. x # 0 /\ x = held[Len(held)].id
      BY <1>3, <2>1 DEF Apart, Sole
    <3>2. own2[-1] = held /\ -1 \in DOMAIN own2
      BY DEF Own
    <3>3. Len(held) \in DOMAIN held
      <4>1. AllShaped(held) /\ held # <<>>
        BY <1>5, <1>8, <3>2 DEF BalanceOK, Core, Loose, Holding
      <4> QED
        BY <4>1, ListFront DEF AllShaped
    <3> QED
      BY <1>5, <3>1, <3>2, <3>3, ThereIsAlive
  <2> QED
    BY <1>2, <1>3, <1>5, <1>6, <2>2, <2>3 DEF Good, JobOK, rs
<1>9. ~EditOK(O, heap, trees, held, dropped, job) /\ ~ParseOK(O, heap, trees, held, dropped, job)
  BY <1>1 DEF EditOK, ParseOK
<1> QED
  BY <1>3, <1>7, <1>8, <1>9 DEF JobOK

\* An edit goes on to children.
LEMMA ChildEditsDomain ==
    ASSUME NEW self, NEW padding, NEW children, NEW e
    PROVE  DOMAIN ChildEdits(self, padding, children, e) \subseteq DOMAIN children
<1> DEFINE lefts == [i \in DOMAIN children |-> RightOf(children, i - 1)]
           rights == [i \in DOMAIN children |-> RightOf(children, i)]
           reached == Reached(lefts, rights, children, e)
<1>1. reached \subseteq DOMAIN children
  BY DEF Reached
<1>2. DOMAIN ChildEdits(self, padding, children, e) \subseteq reached
  BY DEF ChildEdits
<1> QED
  BY <1>1, <1>2

LEMMA PushedOK ==
    ASSUME NEW O, NEW h, NEW jb, NEW stack, NEW frame, IsList(stack),
           \A k \in DOMAIN stack : FrameOK(O, h, jb, stack[k]), FrameOK(O, h, jb, frame)
    PROVE  /\ IsList(Pushed(stack, frame))
           /\ \A k \in DOMAIN Pushed(stack, frame) : FrameOK(O, h, jb, Pushed(stack, frame)[k])
<1>1. CASE DOMAIN frame.parts = {}
  BY <1>1 DEF Pushed
<1>2. CASE DOMAIN frame.parts # {}
  <2>1. IsList(Append(stack, frame)) /\ DOMAIN Append(stack, frame) = 1 .. Len(stack) + 1
        /\ (\A i \in 1 .. Len(stack) : Append(stack, frame)[i] = stack[i])
        /\ Append(stack, frame)[Len(stack) + 1] = frame /\ Len(stack) \in Nat /\ DOMAIN stack = 1 .. Len(stack)
    BY ListAppend, ListIsSeq
  <2>2. \A k \in 1 .. Len(stack) + 1 : k = Len(stack) + 1 \/ k \in 1 .. Len(stack)
    BY <2>1
  <2> HIDE DEF FrameOK
  <2>3. ASSUME NEW k \in DOMAIN Append(stack, frame) PROVE FrameOK(O, h, jb, Append(stack, frame)[k])
    BY <2>1, <2>2
  <2> QED
    BY <1>2, <2>1, <2>3 DEF Pushed
<1> QED
  BY <1>1, <1>2

\* Which operation is under way.
LEMMA WhichJob ==
    ASSUME NEW O, NEW rank, NEW h, NEW trs, NEW hd, NEW dr, NEW jb, JobOK(O, rank, h, trs, hd, dr, jb)
    PROVE  /\ jb.op = "none" => IdleOK(O, hd, jb)
           /\ jb.op = "edit" => EditOK(O, h, trs, hd, dr, jb)
           /\ jb.op = "parse" => ParseOK(O, h, trs, hd, dr, jb)
           /\ jb.op = "balance" => BalanceOK(O, rank, h, hd, dr, jb)
  BY DEF JobOK, IdleOK, Idle, EditOK, ParseOK, BalanceOK

LEMMA EditStepGood ==
    ASSUME NEW O, NEW rank, NEW bound, Good(O, rank, bound, heap, trees, held, dropped, job), EditStep
    PROVE  /\ \E O2, rank2 : Good(O2, rank2, bound, heap', trees', held', dropped', job')
           /\ \E W : /\ Sole(Own(heap, RootsOf(trees), held, dropped), W, <<0, job.tree>>)
                     /\ \A id \in DOMAIN heap : id \notin W => heap'[id].node = heap[id].node
           /\ \A t \in DOMAIN trees : t # job.tree => trees'[t].root = trees[t].root
<1> DEFINE rs == RootsOf(trees)  own == Own(heap, rs, held, {})  anchor == <<0, job.tree>>
           top == Last(job.stack)  p == top.in  front == Front(job.stack)
<1>1. /\ Core(heap, rs, held, dropped) /\ TreesOK(trees) /\ O \subseteq Alive(heap)
      /\ Apart(Own(heap, rs, held, dropped), O, Anchor(held, job), rank, bound)
      /\ EditOK(O, heap, trees, held, dropped, job) /\ job.op = "edit" /\ dropped = {}
  <2>1. job.op = "edit" /\ dropped = {}
    BY DEF EditStep, Doing
  <2>2. Core(heap, rs, held, dropped) /\ TreesOK(trees) /\ O \subseteq Alive(heap)
        /\ Apart(Own(heap, rs, held, dropped), O, Anchor(held, job), rank, bound)
        /\ JobOK(O, rank, heap, trees, held, dropped, job)
    BY DEF Good
  <2>3. EditOK(O, heap, trees, held, dropped, job)
    BY <2>1, <2>2, WhichJob
  <2> QED
    BY <2>1, <2>2, <2>3
<1>2. /\ held' = held /\ dropped' = {} /\ job.stack # <<>> /\ Core(heap, rs, held, {})
      /\ Sole(own, O, anchor) /\ RankOn(rank, bound) /\ Ranked(own, rank) /\ Anchor(held, job) = anchor
  <2>1. held' = held /\ dropped' = dropped /\ job.stack # <<>>
    BY DEF EditStep
  <2>2. Own(heap, rs, held, dropped) = own /\ Core(heap, rs, held, {}) /\ dropped' = {}
    BY <1>1, <2>1
  <2>3. Anchor(held, job) = anchor
    BY <1>1 DEF Anchor
  <2> HIDE DEF own, anchor, rs
  <2>4. Apart(own, O, anchor, rank, bound)
    BY <1>1, <2>2, <2>3
  <2> QED
    BY <2>1, <2>2, <2>3, <2>4 DEF Apart
<1>3. /\ IsList(job.stack) /\ (\A k \in DOMAIN job.stack : FrameOK(O, heap, job, job.stack[k]))
      /\ {"op", "tree", "stack"} \subseteq DOMAIN job /\ job.tree \in DOMAIN trees /\ held = <<>>
  BY <1>1 DEF EditOK
<1>4. FrameOK(O, heap, job, top) /\ IsList(front) /\ \A k \in DOMAIN front : FrameOK(O, heap, job, front[k])
  <2>1. /\ Last(job.stack) = job.stack[Len(job.stack)] /\ Len(job.stack) \in DOMAIN job.stack
        /\ IsList(Front(job.stack)) /\ Len(job.stack) - 1 \in Nat
        /\ DOMAIN Front(job.stack) = 1 .. Len(job.stack) - 1
        /\ \A i \in 1 .. Len(job.stack) - 1 : Front(job.stack)[i] = job.stack[i]
    BY <1>2, <1>3, ListFront
  <2>2. DOMAIN job.stack = 1 .. Len(job.stack) /\ Len(job.stack) \in Nat
    BY <1>3, ListIsSeq
  <2>3. \A k \in 1 .. Len(job.stack) - 1 : k \in 1 .. Len(job.stack)
    BY <2>2
  <2> QED
    BY <1>3, <2>1, <2>2, <2>3
<1> HIDE DEF rs, front
<1>5. PICK i \in DOMAIN top.parts : EditChild(top, i)
  BY DEF EditStep
<1> DEFINE e == top.parts[i]
           r == RefIn(p, i)
           self == Deref(heap, r)
           shifted == Shifted(self, e)
           w == Rewrite(heap, r, shifted.padding, shifted.size)
           parts == ChildEdits(self, shifted.padding, Seen(heap, self.kids), e)
           left == Frame(p, [j \in DOMAIN top.parts \ {i} |-> top.parts[j]])
           rest == Pushed(front, left)
           K == self.kids
<1>6. FrameOK(O, heap, job, left) /\ left.in = p
  <2>1. left.in = top.in /\ DOMAIN left.parts \subseteq DOMAIN top.parts
    BY DEF Frame
  <2> HIDE DEF left, top
  <2> QED
    BY <1>4, <2>1 DEF FrameOK
<1>7. IsList(rest) /\ \A k \in DOMAIN rest : FrameOK(O, heap, job, rest[k])
  <2> HIDE DEF left
  <2> QED
    BY <1>4, <1>6, PushedOK
<1>8. /\ p \in DOMAIN own /\ i \in DOMAIN own[p] /\ r = own[p][i] /\ (p \in O \/ <<p, i>> = anchor)
      /\ (p = 0 /\ i \in DOMAIN rs) \/ (p \in Alive(heap) /\ i \in DOMAIN heap[p].node.kids)
      /\ r = IF p = 0 THEN rs[i] ELSE heap[p].node.kids[i]
  <2>1. \/ p = 0 /\ i = job.tree
        \/ p \in O /\ i \in DOMAIN heap[p].node.kids
    BY <1>4 DEF FrameOK
  <2>2. CASE p = 0 /\ i = job.tree
    <3>2. own[0] = rs /\ 0 \in DOMAIN own
      BY OwnEnds
    <3>1. own[0] = rs /\ 0 \in DOMAIN own /\ i \in DOMAIN rs /\ rs[i] = trees[i].root
      BY <1>3, <2>2, <3>2 DEF RootsOf, rs
    <3> HIDE DEF top, own
    <3> QED
      BY <2>2, <3>1 DEF RefIn
  <2>3. CASE p \in O /\ i \in DOMAIN heap[p].node.kids
    <3>1. p \in Alive(heap)
      BY <1>1, <2>3
    <3>2. p \in DOMAIN own /\ own[p] = heap[p].node.kids /\ p # 0
      BY <1>2, <3>1, KidsAlive
    <3> HIDE DEF top, own
    <3> QED
      BY <2>3, <3>1, <3>2 DEF RefIn
  <2> QED
    BY <2>1, <2>2, <2>3
<1>9. /\ Rewritten(heap, rs, held, r, K, w)
      /\ r.id # 0 => r.id \in Alive(heap) /\ K = heap[r.id].node.kids
      /\ r.id = 0 => K = <<>>
  <2>1. Shaped(r) /\ (r.id # 0 => r.id \in Alive(heap))
    BY <1>2, <1>8, ThereIsAlive
  <2>2. CASE r.id = 0
    <3>1. Inlined(r.leaf) /\ K = <<>>
      BY <2>1, <2>2 DEF Shaped, Inlined, Deref
    <3> HIDE DEF r, shifted, K
    <3>2. Rewritten(heap, rs, held, r, <<>>, w)
      BY <1>2, <2>2, <3>1, RewriteInline
    <3> QED
      BY <2>2, <3>1, <3>2
  <2>3. CASE r.id # 0
    <3>1. K = heap[r.id].node.kids /\ r.id \in Alive(heap)
      BY <2>1, <2>3 DEF Deref
    <3> HIDE DEF r, shifted, K
    <3>2. Rewritten(heap, rs, held, r, heap[r.id].node.kids, w)
      BY <1>2, <3>1, RewriteNode
    <3> QED
      BY <2>3, <3>1, <3>2
  <2> QED
    BY <2>2, <2>3
<1>10. DOMAIN parts \subseteq DOMAIN K
  <2>1. DOMAIN parts \subseteq DOMAIN Seen(heap, K)
    BY ChildEditsDomain
  <2>2. DOMAIN Seen(heap, K) = DOMAIN K
    BY DEF Seen
  <2> QED
    BY <2>1, <2>2
<1>11. IF Misses(self, e)
       THEN job' = [job EXCEPT !.stack = rest] /\ UNCHANGED <<heap, trees>>
       ELSE /\ job' = [job EXCEPT !.stack = Pushed(rest, Frame(w.ref.id, parts))]
            /\ heap' = IF p = 0 THEN w.heap ELSE [w.heap EXCEPT ![p].node.kids[i] = w.ref]
            /\ trees' = IF p = 0 THEN [trees EXCEPT ![i].root = w.ref] ELSE trees
  BY <1>5, Zenon DEF EditChild, front, WithKid
<1> HIDE DEF top, p, e, r, self, shifted, w, parts, left, rest, K, own
<1>12. CASE Misses(self, e)
  <2>1. /\ job'.op = "edit" /\ job'.tree = job.tree /\ job'.stack = rest
        /\ {"op", "tree", "stack"} \subseteq DOMAIN job' /\ heap' = heap /\ trees' = trees
    BY <1>1, <1>3, <1>11, <1>12
  <2>2. \A k \in DOMAIN rest : FrameOK(O, heap', job', rest[k])
    BY <1>7, <2>1 DEF FrameOK
  <2>3. EditOK(O, heap', trees', held', dropped', job') /\ Anchor(held', job') = anchor
    BY <1>2, <1>3, <1>7, <2>1, <2>2 DEF EditOK, Anchor
  <2>4. Good(O, rank, bound, heap', trees', held', dropped', job')
    BY <1>1, <1>2, <2>1, <2>3 DEF Good, JobOK, rs, own, Apart
  <2> QED
    BY <1>1, <1>2, <2>1, <2>4 DEF own, rs
<1>13. CASE ~Misses(self, e)
  <2> DEFINE x == w.ref.id  O2 == Joined(O, x)  rank2 == Ranking(rank, x, r.id)
             rs2 == RootsOf(trees')  own2 == Own(heap', rs2, held, {})
  <2>1. /\ job'.op = "edit" /\ job'.tree = job.tree /\ job'.stack = Pushed(rest, Frame(x, parts))
        /\ {"op", "tree", "stack"} \subseteq DOMAIN job'
    BY <1>1, <1>3, <1>11, <1>13
  <2>2. rs2 = IF p = 0 THEN [rs EXCEPT ![i] = w.ref] ELSE rs
    <3>5. 0 \notin Alive(heap) /\ DOMAIN rs = DOMAIN trees
      BY <1>2, HeapIds DEF rs, RootsOf, Alive, Core, Loose
    <3>1. p = 0 => i \in DOMAIN trees
      BY <1>8, <3>5
    <3>2. trees' = IF p = 0 THEN [trees EXCEPT ![i].root = w.ref] ELSE trees
      BY <1>11, <1>13
    <3>3. CASE p = 0
      <4>1. RootsOf([trees EXCEPT ![i].root = w.ref]) = [RootsOf(trees) EXCEPT ![i] = w.ref]
        BY <1>1, <3>1, <3>3, RootsExcept
      <4> QED
        BY <3>2, <3>3, <4>1 DEF rs
    <3>4. CASE p # 0
      BY <3>2, <3>4 DEF rs
    <3> QED
      BY <3>3, <3>4
  <2>3. TreesOK(trees') /\ DOMAIN trees' = DOMAIN trees
        /\ \A t \in DOMAIN trees : t # job.tree => trees'[t].root = trees[t].root
    <3>1. trees' = IF p = 0 THEN [trees EXCEPT ![i].root = w.ref] ELSE trees
      BY <1>11, <1>13
    <3>2. CASE p = 0
      <4>1. i = job.tree
        <5>1. 0 \notin O
          BY <1>2 DEF Sole
        <5> QED
          BY <1>8, <3>2, <5>1
      <4>2. TreesOK(trees') /\ DOMAIN trees' = DOMAIN trees
        BY <1>1, <1>3, <3>1, <3>2, <4>1, RootsExcept
      <4>3. \A t \in DOMAIN trees : t # i => trees'[t] = trees[t]
        BY <3>1, <3>2
      <4> QED
        BY <4>1, <4>2, <4>3
    <3>3. CASE p # 0
      BY <1>1, <3>1, <3>3
    <3> QED
      BY <3>2, <3>3
  <2>4. heap' = IF p = 0 THEN w.heap ELSE [w.heap EXCEPT ![p].node.kids[i] = w.ref]
    BY <1>11, <1>13
  <2> HIDE DEF rs2
  <2>5. Placed(heap, rs, held, p, i, r, K, w, heap', rs2)
    BY <1>2, <1>8, <1>9, <2>2, <2>4, EditPlaces
  <2>6. \E W : /\ O \subseteq W /\ Sole(own, W, anchor)
               /\ \A id \in DOMAIN heap : id \notin W => heap'[id].node = heap[id].node
    <3>1. anchor[1] = 0
      OBVIOUS
    <3> HIDE DEF anchor
    <3> QED
      BY <1>2, <1>8, <1>9, <2>5, <3>1, EditSole DEF own
  <2>7. Sole(own2, O2, anchor) /\ RankOn(rank2, bound) /\ Ranked(own2, rank2)
    <3> HIDE DEF anchor
    <3> QED
      BY <1>1, <1>2, <1>8, <1>9, <2>5, EditSoleAfter DEF own
  <2>8. Core(heap', rs2, held, {}) /\ O2 \subseteq Alive(heap')
    BY <1>1, <2>5 DEF Placed, Joined
  <2>14. O \subseteq O2 /\ (x # 0 => x \in O2)
    BY DEF Joined
  <2>9. \A k \in DOMAIN rest : FrameOK(O2, heap', job', rest[k])
    <3> HIDE DEF O2, x
    <3> SUFFICES ASSUME NEW f, FrameOK(O, heap, job, f) PROVE FrameOK(O2, heap', job', f)
      BY <1>7
    <3>1. CASE f.in = 0 /\ DOMAIN f.parts \subseteq {job.tree}
      BY <2>1, <3>1 DEF FrameOK
    <3>2. CASE f.in \in O /\ DOMAIN f.parts \subseteq DOMAIN heap[f.in].node.kids
      <4>1. f.in \in DOMAIN heap
        BY <1>1, <3>2 DEF Alive
      <4>2. DOMAIN heap'[f.in].node.kids = DOMAIN heap[f.in].node.kids
        BY <2>5, <4>1 DEF Placed
      <4> QED
        BY <2>14, <3>2, <4>2 DEF FrameOK
    <3> QED
      BY <3>1, <3>2 DEF FrameOK
  <2>10. FrameOK(O2, heap', job', Frame(x, parts))
    <3>1. Frame(x, parts).in = x /\ Frame(x, parts).parts = parts
      BY DEF Frame
    <3>2. CASE x = 0
      <4>1. DOMAIN K = {}
        BY <1>9, <3>2, EmptyIsList DEF Rewritten
      <4> QED
        BY <1>10, <3>1, <3>2, <4>1 DEF FrameOK
    <3>3. CASE x # 0
      <4>1. x \in O2 /\ DOMAIN heap'[x].node.kids = DOMAIN K
        BY <2>5, <2>14, <3>3 DEF Placed
      <4> QED
        BY <1>10, <3>1, <4>1 DEF FrameOK
    <3> QED
      BY <3>2, <3>3
  <2>11. IsList(job'.stack) /\ \A k \in DOMAIN job'.stack : FrameOK(O2, heap', job', job'.stack[k])
    <3> HIDE DEF O2, x
    <3> QED
      BY <1>7, <2>1, <2>9, <2>10, PushedOK
  <2>12. EditOK(O2, heap', trees', held', dropped', job') /\ Anchor(held', job') = anchor
    BY <1>2, <1>3, <2>1, <2>3, <2>11 DEF EditOK, Anchor
  <2> HIDE DEF O2, rank2
  <2>13. Good(O2, rank2, bound, heap', trees', held', dropped', job')
    BY <1>2, <2>3, <2>7, <2>8, <2>12 DEF Good, JobOK, Apart, rs2
  <2> QED
    BY <1>1, <1>2, <2>3, <2>6, <2>13 DEF own, rs
<1> QED
  BY <1>12, <1>13

LEMMA VisitGood ==
    ASSUME NEW O, NEW rank, NEW bound, Good(O, rank, bound, heap, trees, held, dropped, job), Visit
    PROVE  Good(O, rank, bound, heap', trees', held', dropped', job')
<1>1. /\ JobOK(O, rank, heap, trees, held, dropped, job)
      /\ Apart(Own(heap, RootsOf(trees), held, dropped), O, Anchor(held, job), rank, bound)
  BY DEF Good
<1>2. /\ job.op = "balance" /\ dropped = {} /\ job.top = 0
      /\ heap' = heap /\ trees' = trees /\ held' = held /\ dropped' = dropped
  BY DEF Visit, Doing
<1>3. BalanceOK(O, rank, heap, held, dropped, job)
  BY <1>1, <1>2, WhichJob
<1>10. PICK id \in job.todo :
         LET kids == heap[id].node.kids
             delta == Deref(heap, kids[1]).depth - Deref(heap, Last(kids)).depth
             round == IF heap[id].node.depth > 0 /\ delta > 0 THEN delta \div 2 ELSE 0
         IN  job' = [job EXCEPT !.todo = @ \ {id}, !.top = id, !.at = id,
                                !.round = round, !.left = round]
  BY Zenon DEF Visit
<1>4. PICK round :
        job' = [job EXCEPT !.todo = @ \ {id}, !.top = id, !.at = id, !.round = round, !.left = round]
  BY <1>10, Zenon
<1>5. /\ job'.op = "balance" /\ job'.todo = job.todo \ {id} /\ job'.top = id /\ job'.at = id
      /\ job'.turned = job.turned /\ DOMAIN job' = DOMAIN job
  BY <1>2, <1>3, <1>4 DEF BalanceOK
<1>6. id \in O /\ job.turned = <<>> /\ held # <<>>
  BY <1>2, <1>3 DEF BalanceOK
<1>7. id # 0 /\ DOMAIN job.turned = {} /\ IsList(job.turned)
  BY <1>1, <1>6, EmptyIsList DEF Apart, Sole
<1>8. BalanceOK(O, rank, heap', held', dropped', job')
  BY <1>2, <1>3, <1>5, <1>6, <1>7 DEF BalanceOK
<1>9. Anchor(held', job') = Anchor(held, job)
  BY <1>2, <1>5 DEF Anchor
<1> QED
  BY <1>2, <1>8, <1>9 DEF Good, JobOK

\* What only the holder of its subtree may reach, joins it.
LEMMA SoleJoinsAll ==
    ASSUME NEW h, NEW rs, NEW hd, NEW dr, Core(h, rs, hd, dr),
           NEW O, NEW anchor, Sole(Own(h, rs, hd, dr), O, anchor), NEW p \in O, p \in Alive(h), NEW X,
           \A x \in X : /\ x \in DOMAIN h /\ h[x].refs = 1
                        /\ \E i \in DOMAIN h[p].node.kids : h[p].node.kids[i].id = x
    PROVE  Sole(Own(h, rs, hd, dr), O \cup X, anchor)
<1> DEFINE own == Own(h, rs, hd, dr)
<1>1. p \in DOMAIN own /\ own[p] = h[p].node.kids
  BY KidsAlive
<1>2. \A x \in DOMAIN h : x \in Nat \ {0}
  BY HeapIds DEF Core, Loose
<1>3. ASSUME NEW x \in X, NEW q \in DOMAIN own, NEW j \in DOMAIN own[q], own[q][j].id = x
      PROVE  q = p
  <2>1. PICK i \in DOMAIN own[p] : own[p][i].id = x
    BY <1>1
  <2> QED
    BY <1>1, <1>3, <2>1, OneHolder
<1> HIDE DEF own
<1>4. ASSUME NEW y \in O \cup X
      PROVE  /\ y \in Nat \ {0}
             /\ \A q \in DOMAIN own : \A j \in DOMAIN own[q] :
                  own[q][j].id = y => q \in O \cup X \/ <<q, j>> = anchor
  <2>1. CASE y \in X
    BY <1>2, <1>3, <2>1
  <2>2. CASE y \in O
    BY <2>2 DEF Sole, own
  <2> QED
    BY <2>1, <2>2
<1> QED
  BY <1>4 DEF Sole, own

LEMMA NextRoundGood ==
    ASSUME NEW O, NEW rank, NEW bound, Good(O, rank, bound, heap, trees, held, dropped, job), NextRound
    PROVE  \E O2 : Good(O2, rank, bound, heap', trees', held', dropped', job')
<1> DEFINE own == Own(heap, RootsOf(trees), held, dropped)  X == Owned(heap[job.top].node.kids)
<1>1. /\ JobOK(O, rank, heap, trees, held, dropped, job) /\ O \subseteq Alive(heap)
      /\ Core(heap, RootsOf(trees), held, dropped)
      /\ Apart(own, O, Anchor(held, job), rank, bound)
  BY DEF Good
<1>2. /\ job.op = "balance" /\ dropped = {} /\ job.top # 0 /\ job.turned = <<>>
      /\ heap' = heap /\ trees' = trees /\ held' = held /\ dropped' = dropped
  BY DEF NextRound, Doing
<1>3. BalanceOK(O, rank, heap, held, dropped, job)
  BY <1>1, <1>2, WhichJob
<1>4. job' = IF job.round > 0
             THEN [job EXCEPT !.round = @ \div 2, !.left = job.round \div 2, !.at = job.top]
             ELSE [job EXCEPT !.todo = @ \cup Owned(heap[job.top].node.kids), !.top = 0, !.at = 0]
  BY DEF NextRound
<1>5. job.top \in O /\ DOMAIN job.turned = {} /\ IsList(job.turned)
  BY <1>2, <1>3, EmptyIsList DEF BalanceOK
<1> HIDE DEF X, own
<1>6. CASE job.round > 0
  <2>1. /\ job'.op = "balance" /\ job'.todo = job.todo /\ job'.top = job.top /\ job'.at = job.top
        /\ job'.turned = job.turned /\ DOMAIN job' = DOMAIN job
    BY <1>2, <1>3, <1>4, <1>6 DEF BalanceOK
  <2>2. BalanceOK(O, rank, heap', held', dropped', job')
    BY <1>2, <1>3, <1>5, <2>1 DEF BalanceOK
  <2>3. Anchor(held', job') = Anchor(held, job)
    BY <1>2, <2>1 DEF Anchor
  <2> QED
    BY <1>2, <2>2, <2>3 DEF Good, JobOK
<1>7. CASE ~(job.round > 0)
  <2>1. /\ job'.op = "balance" /\ job'.todo = job.todo \cup X /\ job'.top = 0 /\ job'.at = 0
        /\ job'.turned = job.turned /\ DOMAIN job' = DOMAIN job
    BY <1>2, <1>3, <1>4, <1>7 DEF BalanceOK, X
  <2>2. BalanceOK(O \cup X, rank, heap', held', dropped', job')
    BY <1>2, <1>3, <1>5, <2>1 DEF BalanceOK
  <2>3. Anchor(held', job') = Anchor(held, job)
    BY <1>2, <2>1 DEF Anchor
  <2>4. job.top \in Alive(heap)
    BY <1>1, <1>5
  <2>5. ASSUME NEW x \in X
        PROVE  /\ x \in DOMAIN heap /\ heap[x].refs = 1 /\ x \in Alive(heap)
               /\ \E i \in DOMAIN heap[job.top].node.kids : heap[job.top].node.kids[i].id = x
    <3>1. x # 0 /\ heap[x].refs = 1
          /\ \E i \in DOMAIN heap[job.top].node.kids : heap[job.top].node.kids[i].id = x
      BY DEF X, Owned
    <3> QED
      BY <1>1, <2>4, <3>1, KidsAlive
  <2>6. Sole(own, O \cup X, Anchor(held, job))
    <3> DEFINE rs == RootsOf(trees)  anchor == Anchor(held, job)  p == job.top
    <3>1. Core(heap, rs, held, dropped) /\ Sole(Own(heap, rs, held, dropped), O, anchor)
      BY <1>1 DEF own, Apart
    <3>2. p \in O /\ p \in Alive(heap)
          /\ \A x \in X : /\ x \in DOMAIN heap /\ heap[x].refs = 1
                          /\ \E i \in DOMAIN heap[p].node.kids : heap[p].node.kids[i].id = x
      BY <1>5, <2>4, <2>5
    <3> HIDE DEF rs, anchor, p
    <3>3. Sole(Own(heap, rs, held, dropped), O \cup X, anchor)
      BY <3>1, <3>2, SoleJoinsAll
    <3> QED
      BY <3>3 DEF rs, anchor, own
  <2>7. Apart(own, O \cup X, Anchor(held, job), rank, bound) /\ O \cup X \subseteq Alive(heap)
    BY <1>1, <2>5, <2>6 DEF Apart
  <2> QED
    BY <1>2, <2>2, <2>3, <2>7 DEF Good, JobOK, own
<1> QED
  BY <1>6, <1>7

LEMMA EditEndGood ==
    ASSUME NEW O, NEW rank, NEW bound, Good(O, rank, bound, heap, trees, held, dropped, job), EditEnd
    PROVE  Good({}, rank, bound, heap', trees', held', dropped', job')
<1> DEFINE own == Own(heap, RootsOf(trees), held, dropped)
<1>1. /\ JobOK(O, rank, heap, trees, held, dropped, job) /\ Core(heap, RootsOf(trees), held, dropped)
      /\ TreesOK(trees) /\ RankOn(rank, bound) /\ Ranked(own, rank)
  BY DEF Good, Apart
<1>2. /\ job.op = "edit" /\ job' = Idle
      /\ heap' = heap /\ trees' = trees /\ held' = held /\ dropped' = dropped
  BY DEF EditEnd, Doing
<1>3. held = <<>>
  BY <1>1, <1>2, WhichJob DEF EditOK
<1>4. IdleOK({}, held', job')
  BY <1>2, <1>3 DEF IdleOK
<1> HIDE DEF own
<1>5. Apart(own, {}, Anchor(held', job'), rank, bound)
  BY <1>1 DEF Apart, Sole
<1> QED
  BY <1>1, <1>2, <1>4, <1>5 DEF Good, JobOK, own

\* References are told apart, and the roots and what the parser holds have no rank.
LEMMA ApartEnds ==
    ASSUME NEW own, NEW O, NEW anchor, NEW rank, NEW bound, Apart(own, O, anchor, rank, bound),
           NEW p, p = 0 \/ p = -1, NEW list, NEW own2, own2 = With(own, p, list), NEW anchor2
    PROVE  Apart(own2, {}, anchor2, rank, bound)
<1>1. Sole(own2, {}, anchor2)
  BY DEF Sole
<1>2. RankOn(rank, bound) /\ Ranked(own, rank)
  BY DEF Apart
<1>3. Ranked(own2, rank)
  BY <1>2 DEF Ranked, With
<1> QED
  BY <1>1, <1>2, <1>3 DEF Apart

\* A reference to what is alive is retained: it is due.
DueTo(h, rs, hd, dr, r) ==
    Loose(h, rs, hd, dr) /\ Shaped(r) /\ \A id \in Nat \ {0} : Due(h, rs, hd, dr, id) = Hit(r, id)
RetainsOne(h, rs, hd, dr, r, h2) ==
    /\ DueTo(h2, rs, hd, dr, r) /\ Own(h2, rs, hd, dr) = Own(h, rs, hd, dr)
    /\ DOMAIN h2 = DOMAIN h /\ Alive(h2) = Alive(h) /\ \A id \in DOMAIN h : h2[id].node = h[id].node
LEMMA RetainOne ==
    ASSUME NEW h, NEW rs, NEW hd, NEW dr, Core(h, rs, hd, dr),
           NEW r, Shaped(r), r.id # 0 => r.id \in Alive(h), NEW h2, h2 = Retained(h, <<r>>)
    PROVE  RetainsOne(h, rs, hd, dr, r, h2)
<1> DEFINE list == <<r>>
<1>1. IsList(list) /\ DOMAIN list = {1} /\ list[1] = r /\ \A id : Times(id, list) = Hit(r, id)
  BY TimesOne
<1>2. Loose(h, rs, hd, dr) /\ \A id \in Nat \ {0} : Due(h, rs, hd, dr, id) = 0
  BY DEF Core
<1>3. h2 = Retained(h, list) /\ \A i \in DOMAIN list : list[i].id # 0 => list[i].id \in Alive(h)
  BY <1>1
<1> HIDE DEF list
<1>4. Loose(h2, rs, hd, dr) /\ Own(h2, rs, hd, dr) = Own(h, rs, hd, dr)
  BY <1>1, <1>2, <1>3, StepRetain
<1>6. DOMAIN h2 = DOMAIN h /\ Alive(h2) = Alive(h)
  BY <1>1, <1>2, <1>3, StepRetain
<1>7. \A id \in DOMAIN h : h2[id].node = h[id].node
  BY <1>1, <1>2, <1>3, StepRetain
<1>5. ASSUME NEW id \in Nat \ {0} PROVE Due(h2, rs, hd, dr, id) = Hit(r, id)
  <2>1. Due(h2, rs, hd, dr, id) = Due(h, rs, hd, dr, id) + Times(id, list)
    BY <1>1, <1>2, <1>3, StepRetain
  <2>2. Hit(r, id) \in {0, 1}
    BY DEF Hit
  <2> QED
    BY <1>1, <1>2, <2>1, <2>2
<1> QED
  BY <1>4, <1>5, <1>6, <1>7 DEF RetainsOne, DueTo

\* What is due goes to a new tree, or to the parser.
LEMMA ShapedAppend ==
    ASSUME NEW list, AllShaped(list), NEW r, Shaped(r)
    PROVE  AllShaped(Append(list, r)) /\ \A id : Times(id, Append(list, r)) = Times(id, list) + Hit(r, id)
                                                 /\ Times(id, list) \in Nat /\ Hit(r, id) \in {0, 1}
<1>1. IsList(list) /\ Len(list) \in Nat /\ DOMAIN list = 1 .. Len(list)
  BY ListIsSeq DEF AllShaped
<1>2. /\ IsList(Append(list, r)) /\ DOMAIN Append(list, r) = 1 .. Len(list) + 1
      /\ \A i \in 1 .. Len(list) : Append(list, r)[i] = list[i]
      /\ Append(list, r)[Len(list) + 1] = r
  BY <1>1, ListAppend
<1>3. \A i \in 1 .. Len(list) + 1 : i = Len(list) + 1 \/ i \in 1 .. Len(list)
  BY <1>1
<1>4. \A i \in DOMAIN Append(list, r) : Shaped(Append(list, r)[i])
  BY <1>1, <1>2, <1>3 DEF AllShaped
<1> QED
  BY <1>1, <1>2, <1>4, TimesAppend, TimesType DEF AllShaped, Hit

Settled(h, rs, hd, dr, p, rs2, hd2) ==
    Core(h, rs2, hd2, dr) /\ Own(h, rs2, hd2, dr) = With(Own(h, rs, hd, dr), p, IF p = 0 THEN rs2 ELSE hd2)
LEMMA SettleRoots ==
    ASSUME NEW h, NEW rs, NEW hd, NEW dr, NEW r, DueTo(h, rs, hd, dr, r), NEW rs2, rs2 = Append(rs, r)
    PROVE  Settled(h, rs, hd, dr, 0, rs2, hd)
<1>1. Loose(h, rs, hd, dr) /\ Shaped(r) /\ \A id \in Nat \ {0} : Due(h, rs, hd, dr, id) = Hit(r, id)
  BY DEF DueTo
<1>2. AllShaped(rs)
  BY <1>1, OwnEnds DEF Loose, Holding
<1>3. AllShaped(rs2) /\ \A id : Times(id, rs2) = Times(id, rs) + Hit(r, id) /\ Times(id, rs) \in Nat
                                /\ Hit(r, id) \in {0, 1}
  BY <1>1, <1>2, ShapedAppend
<1>4. Loose(h, rs2, hd, dr) /\ Own(h, rs2, hd, dr) = With(Own(h, rs, hd, dr), 0, rs2)
  BY <1>1, <1>3, StepRoots
<1>5. ASSUME NEW id \in Nat \ {0} PROVE Due(h, rs2, hd, dr, id) = 0
  <2>1. Due(h, rs2, hd, dr, id) = Due(h, rs, hd, dr, id) + Times(id, rs) - Times(id, rs2)
    BY <1>1, <1>3, StepRoots
  <2> QED
    BY <1>1, <1>3, <2>1
<1> QED
  BY <1>4, <1>5 DEF Settled, Core
LEMMA SettleHeld ==
    ASSUME NEW h, NEW rs, NEW hd, NEW dr, NEW r, DueTo(h, rs, hd, dr, r), NEW hd2, hd2 = Append(hd, r)
    PROVE  Settled(h, rs, hd, dr, -1, rs, hd2)
<1>1. Loose(h, rs, hd, dr) /\ Shaped(r) /\ \A id \in Nat \ {0} : Due(h, rs, hd, dr, id) = Hit(r, id)
  BY DEF DueTo
<1>2. AllShaped(hd)
  BY <1>1, OwnEnds DEF Loose, Holding
<1>3. AllShaped(hd2) /\ \A id : Times(id, hd2) = Times(id, hd) + Hit(r, id) /\ Times(id, hd) \in Nat
                                /\ Hit(r, id) \in {0, 1}
  BY <1>1, <1>2, ShapedAppend
<1>4. Loose(h, rs, hd2, dr) /\ Own(h, rs, hd2, dr) = With(Own(h, rs, hd, dr), -1, hd2)
  BY <1>1, <1>3, StepHeld
<1>5. ASSUME NEW id \in Nat \ {0} PROVE Due(h, rs, hd2, dr, id) = 0
  <2>1. Due(h, rs, hd2, dr, id) = Due(h, rs, hd, dr, id) + Times(id, hd) - Times(id, hd2)
    BY <1>1, <1>3, StepHeld
  <2> QED
    BY <1>1, <1>3, <2>1
<1> QED
  BY <1>4, <1>5 DEF Settled, Core

\* No node and no tree there is has changed.
Kept == /\ \A id \in DOMAIN heap : heap'[id].node = heap[id].node
        /\ \A t \in DOMAIN trees : trees'[t].root = trees[t].root

\* Where no operation is under way.
LEMMA GoodIdle ==
    ASSUME NEW O, NEW rank, NEW bound, Good(O, rank, bound, heap, trees, held, dropped, job), Doing("none")
    PROVE  /\ Core(heap, RootsOf(trees), held, {}) /\ TreesOK(trees) /\ dropped = {} /\ held = <<>>
           /\ Apart(Own(heap, RootsOf(trees), held, {}), O, Anchor(held, job), rank, bound)
           /\ O = {} /\ job = Idle
<1>1. job.op = "none" /\ dropped = {}
  BY DEF Doing
<1>2. Core(heap, RootsOf(trees), held, dropped) /\ TreesOK(trees)
      /\ Apart(Own(heap, RootsOf(trees), held, dropped), O, Anchor(held, job), rank, bound)
      /\ JobOK(O, rank, heap, trees, held, dropped, job)
  BY DEF Good
<1>3. IdleOK(O, held, job)
  BY <1>1, <1>2, WhichJob
<1> QED
  BY <1>1, <1>2, <1>3 DEF IdleOK

\* The root of a tree.
LEMMA RootAlive ==
    ASSUME NEW h, NEW trs, NEW hd, NEW dr, Core(h, RootsOf(trs), hd, dr), NEW t \in DOMAIN trs
    PROVE  /\ Shaped(trs[t].root) /\ (trs[t].root.id # 0 => trs[t].root.id \in Alive(h))
           /\ t \in DOMAIN RootsOf(trs) /\ RootsOf(trs)[t] = trs[t].root
<1> DEFINE rs == RootsOf(trs)
<1>1. t \in DOMAIN rs /\ rs[t] = trs[t].root
  BY DEF RootsOf
<1> HIDE DEF rs
<1>2. 0 \in DOMAIN Own(h, rs, hd, dr) /\ Own(h, rs, hd, dr)[0] = rs
  BY OwnEnds
<1>3. Core(h, rs, hd, dr)
  BY DEF rs
<1>4. Shaped(rs[t]) /\ (rs[t].id # 0 => rs[t].id \in Alive(h))
  BY <1>1, <1>2, <1>3, ThereIsAlive
<1> QED
  BY <1>1, <1>4 DEF rs

LEMMA CopyGood ==
    ASSUME NEW O, NEW rank, NEW bound, Good(O, rank, bound, heap, trees, held, dropped, job),
           NEW t \in DOMAIN trees, Copy(t)
    PROVE  Good({}, rank, bound, heap', trees', held', dropped', job') /\ Kept
<1> DEFINE rs == RootsOf(trees)  r == trees[t].root  rs2 == RootsOf(trees')
<1>1. /\ Core(heap, rs, held, {}) /\ TreesOK(trees) /\ dropped = {} /\ held = <<>>
      /\ Apart(Own(heap, rs, held, {}), O, Anchor(held, job), rank, bound) /\ O = {} /\ job = Idle
  BY GoodIdle DEF Copy
<1>2. /\ heap' = Retained(heap, <<r>>) /\ trees' = Append(trees, trees[t])
      /\ held' = held /\ dropped' = {} /\ job' = job
  BY <1>1 DEF Copy
<1>3. Shaped(r) /\ (r.id # 0 => r.id \in Alive(heap))
  BY <1>1, RootAlive
<1>4. /\ TreesOK(trees') /\ rs2 = Append(rs, r) /\ \A u \in DOMAIN trees : trees'[u] = trees[u]
  <2>1. "root" \in DOMAIN trees[t]
    BY <1>1 DEF TreesOK
  <2> QED
    BY <1>1, <1>2, <2>1, RootsAppend
<1> HIDE DEF rs, r, rs2
<1>5. RetainsOne(heap, rs, held, {}, r, heap')
  BY <1>1, <1>2, <1>3, RetainOne
<1>6. Settled(heap', rs, held, {}, 0, rs2, held)
  BY <1>4, <1>5, SettleRoots DEF RetainsOne
<1>7. Core(heap', rs2, held, {}) /\ Own(heap', rs2, held, {}) = With(Own(heap, rs, held, {}), 0, rs2)
  BY <1>5, <1>6 DEF Settled, RetainsOne
<1>8. Apart(Own(heap', rs2, held, {}), {}, Anchor(held', job'), rank, bound)
  BY <1>1, <1>7, ApartEnds
<1>9. IdleOK({}, held', job')
  BY <1>1, <1>2 DEF IdleOK
<1>10. Good({}, rank, bound, heap', trees', held', dropped', job')
  BY <1>2, <1>4, <1>7, <1>8, <1>9 DEF Good, JobOK, rs2
<1>11. Kept
  BY <1>4, <1>5 DEF Kept, RetainsOne
<1> QED
  BY <1>10, <1>11

LEMMA EditGood ==
    ASSUME NEW O, NEW rank, NEW bound, Good(O, rank, bound, heap, trees, held, dropped, job),
           NEW t \in DOMAIN trees, NEW from, NEW to, NEW insert, Edit(t, from, to, insert)
    PROVE  Good({}, rank, bound, heap', trees', held', dropped', job') /\ Kept
<1> DEFINE rs == RootsOf(trees)
<1>0. Doing("none")
  BY Zenon DEF Edit
<1>1. /\ Core(heap, rs, held, {}) /\ TreesOK(trees) /\ dropped = {} /\ held = <<>>
      /\ Apart(Own(heap, rs, held, {}), O, Anchor(held, job), rank, bound) /\ O = {} /\ job = Idle
  BY <1>0, GoodIdle
<1>20. LET text == Replaced(trees[t].text, from, to, insert)
           end == from + Len(insert)
           e == Span(LengthOf(trees[t].text, from), LengthOf(trees[t].text, to), LengthOf(text, end))
           ranges == {RangeEdit(r, e) : r \in trees[t].ranges}
       IN  /\ trees' = [trees EXCEPT ![t] = [@ EXCEPT !.text = text, !.ranges = ranges]]
           /\ job' = [op |-> "edit", tree |-> t, stack |-> <<Frame(0, [i \in {t} |-> e])>>,
                      edit |-> e, before |-> [heap |-> heap, tree |-> trees[t]]]
  BY Zenon DEF Edit
<1>21. PICK text, e, ranges :
           /\ trees' = [trees EXCEPT ![t] = [@ EXCEPT !.text = text, !.ranges = ranges]]
           /\ job' = [op |-> "edit", tree |-> t, stack |-> <<Frame(0, [i \in {t} |-> e])>>,
                      edit |-> e, before |-> [heap |-> heap, tree |-> trees[t]]]
  BY <1>20, Zenon
<1>22. UNCHANGED <<heap, held, dropped>>
  BY Zenon DEF Edit
<1> DEFINE stack == <<Frame(0, [i \in {t} |-> e])>>
<1>2. /\ trees' = [trees EXCEPT ![t] = [@ EXCEPT !.text = text, !.ranges = ranges]]
      /\ job' = [op |-> "edit", tree |-> t, stack |-> stack,
                 edit |-> e, before |-> [heap |-> heap, tree |-> trees[t]]]
      /\ heap' = heap /\ held' = held /\ dropped' = {}
  BY <1>1, <1>21, <1>22
<1> HIDE DEF stack
<1>3. DOMAIN trees' = DOMAIN trees /\ trees'[t].root = trees[t].root
      /\ \A u \in DOMAIN trees : u # t => trees'[u] = trees[u]
  BY <1>1, <1>2 DEF TreesOK
<1>4. TreesOK(trees')
  <2> DEFINE e2 == [trees[t] EXCEPT !.text = text, !.ranges = ranges]
  <2>1. trees' = [trees EXCEPT ![t] = e2]
    BY <1>2
  <2>2. DOMAIN e2 = DOMAIN trees[t]
    OBVIOUS
  <2> HIDE DEF e2
  <2>3. IsList([trees EXCEPT ![t] = e2])
    BY <1>1, ListExcept DEF TreesOK
  <2> QED
    BY <1>1, <2>1, <2>2, <2>3 DEF TreesOK
<1>5. RootsOf(trees') = rs
  BY <1>3 DEF RootsOf
<1>6. job'.op = "edit" /\ job'.tree = t /\ job'.stack = stack /\ {"op", "tree", "stack"} \subseteq DOMAIN job'
  BY <1>2
<1>7. IsList(stack) /\ \A k \in DOMAIN stack : FrameOK({}, heap', job', stack[k])
  <2> DEFINE f == Frame(0, [i \in {t} |-> e])
  <2>1. f.in = 0 /\ DOMAIN f.parts \subseteq {t}
    BY DEF Frame
  <2>2. stack = <<f>>
    BY DEF stack
  <2>3. FrameOK({}, heap', job', f)
    BY <1>6, <2>1 DEF FrameOK
  <2> HIDE DEF f
  <2>4. IsList(<<f>>)
    BY TimesOne
  <2> QED
    BY <2>2, <2>3, <2>4
<1>8. EditOK({}, heap', trees', held', dropped', job')
  BY <1>1, <1>2, <1>3, <1>6, <1>7 DEF EditOK
<1>9. Apart(Own(heap, rs, held, {}), {}, Anchor(held', job'), rank, bound)
  BY <1>1 DEF Apart, Sole
<1>10. Good({}, rank, bound, heap', trees', held', dropped', job')
  BY <1>1, <1>2, <1>4, <1>5, <1>8, <1>9 DEF Good, JobOK
<1>11. Kept
  BY <1>2, <1>3 DEF Kept
<1> QED
  BY <1>10, <1>11

LEMMA ParseGood ==
    ASSUME NEW O, NEW rank, NEW bound, Good(O, rank, bound, heap, trees, held, dropped, job),
           NEW t \in DOMAIN trees, Parse(t)
    PROVE  Good({}, rank, bound, heap', trees', held', dropped', job') /\ Kept
<1> DEFINE rs == RootsOf(trees)  r == trees[t].root  f == [ref |-> r, next |-> 1, base |-> 1]
           e == <<>>
<1>1. /\ Core(heap, rs, e, {}) /\ TreesOK(trees) /\ dropped = {} /\ held = e
      /\ Apart(Own(heap, rs, e, {}), O, Anchor(held, job), rank, bound)
  BY GoodIdle DEF Parse
<1>2. /\ heap' = Retained(heap, <<r>>) /\ held' = <<r>>
      /\ job' = [op |-> "parse", tree |-> t, frames |-> <<f>>]
      /\ trees' = trees /\ dropped' = {}
  BY <1>1 DEF Parse
<1>3. Shaped(r) /\ (r.id # 0 => r.id \in Alive(heap))
  BY <1>1, RootAlive
<1>4. <<r>> = Append(e, r) /\ f.ref = r /\ f.next = 1 /\ f.base = 1 /\ {"ref", "next", "base"} \subseteq DOMAIN f
  OBVIOUS
<1>5. job'.op = "parse" /\ job'.tree = t /\ job'.frames = <<f>> /\ {"op", "tree", "frames"} \subseteq DOMAIN job'
  BY <1>2
<1> HIDE DEF rs, r, f, e
<1>6. RetainsOne(heap, rs, e, {}, r, heap')
  BY <1>1, <1>2, <1>3, RetainOne
<1>7. Settled(heap', rs, e, {}, -1, rs, held')
  BY <1>2, <1>4, <1>6, SettleHeld DEF RetainsOne
<1>8. Core(heap', rs, held', {}) /\ Own(heap', rs, held', {}) = With(Own(heap, rs, e, {}), -1, held')
  BY <1>6, <1>7 DEF Settled, RetainsOne
<1>9. Apart(Own(heap', rs, held', {}), {}, Anchor(held', job'), rank, bound)
  BY <1>1, <1>8, ApartEnds
<1>10. EntryOK(heap', held', f)
  <2>1. Len(held') = 1
    BY <1>2
  <2>2. r.id # 0 => r.id \in Alive(heap')
    BY <1>3, <1>6 DEF RetainsOne
  <2> QED
    BY <1>3, <1>4, <2>1, <2>2 DEF EntryOK
<1>11. ParseOK({}, heap', trees', held', dropped', job')
  <2>1. IsList(<<f>>) /\ DOMAIN <<f>> = {1} /\ <<f>>[1] = f /\ f.base \in Nat
    BY <1>4, TimesOne
  <2>2. held' # <<>>
    BY <1>2
  <2> QED
    BY <1>2, <1>5, <1>10, <2>1, <2>2 DEF ParseOK, FramesOK
<1>12. Good({}, rank, bound, heap', trees', held', dropped', job')
  BY <1>1, <1>2, <1>8, <1>9, <1>11 DEF Good, JobOK, rs
<1>13. Kept
  BY <1>2, <1>6 DEF Kept, RetainsOne
<1> QED
  BY <1>12, <1>13

\* A new node is above what it holds, and nothing is above it.
NewRank(rank, n, bound) == [rank EXCEPT ![n] = bound + 1]
LEMMA NewIsApart ==
    ASSUME NEW h, NEW rs, NEW hd, NEW dr, Core(h, rs, hd, dr), NEW O, NEW anchor, NEW rank, NEW bound,
           Apart(Own(h, rs, hd, dr), O, anchor, rank, bound),
           NEW n, n \in Nat \ {0}, n \notin DOMAIN h, NEW kids,
           \A i \in DOMAIN kids : kids[i].id # 0 => kids[i].id \in Alive(h),
           NEW own2, own2 = With(Own(h, rs, hd, dr), n, kids), NEW anchor2
    PROVE  Apart(own2, {}, anchor2, NewRank(rank, n, bound), bound + 1)
<1> DEFINE own == Own(h, rs, hd, dr)  rank2 == NewRank(rank, n, bound)
<1>1. bound \in Nat /\ rank \in [Nat -> 0 .. bound] /\ rank[0] = 0 /\ Ranked(own, rank)
  BY DEF Apart, RankOn
<1>2. RankOn(rank2, bound + 1) /\ rank2[n] = bound + 1 /\ \A id \in Nat : id # n => rank2[id] = rank[id]
  BY <1>1 DEF RankOn, NewRank
<1>3. DOMAIN h \subseteq Nat \ {0}
  BY HeapIds DEF Core, Loose
<1>4. ASSUME NEW q \in DOMAIN own, NEW j \in DOMAIN own[q]
      PROVE  own[q][j].id \in Nat /\ own[q][j].id # n
  <2>1. Shaped(own[q][j]) /\ (own[q][j].id # 0 => own[q][j].id \in DOMAIN h)
    BY ThereIsAlive
  <2> QED
    BY <2>1 DEF Shaped
<1>5. ASSUME NEW q \in DOMAIN own, q # 0, q # -1 PROVE (q \in Nat /\ q # n) \/ q = n
  <2>1. HeapOK(h) /\ DroppedOK(h, dr)
    BY DEF Core, Loose
  <2>2. q \in Nat \ {0}
    BY <1>5, <2>1, OwnHolders
  <2> QED
    BY <2>2
<1> HIDE DEF own, rank2
<1>6. Ranked(own2, rank2)
  <2> SUFFICES ASSUME NEW q \in DOMAIN own2, q # 0, q # -1, NEW j \in DOMAIN own2[q]
               PROVE  rank2[own2[q][j].id] < rank2[q]
    BY DEF Ranked
  <2>1. own2 = With(own, n, kids)
    BY DEF own
  <2>2. CASE q = n
    <3>1. own2[q] = kids /\ j \in DOMAIN kids
      BY <2>1, <2>2 DEF With
    <3>2. kids[j].id \in Nat /\ kids[j].id # n
      BY <1>3, <3>1 DEF Alive
    <3>3. rank[kids[j].id] \in 0 .. bound
      BY <1>1, <3>2
    <3> QED
      BY <1>1, <1>2, <2>2, <3>1, <3>2, <3>3
  <2>3. CASE q # n
    <3>1. q \in DOMAIN own /\ own2[q] = own[q]
      BY <2>1, <2>3 DEF With
    <3>2. rank[own[q][j].id] < rank[q] /\ own[q][j].id \in Nat /\ own[q][j].id # n /\ q \in Nat
      BY <1>1, <1>4, <1>5, <2>3, <3>1 DEF Ranked
    <3> QED
      BY <1>2, <2>3, <3>1, <3>2
  <2> QED
    BY <2>2, <2>3
<1>7. Sole(own2, {}, anchor2)
  BY DEF Sole
<1> QED
  BY <1>2, <1>6, <1>7 DEF Apart, rank2

\* A new leaf, on the heap or in its reference.
Grows(h, h2) == /\ \A id \in DOMAIN h : id \in DOMAIN h2 /\ h2[id].node = h[id].node
                /\ Alive(h) \subseteq Alive(h2)
LEMMA AllocLeaf ==
    ASSUME NEW h, NEW rs, NEW hd, NEW dr, Core(h, rs, hd, dr), NEW O, NEW anchor, NEW rank, NEW bound,
           Apart(Own(h, rs, hd, dr), O, anchor, rank, bound),
           NEW t, t.kids = <<>>, t.inline \in BOOLEAN, t.inline => Inlined(t), ~t.inline => Stands(t),
           NEW a, a = Alloc(h, t), NEW anchor2
    PROVE  /\ DueTo(a.heap, rs, hd, dr, a.ref) /\ Grows(h, a.heap)
           /\ \E rank2, bound2 : Apart(Own(a.heap, rs, hd, dr), {}, anchor2, rank2, bound2)
<1>1. Loose(h, rs, hd, dr) /\ \A id \in Nat \ {0} : Due(h, rs, hd, dr, id) = 0
  BY DEF Core
<1>2. CASE t.inline
  <2>1. a.heap = h /\ a.ref.id = 0 /\ a.ref.leaf = t
    BY <1>2 DEF Alloc, InlineRef
  <2>2. DueTo(h, rs, hd, dr, a.ref)
    <3>1. Shaped(a.ref) /\ \A id \in Nat \ {0} : Hit(a.ref, id) = 0
      BY <1>2, <2>1 DEF Shaped, Hit
    <3> QED
      BY <1>1, <3>1 DEF DueTo
  <2>3. Apart(Own(h, rs, hd, dr), {}, anchor2, rank, bound)
    BY DEF Apart, Sole
  <2> QED
    BY <2>1, <2>2, <2>3 DEF Grows
<1>3. CASE ~t.inline
  <2> DEFINE n == Len(h) + 1  h2 == Append(h, [node |-> t, refs |-> 1])
  <2>1. a.heap = h2 /\ a.ref = HeapRef(n)
    BY <1>3 DEF Alloc
  <2>2. AllShaped(t.kids) /\ \A id : Times(id, t.kids) = 0
    BY TimesEmpty, EmptyIsList DEF AllShaped
  <2>3. Allocates(h, rs, hd, dr, t, n, h2)
    BY <1>1, <1>3, <2>2, StepAlloc
  <2> HIDE DEF n, h2
  <2>4. /\ Loose(h2, rs, hd, dr) /\ Own(h2, rs, hd, dr) = With(Own(h, rs, hd, dr), n, t.kids)
        /\ n \in Nat \ {0} /\ n \notin DOMAIN h
        /\ DOMAIN h2 = DOMAIN h \cup {n} /\ Alive(h2) = Alive(h) \cup {n}
        /\ \A id \in DOMAIN h : h2[id] = h[id]
        /\ \A id \in Nat \ {0} :
             Due(h2, rs, hd, dr, id) =
               Due(h, rs, hd, dr, id) + (IF id = n THEN 1 ELSE 0) - Times(id, t.kids)
    BY <2>3 DEF Allocates
  <2>5. DueTo(h2, rs, hd, dr, a.ref)
    <3>1. a.ref.id = n
      BY <2>1 DEF HeapRef
    <3>2. Shaped(a.ref)
      BY <2>4, <3>1 DEF Shaped
    <3>3. \A id \in Nat \ {0} : Due(h2, rs, hd, dr, id) = Hit(a.ref, id)
      BY <1>1, <2>2, <2>4, <3>1 DEF Hit
    <3> QED
      BY <2>4, <3>2, <3>3 DEF DueTo
  <2>6. \A i \in DOMAIN t.kids : t.kids[i].id # 0 => t.kids[i].id \in Alive(h)
    BY EmptyIsList
  <2>7. Apart(Own(h2, rs, hd, dr), {}, anchor2, NewRank(rank, n, bound), bound + 1)
    BY <2>4, <2>6, NewIsApart
  <2> QED
    BY <2>1, <2>4, <2>5, <2>7 DEF Grows
<1> QED
  BY <1>2, <1>3

\* The frames below the last one go on, and a frame may go into a child.
LEMMA FramesFront ==
    ASSUME NEW h, NEW hd, NEW frames, FramesOK(h, hd, frames), frames # <<>>,
           NEW h2, Alive(h) \subseteq Alive(h2), NEW hd2, Len(hd2) \in Nat, Last(frames).base <= Len(hd2)
    PROVE  FramesOK(h2, hd2, Front(frames))
<1>1. /\ Last(frames) = frames[Len(frames)] /\ Len(frames) \in DOMAIN frames /\ Len(frames) - 1 \in Nat
      /\ IsList(Front(frames)) /\ DOMAIN Front(frames) = 1 .. Len(frames) - 1
      /\ \A i \in 1 .. Len(frames) - 1 : Front(frames)[i] = frames[i]
  BY ListFront DEF FramesOK
<1>2. DOMAIN frames = 1 .. Len(frames) /\ Len(frames) \in Nat
  BY ListIsSeq DEF FramesOK
<1> DEFINE front == Front(frames)
<1> HIDE DEF front
<1>3. ASSUME NEW k \in 1 .. Len(frames) - 1 PROVE k \in DOMAIN frames /\ k <= Len(frames)
  BY <1>2
<1>4. ASSUME NEW k \in DOMAIN front PROVE EntryOK(h2, hd2, front[k])
  <2>1. front[k] = frames[k] /\ k \in DOMAIN frames /\ k <= Len(frames)
    BY <1>1, <1>3 DEF front
  <2>2. EntryOK(h, hd, frames[k]) /\ frames[k].base <= Last(frames).base
        /\ EntryOK(h, hd, frames[Len(frames)])
    BY <1>1, <2>1 DEF FramesOK
  <2>3. frames[k].base \in 1 .. Len(hd2)
    <3>1. frames[k].base \in Nat /\ frames[k].base >= 1 /\ Last(frames).base \in Nat
      BY <1>1, <2>2 DEF EntryOK
    <3> QED
      BY <2>2, <3>1
  <2> QED
    BY <2>1, <2>2, <2>3 DEF EntryOK
<1> QED
  BY <1>1, <1>3, <1>4 DEF FramesOK, front

LEMMA FramesPush ==
    ASSUME NEW h, NEW hd, NEW frames, FramesOK(h, hd, frames), frames # <<>>, Len(hd) \in Nat,
           NEW n \in Nat \ {0}, NEW f, EntryOK(h, hd, f), f.base = Len(hd)
    PROVE  FramesOK(h, hd, Append([frames EXCEPT ![Len(frames)].next = n], f))
<1> DEFINE last == Len(frames)  e == [frames[last] EXCEPT !.next = n]
           mid == [frames EXCEPT ![last] = e]  all == Append(mid, f)
<1>1. last \in Nat /\ last # 0 /\ DOMAIN frames = 1 .. last /\ IsList(frames) /\ last \in DOMAIN frames
  <2>1. IsList(frames) /\ Len(frames) \in DOMAIN frames
    BY ListFront DEF FramesOK
  <2> QED
    BY <2>1, ListIsSeq
<1>2. IsList(mid) /\ Len(mid) = last /\ DOMAIN mid = 1 .. last
  BY <1>1, ListExcept
<1>3. EntryOK(h, hd, e) /\ e.base = frames[last].base
  <2>1. EntryOK(h, hd, frames[last])
    BY <1>1 DEF FramesOK
  <2> QED
    BY <2>1 DEF EntryOK
<1>4. mid = [frames EXCEPT ![last].next = n]
  OBVIOUS
<1>5. \A k \in 1 .. last : EntryOK(h, hd, mid[k]) /\ mid[k].base = frames[k].base
  <2> HIDE DEF e
  <2>1. \A k \in 1 .. last : mid[k] = IF k = last THEN e ELSE frames[k]
    BY <1>1
  <2> HIDE DEF mid, last
  <2>2. \A k \in 1 .. last : EntryOK(h, hd, frames[k])
    BY <1>1 DEF FramesOK
  <2>3. ASSUME NEW k \in 1 .. last PROVE EntryOK(h, hd, mid[k]) /\ mid[k].base = frames[k].base
    <3>1. CASE k = last
      BY <1>3, <2>1, <3>1
    <3>2. CASE k # last
      BY <2>1, <2>2, <3>2
    <3> QED
      BY <3>1, <3>2
  <2> QED
    BY <2>3
<1> HIDE DEF mid, e
<1>6. /\ IsList(all) /\ DOMAIN all = 1 .. last + 1 /\ all[last + 1] = f
      /\ \A k \in 1 .. last : all[k] = mid[k]
  <2> HIDE DEF last
  <2> QED
    BY <1>2, ListAppend
<1> HIDE DEF all, last
<1>7. \A k \in 1 .. last + 1 : k = last + 1 \/ k \in 1 .. last
  BY <1>1
<1>8. \A k \in DOMAIN all : EntryOK(h, hd, all[k]) /\ all[k].base \in 1 .. Len(hd)
  BY <1>5, <1>6, <1>7 DEF EntryOK
<1>9. ASSUME NEW k \in DOMAIN all, NEW l \in DOMAIN all, k <= l PROVE all[k].base <= all[l].base
  <2>1. CASE l = last + 1
    <3>1. all[k].base \in 1 .. Len(hd) /\ all[l].base = Len(hd)
      BY <1>6, <1>8, <2>1
    <3> QED
      BY <3>1
  <2>2. CASE l \in 1 .. last
    <3>1. k \in 1 .. last
      BY <1>1, <1>6, <1>9, <2>2
    <3>2. frames[k].base <= frames[l].base
      BY <1>1, <1>9, <2>2, <3>1 DEF FramesOK
    <3> QED
      BY <1>5, <1>6, <2>2, <3>1, <3>2
  <2> QED
    BY <1>6, <1>7, <2>1, <2>2
<1>10. FramesOK(h, hd, all)
  BY <1>6, <1>8, <1>9 DEF FramesOK
<1> QED
  BY <1>4, <1>10 DEF all, last

\* Where a parse is under way,
LEMMA GoodParse ==
    ASSUME NEW O, NEW rank, NEW bound, Good(O, rank, bound, heap, trees, held, dropped, job), Doing("parse")
    PROVE  /\ Core(heap, RootsOf(trees), held, {}) /\ TreesOK(trees) /\ dropped = {} /\ O = {}
           /\ Apart(Own(heap, RootsOf(trees), held, {}), O, Anchor(held, job), rank, bound)
           /\ ParseOK({}, heap, trees, held, {}, job) /\ AllShaped(held)
<1>1. job.op = "parse" /\ dropped = {}
  BY DEF Doing
<1>2. Core(heap, RootsOf(trees), held, dropped) /\ TreesOK(trees)
      /\ Apart(Own(heap, RootsOf(trees), held, dropped), O, Anchor(held, job), rank, bound)
      /\ JobOK(O, rank, heap, trees, held, dropped, job)
  BY DEF Good
<1>3. ParseOK(O, heap, trees, held, dropped, job)
  BY <1>1, <1>2, WhichJob
<1>4. O = {}
  BY <1>3 DEF ParseOK
<1>5. AllShaped(held)
  BY <1>2, OwnEnds DEF Core, Loose, Holding
<1> QED
  BY <1>1, <1>2, <1>3, <1>4, <1>5

\* and goes on.
LEMMA ParseBack ==
    ASSUME TreesOK(trees), ParseOK({}, heap, trees, held, {}, job), trees' = trees, dropped' = {},
           NEW F, job' = [job EXCEPT !.frames = F], FramesOK(heap', held', F), held' # <<>>,
           Core(heap', RootsOf(trees), held', {}), NEW rank, NEW bound,
           Apart(Own(heap', RootsOf(trees), held', {}), {}, Anchor(held', job'), rank, bound)
    PROVE  Good({}, rank, bound, heap', trees', held', dropped', job')
<1>1. job'.op = "parse" /\ job'.tree = job.tree /\ job'.frames = F /\ {"op", "tree", "frames"} \subseteq DOMAIN job'
  BY DEF ParseOK
<1>2. ParseOK({}, heap', trees', held', dropped', job')
  BY <1>1 DEF ParseOK
<1> QED
  BY <1>2 DEF Good, JobOK

LEMMA ParseStepGood ==
    ASSUME NEW O, NEW rank, NEW bound, Good(O, rank, bound, heap, trees, held, dropped, job), ParseStep
    PROVE  /\ \E rank2, bound2 : Good({}, rank2, bound2, heap', trees', held', dropped', job')
           /\ Kept
<1> DEFINE rs == RootsOf(trees)  own == Own(heap, rs, held, {})
           frame == Last(job.frames)
           r == frame.ref
           s == Deref(heap, r)
           leaf == Alloc(heap, NewLeaf(s.symbol, s.padding, s.size, s.lookahead, s.state,
                                       FALSE, s.column))
           kids == SubSeq(held, frame.base + 1, Len(held))
           node == Alloc(heap, NewNode(s.symbol, kids, Seen(heap, kids), s.production))
           over == frame.next > Len(s.kids)
           builds == Len(kids) >= 2 \/ (Len(kids) = 1 /\ s.visible)
           front == Front(job.frames)
           anchor == Anchor(held', job')
<1>1. Doing("parse") /\ job.frames # <<>> /\ trees' = trees /\ dropped' = dropped
  BY Zenon DEF ParseStep
<1>2. /\ Core(heap, rs, held, {}) /\ TreesOK(trees) /\ dropped = {} /\ O = {}
      /\ Apart(own, O, Anchor(held, job), rank, bound)
      /\ ParseOK({}, heap, trees, held, {}, job) /\ AllShaped(held)
  BY <1>1, GoodParse
<1>3. FramesOK(heap, held, job.frames) /\ IsList(held) /\ held # <<>>
  BY <1>2 DEF ParseOK, AllShaped
<1>4. Len(held) \in Nat /\ DOMAIN held = 1 .. Len(held) /\ Len(held) # 0
  <2>1. Len(held) \in Nat /\ DOMAIN held = 1 .. Len(held) /\ Len(held) \in DOMAIN held
    BY <1>3, ListIsSeq, ListFront
  <2> QED
    BY <2>1
<1>5. EntryOK(heap, held, frame)
  <2>1. frame = job.frames[Len(job.frames)] /\ Len(job.frames) \in DOMAIN job.frames
    BY <1>1, <1>3, ListFront DEF FramesOK
  <2> QED
    BY <1>3, <2>1 DEF FramesOK
<1>6. /\ Shaped(r) /\ (r.id # 0 => r.id \in Alive(heap))
      /\ frame.next \in Nat \ {0} /\ frame.base \in 1 .. Len(held)
  BY <1>5 DEF EntryOK
<1>7. \/ ~s.changed /\ Shift(Retained(heap, <<r>>), r)
      \/ s.changed /\ s.kids = <<>> /\ TotalBytes(s) > 0 /\ Shift(leaf.heap, leaf.ref)
      \/ /\ s.changed /\ ~over
         /\ job' = [job EXCEPT !.frames =
                       Append([@ EXCEPT ![Len(@)].next = frame.next + 1],
                              Enter(s.kids[frame.next]))]
         /\ UNCHANGED <<heap, held>>
      \/ /\ s.changed /\ over /\ builds
         /\ heap' = node.heap
         /\ held' = Append(SubSeq(held, 1, frame.base), node.ref)
         /\ job' = [job EXCEPT !.frames = Front(@)]
      \/ /\ s.changed /\ over /\ ~builds
         /\ s.kids # <<>> \/ TotalBytes(s) = 0
         /\ job' = [job EXCEPT !.frames = Front(@)]
         /\ UNCHANGED <<heap, held>>
  BY Zenon DEF ParseStep
<1> HIDE DEF rs, own, frame, leaf, node, front, anchor
\* What an append to the stack of the parser comes to.
<1>8. ASSUME NEW h2, NEW ref, DueTo(h2, rs, held, {}, ref), Grows(heap, h2), NEW rank2, NEW bound2,
             Apart(Own(h2, rs, held, {}), {}, anchor, rank2, bound2), Shift(h2, ref)
      PROVE  Good({}, rank2, bound2, heap', trees', held', dropped', job') /\ Kept
  <2>1. heap' = h2 /\ held' = Append(held, ref) /\ job' = [job EXCEPT !.frames = front]
    BY <1>8 DEF Shift, front
  <2>2. Settled(h2, rs, held, {}, -1, rs, held')
    BY <1>8, <2>1, SettleHeld
  <2>3. Core(h2, rs, held', {}) /\ Own(h2, rs, held', {}) = With(Own(h2, rs, held, {}), -1, held')
    BY <2>2 DEF Settled
  <2>4. Apart(Own(h2, rs, held', {}), {}, anchor, rank2, bound2)
    BY <1>8, <2>3, ApartEnds
  <2>5. Len(held') = Len(held) + 1 /\ held' # <<>>
    <3>1. Len(held') = Len(held) + 1
      BY <1>3, <2>1, ListAppend
    <3>2. Len(held') # 0
      BY <1>4, <3>1
    <3> QED
      BY <3>1, <3>2, EmptyIsList
  <2>6. FramesOK(heap', held', front)
    <3>1. Len(held') \in Nat /\ frame.base <= Len(held')
      BY <1>4, <1>6, <2>5
    <3>2. Alive(heap) \subseteq Alive(h2)
      BY <1>8 DEF Grows
    <3> QED
      BY <1>1, <1>3, <2>1, <3>1, <3>2, FramesFront DEF frame, front
  <2>7. Good({}, rank2, bound2, heap', trees', held', dropped', job')
    BY <1>1, <1>2, <2>1, <2>3, <2>4, <2>5, <2>6, ParseBack DEF rs, anchor
  <2>8. Kept
    BY <1>1, <1>8, <2>1 DEF Kept, Grows
  <2> QED
    BY <2>7, <2>8
<1>9. CASE ~s.changed /\ Shift(Retained(heap, <<r>>), r)
  <2> DEFINE h2 == Retained(heap, <<r>>)
  <2>1. RetainsOne(heap, rs, held, {}, r, h2)
    BY <1>2, <1>6, RetainOne
  <2>2. Shift(h2, r)
    BY <1>9
  <2> HIDE DEF h2, r, s
  <2>3. DueTo(h2, rs, held, {}, r) /\ Grows(heap, h2) /\ Own(h2, rs, held, {}) = own
    BY <2>1 DEF RetainsOne, Grows, own
  <2>4. Apart(own, {}, anchor, rank, bound)
    BY <1>2 DEF Apart, Sole
  <2>5. Good({}, rank, bound, heap', trees', held', dropped', job') /\ Kept
    BY <1>8, <2>2, <2>3, <2>4
  <2> QED
    BY <2>5
<1>10. CASE s.changed /\ s.kids = <<>> /\ TotalBytes(s) > 0 /\ Shift(leaf.heap, leaf.ref)
  <2> DEFINE t == NewLeaf(s.symbol, s.padding, s.size, s.lookahead, s.state, FALSE, s.column)
  <2>1. leaf = Alloc(heap, t)
    BY DEF leaf
  <2>2. t.kids = <<>> /\ t.inline \in BOOLEAN /\ (t.inline => Inlined(t)) /\ (~t.inline => Stands(t))
    BY NewLeafShape
  <2> HIDE DEF t
  <2>3. /\ DueTo(leaf.heap, rs, held, {}, leaf.ref) /\ Grows(heap, leaf.heap)
        /\ \E rank2, bound2 : Apart(Own(leaf.heap, rs, held, {}), {}, anchor, rank2, bound2)
    BY <1>2, <2>1, <2>2, AllocLeaf DEF own
  <2>4. PICK rank2, bound2 : Apart(Own(leaf.heap, rs, held, {}), {}, anchor, rank2, bound2)
    BY <2>3
  <2>5. Good({}, rank2, bound2, heap', trees', held', dropped', job') /\ Kept
    BY <1>8, <1>10, <2>3, <2>4
  <2> QED
    BY <2>5
<1>11. CASE /\ s.changed /\ ~over
            /\ job' = [job EXCEPT !.frames =
                         Append([@ EXCEPT ![Len(@)].next = frame.next + 1],
                                Enter(s.kids[frame.next]))]
            /\ UNCHANGED <<heap, held>>
  <2> DEFINE f == Enter(s.kids[frame.next])  n == frame.next + 1
             F == Append([job.frames EXCEPT ![Len(job.frames)].next = n], f)
  <2>1. job' = [job EXCEPT !.frames = F] /\ heap' = heap /\ held' = held
    BY <1>11
  <2>2. frame.next \in DOMAIN s.kids /\ r.id # 0
    <3>1. CASE r.id # 0
      <4>1. s = heap[r.id].node /\ r.id \in Alive(heap)
        BY <1>6, <3>1 DEF Deref
      <4>2. IsList(s.kids)
        BY <1>2, <4>1, KidsAlive DEF AllShaped
      <4>3. Len(s.kids) \in Nat /\ DOMAIN s.kids = 1 .. Len(s.kids)
        BY <4>2, ListIsSeq
      <4> QED
        BY <1>6, <1>11, <3>1, <4>3
    <3>2. CASE r.id = 0
      <4>1. s.kids = <<>>
        BY <1>6, <3>2 DEF Deref, Shaped, Inlined
      <4>2. Len(s.kids) = 0
        BY <4>1, EmptyIsList
      <4> QED
        BY <1>6, <1>11, <4>2
    <3> QED
      BY <3>1, <3>2
  <2>3. /\ Shaped(s.kids[frame.next])
        /\ s.kids[frame.next].id # 0 => s.kids[frame.next].id \in Alive(heap)
    <3>1. s = heap[r.id].node /\ r.id \in Alive(heap)
      BY <1>6, <2>2 DEF Deref
    <3>2. AllShaped(heap[r.id].node.kids)
          /\ \A i \in DOMAIN heap[r.id].node.kids :
               heap[r.id].node.kids[i].id # 0 => heap[r.id].node.kids[i].id \in Alive(heap)
      BY <1>2, <3>1, KidsAlive
    <3> QED
      BY <2>2, <3>1, <3>2 DEF AllShaped
  <2>4. EntryOK(heap, held, f) /\ f.base = Len(held) /\ n \in Nat \ {0}
    BY <1>4, <1>6, <2>3 DEF EntryOK, Enter
  <2> HIDE DEF f, n
  <2>5. FramesOK(heap, held, F)
    BY <1>1, <1>3, <1>4, <2>4, FramesPush
  <2> HIDE DEF F
  <2>6. Apart(Own(heap', rs, held', {}), {}, anchor, rank, bound) /\ Core(heap', rs, held', {})
    BY <1>2, <2>1 DEF Apart, Sole, own
  <2>7. Good({}, rank, bound, heap', trees', held', dropped', job')
    BY <1>1, <1>2, <1>3, <2>1, <2>5, <2>6, ParseBack DEF rs, anchor
  <2>8. Kept
    BY <1>1, <2>1 DEF Kept
  <2> QED
    BY <2>7, <2>8
<1>12. CASE /\ s.changed /\ over /\ builds
            /\ heap' = node.heap
            /\ held' = Append(SubSeq(held, 1, frame.base), node.ref)
            /\ job' = [job EXCEPT !.frames = Front(@)]
  <2> DEFINE t == NewNode(s.symbol, kids, Seen(heap, kids), s.production)
             n == Len(heap) + 1  h2 == Append(heap, [node |-> t, refs |-> 1])
             first == SubSeq(held, 1, frame.base)
  <2>1. /\ IsList(kids) /\ DOMAIN kids = 1 .. Len(held) - frame.base
        /\ \A i \in 1 .. Len(held) - frame.base : kids[i] = held[frame.base + i]
        /\ IsList(first) /\ DOMAIN first = 1 .. frame.base /\ Len(first) = frame.base
        /\ \A i \in 1 .. frame.base : first[i] = held[i]
    <3>1. frame.base \in 0 .. Len(held)
      BY <1>4, <1>6
    <3> QED
      BY <1>3, <3>1, ListFirst, ListRest
  <2>21. held' = Append(first, node.ref)
    BY <1>12
  <2>2. Stands(t) /\ t.kids = kids
    <3> HIDE DEF s, kids
    <3> QED
      BY <2>1, NewNodeShape
  <2>3. node.heap = h2 /\ node.ref = HeapRef(n)
    BY <2>2 DEF node, Alloc, Stands
  <2>4. \A i \in DOMAIN kids : Shaped(kids[i]) /\ (kids[i].id # 0 => kids[i].id \in Alive(heap))
    <3> SUFFICES ASSUME NEW i \in DOMAIN kids
                 PROVE  Shaped(kids[i]) /\ (kids[i].id # 0 => kids[i].id \in Alive(heap))
      OBVIOUS
    <3>1. kids[i] = held[frame.base + i] /\ frame.base + i \in DOMAIN held
      <4> HIDE DEF kids, first
      <4> QED
        BY <1>4, <1>6, <2>1
    <3>2. -1 \in DOMAIN own /\ own[-1] = held
      BY OwnEnds DEF own
    <3>3. Shaped(held[frame.base + i]) /\ (held[frame.base + i].id # 0 => held[frame.base + i].id \in Alive(heap))
      BY <1>2, <3>1, <3>2, ThereIsAlive DEF own
    <3> HIDE DEF kids
    <3> QED
      BY <3>1, <3>3
  <2>5. AllShaped(first) /\ AllShaped(kids)
    <3>1. \A i \in 1 .. frame.base : i \in DOMAIN held
      BY <1>4, <1>6
    <3> HIDE DEF first, kids
    <3> QED
      BY <1>2, <2>1, <2>4, <3>1 DEF AllShaped
  <2>6. Allocates(heap, rs, held, {}, t, n, h2)
    <3> HIDE DEF t, kids
    <3>1. Loose(heap, rs, held, {})
      BY <1>2 DEF Core
    <3> QED
      BY <2>2, <2>5, <3>1, StepAlloc
  <2>20. \A id : Times(id, held) = Times(id, first) + Times(id, kids)
    <3>1. frame.base \in 0 .. Len(held)
      BY <1>4, <1>6
    <3> QED
      BY <1>3, <3>1, TimesCut
  <2> HIDE DEF t, n, h2, first, kids
  <2>7. /\ Loose(h2, rs, held, {}) /\ Own(h2, rs, held, {}) = With(own, n, kids)
        /\ n \in Nat \ {0} /\ n \notin DOMAIN heap
        /\ DOMAIN h2 = DOMAIN heap \cup {n} /\ Alive(h2) = Alive(heap) \cup {n}
        /\ \A id \in DOMAIN heap : h2[id] = heap[id]
    BY <2>2, <2>6 DEF Allocates, own
  <2>8. ASSUME NEW id \in Nat \ {0}
        PROVE  Due(h2, rs, held, {}, id) = (IF id = n THEN 1 ELSE 0) - Times(id, kids) /\ Times(id, kids) \in Nat
    <3>1. /\ Due(h2, rs, held, {}, id) =
               Due(heap, rs, held, {}, id) + (IF id = n THEN 1 ELSE 0) - Times(id, t.kids)
          /\ Times(id, t.kids) \in Nat
      BY <2>6 DEF Allocates
    <3>2. Due(heap, rs, held, {}, id) = 0
      BY <1>2 DEF Core
    <3> QED
      BY <2>2, <3>1, <3>2
  <2>9. Shaped(node.ref) /\ \A id \in Nat \ {0} : Hit(node.ref, id) = (IF id = n THEN 1 ELSE 0)
    BY <2>3, <2>7 DEF HeapRef, Shaped, Hit
  <2>10. /\ AllShaped(held')
         /\ \A id : Times(id, held') = Times(id, first) + Hit(node.ref, id) /\ Times(id, first) \in Nat
    BY <2>5, <2>9, <2>21, ShapedAppend
  <2>11. Loose(h2, rs, held', {}) /\ Own(h2, rs, held', {}) = With(Own(h2, rs, held, {}), -1, held')
    BY <2>7, <2>10, StepHeld
  <2>12. ASSUME NEW id \in Nat \ {0} PROVE Due(h2, rs, held', {}, id) = 0
    <3>1. Due(h2, rs, held', {}, id) = Due(h2, rs, held, {}, id) + Times(id, held) - Times(id, held')
      BY <2>7, <2>10, StepHeld
    <3>2. Times(id, held) = Times(id, first) + Times(id, kids)
          /\ Times(id, held') = Times(id, first) + (IF id = n THEN 1 ELSE 0) /\ Times(id, first) \in Nat
      BY <2>9, <2>10, <2>20
    <3> QED
      BY <2>8, <3>1, <3>2
  <2>13. Core(h2, rs, held', {})
    BY <2>11, <2>12 DEF Core
  <2>14. Apart(Own(h2, rs, held', {}), {}, anchor, NewRank(rank, n, bound), bound + 1)
    <3>1. Apart(Own(h2, rs, held, {}), {}, anchor, NewRank(rank, n, bound), bound + 1)
      BY <1>2, <2>4, <2>7, NewIsApart DEF own
    <3> QED
      BY <2>11, <3>1, ApartEnds
  <2>15. Len(held') = frame.base + 1 /\ held' # <<>>
    <3>1. Len(held') = frame.base + 1
      BY <2>1, <2>21, ListAppend
    <3>2. Len(held') # 0
      BY <1>6, <3>1
    <3> QED
      BY <3>1, <3>2, EmptyIsList
  <2>16. FramesOK(heap', held', front)
    <3>1. Len(held') \in Nat /\ frame.base <= Len(held')
      BY <1>6, <2>15
    <3>2. Alive(heap) \subseteq Alive(heap')
      BY <1>12, <2>3, <2>7
    <3> QED
      BY <1>1, <1>3, <3>1, <3>2, FramesFront DEF frame, front
  <2>17. Good({}, NewRank(rank, n, bound), bound + 1, heap', trees', held', dropped', job')
    <3>1. heap' = h2 /\ job' = [job EXCEPT !.frames = front]
      BY <1>12, <2>3 DEF front
    <3> QED
      BY <1>1, <1>2, <2>13, <2>14, <2>15, <2>16, <3>1, ParseBack DEF rs, anchor
  <2>18. Kept
    BY <1>1, <1>12, <2>3, <2>7 DEF Kept
  <2> QED
    BY <2>17, <2>18
<1>13. CASE /\ s.changed /\ over /\ ~builds
            /\ s.kids # <<>> \/ TotalBytes(s) = 0
            /\ job' = [job EXCEPT !.frames = Front(@)]
            /\ UNCHANGED <<heap, held>>
  <2>1. job' = [job EXCEPT !.frames = front] /\ heap' = heap /\ held' = held
    BY <1>13 DEF front
  <2>2. FramesOK(heap', held', front)
    <3>1. frame.base <= Len(held)
      BY <1>4, <1>6
    <3> QED
      BY <1>1, <1>3, <1>4, <2>1, <3>1, FramesFront DEF frame, front
  <2>3. Apart(Own(heap', rs, held', {}), {}, anchor, rank, bound) /\ Core(heap', rs, held', {})
    BY <1>2, <2>1 DEF Apart, Sole, own
  <2>4. Good({}, rank, bound, heap', trees', held', dropped', job')
    BY <1>1, <1>2, <1>3, <2>1, <2>2, <2>3, ParseBack DEF rs, anchor
  <2>5. Kept
    BY <1>1, <2>1 DEF Kept
  <2> QED
    BY <2>4, <2>5
<1> QED
  BY <1>7, <1>9, <1>10, <1>11, <1>12, <1>13

\* References that are counted are let go of: they are due again.
Lets(h, rs, hd, list, h2, dr2) ==
    /\ Loose(h2, rs, hd, dr2) /\ Own(h2, rs, hd, dr2) = Own(h, rs, hd, {})
    /\ DOMAIN h2 = DOMAIN h /\ \A id \in DOMAIN h : h2[id].node = h[id].node
    /\ \A id : id \in Alive(h2) <=> id \in Alive(h) /\ id \notin Freed(h, list)
    /\ \A id \in Nat \ {0} :
         Times(id, list) \in Nat /\ Due(h2, rs, hd, dr2, id) = Due(h, rs, hd, {}, id) - Times(id, list)
LEMMA ReleaseLets ==
    ASSUME NEW h, NEW rs, NEW hd, Loose(h, rs, hd, {}), NEW list, IsList(list), Counted(h, list),
           NEW h2, h2 = Released(h, list), NEW dr2, dr2 = Freed(h, list)
    PROVE  Lets(h, rs, hd, list, h2, dr2)
<1> DEFINE dr == {}
<1>1. dr2 = WithFreed(dr, h, list) /\ Loose(h, rs, hd, dr)
  BY DEF WithFreed
<1> HIDE DEF dr
<1>2. Loose(h2, rs, hd, dr2) /\ Own(h2, rs, hd, dr2) = Own(h, rs, hd, dr)
  BY <1>1, StepRelease
<1>3. DOMAIN h2 = DOMAIN h
  BY <1>1, StepRelease
<1>6. ASSUME NEW id PROVE id \in Alive(h2) <=> id \in Alive(h) /\ id \notin Freed(h, list)
  BY <1>1, StepRelease
<1>4. \A id \in DOMAIN h : h2[id].node = h[id].node
  BY <1>1, StepRelease
<1>5. ASSUME NEW id \in Nat \ {0}
      PROVE  Times(id, list) \in Nat /\ Due(h2, rs, hd, dr2, id) = Due(h, rs, hd, dr, id) - Times(id, list)
  BY <1>1, StepRelease
<1> QED
  BY <1>2, <1>3, <1>4, <1>5, <1>6 DEF Lets, dr

LEMMA ParseNothingGood ==
    ASSUME NEW O, NEW rank, NEW bound, Good(O, rank, bound, heap, trees, held, dropped, job), ParseNothing
    PROVE  Good({}, rank, bound, heap', trees', held', dropped', job') /\ Kept
<1> DEFINE rs == RootsOf(trees)  own == Own(heap, rs, held, {})  e == <<>>
<1>1. /\ Core(heap, rs, held, {}) /\ TreesOK(trees) /\ dropped = {} /\ O = {}
      /\ Apart(own, O, Anchor(held, job), rank, bound) /\ AllShaped(held)
  BY GoodParse DEF ParseNothing
<1>2. /\ heap' = Released(heap, held) /\ dropped' = Freed(heap, held) /\ held' = e
      /\ job' = Idle /\ trees' = trees
  BY DEF ParseNothing
<1>3. IsList(held) /\ Loose(heap, rs, held, {})
  BY <1>1 DEF AllShaped, Core
<1>4. Counted(heap, held)
  BY <1>1, OwnEnds, HeldIsCounted
<1>20. AllShaped(e) /\ \A id : Times(id, e) = 0
  BY EmptyIsList, TimesEmpty DEF AllShaped
<1> HIDE DEF rs, own, e
<1>5. Lets(heap, rs, held, held, heap', dropped')
  BY <1>2, <1>3, <1>4, ReleaseLets
<1>6. Loose(heap', rs, held, dropped') /\ Own(heap', rs, held, dropped') = own
  BY <1>5 DEF Lets, own
<1>7. Loose(heap', rs, e, dropped') /\ Own(heap', rs, e, dropped') = With(own, -1, e)
  BY <1>6, <1>20, StepHeld
<1>8. ASSUME NEW id \in Nat \ {0} PROVE Due(heap', rs, e, dropped', id) = 0
  <2>1. Due(heap', rs, e, dropped', id) = Due(heap', rs, held, dropped', id) + Times(id, held) - Times(id, e)
    BY <1>6, <1>20, StepHeld
  <2>2. Times(id, held) \in Nat /\ Due(heap', rs, held, dropped', id) = Due(heap, rs, held, {}, id) - Times(id, held)
    BY <1>5 DEF Lets
  <2>3. Due(heap, rs, held, {}, id) = 0
    BY <1>1 DEF Core
  <2> QED
    BY <1>20, <2>1, <2>2, <2>3
<1>9. Core(heap', rs, held', dropped')
  BY <1>2, <1>7, <1>8 DEF Core
<1>10. Apart(Own(heap', rs, held', dropped'), {}, Anchor(held', job'), rank, bound)
  BY <1>1, <1>2, <1>7, ApartEnds
<1>11. IdleOK({}, held', job')
  BY <1>2 DEF IdleOK, e
<1>12. Good({}, rank, bound, heap', trees', held', dropped', job')
  BY <1>1, <1>2, <1>9, <1>10, <1>11 DEF Good, JobOK, rs
<1>13. Kept
  BY <1>2, <1>5 DEF Kept, Lets
<1> QED
  BY <1>12, <1>13

LEMMA ParseEndGood ==
    ASSUME NEW O, NEW rank, NEW bound, Good(O, rank, bound, heap, trees, held, dropped, job), ParseEnd
    PROVE  Good({}, rank, bound, heap', trees', held', dropped', job') /\ Kept
<1> DEFINE rs == RootsOf(trees)  own == Own(heap, rs, held, {})  e == <<>>  front == Front(held)
           r == Last(held)  rs2 == RootsOf(trees')  tree == NewTree(r, job.ranges, job.text)
<1>1. job.op = "balance" /\ dropped = {}
  BY DEF ParseEnd, Doing
<1>2. /\ heap' = Released(heap, front) /\ dropped' = Freed(heap, front) /\ held' = e
      /\ job' = Idle /\ trees' = Append(trees, tree)
  BY DEF ParseEnd
<1>3. /\ Core(heap, rs, held, dropped) /\ TreesOK(trees)
      /\ Apart(Own(heap, rs, held, dropped), O, Anchor(held, job), rank, bound)
      /\ JobOK(O, rank, heap, trees, held, dropped, job)
  BY DEF Good
<1>4. Core(heap, rs, held, {}) /\ Apart(own, O, Anchor(held, job), rank, bound)
  BY <1>1, <1>3
<1>5. held # <<>>
  <2>1. BalanceOK(O, rank, heap, held, dropped, job)
    BY <1>1, <1>3, WhichJob
  <2> QED
    BY <2>1 DEF BalanceOK
<1>6. AllShaped(held) /\ IsList(held) /\ Loose(heap, rs, held, {})
  BY <1>4, OwnEnds DEF Core, Loose, Holding, AllShaped
<1>7. /\ IsList(front) /\ Len(held) \in DOMAIN held /\ r = held[Len(held)] /\ Shaped(r)
      /\ \A id : Times(id, held) = Times(id, front) + Hit(r, id)
  BY <1>5, <1>6, ListFront, TimesFront DEF AllShaped
<1>8. Counted(heap, front)
  <2> SUFFICES ASSUME NEW id \in Nat \ {0} PROVE Times(id, front) <= Refs(heap, id)
    BY DEF Counted
  <2>1. Counted(heap, held)
    BY <1>4, OwnEnds, HeldIsCounted
  <2>2. Times(id, held) <= Refs(heap, id) /\ Refs(heap, id) \in Nat
    BY <1>6, <2>1, HeapIds DEF Counted, Loose
  <2>3. Times(id, front) \in Nat /\ Hit(r, id) \in {0, 1}
    BY <1>7, TimesType DEF Hit
  <2> HIDE DEF front, r
  <2> QED
    BY <1>7, <2>2, <2>3
<1>20. AllShaped(e) /\ \A id : Times(id, e) = 0
  BY EmptyIsList, TimesEmpty DEF AllShaped
<1>9. /\ TreesOK(trees') /\ rs2 = Append(rs, r) /\ \A u \in DOMAIN trees : trees'[u] = trees[u]
  <2>1. "root" \in DOMAIN tree /\ tree.root = r
    BY DEF NewTree
  <2> HIDE DEF tree, r
  <2> QED
    BY <1>2, <1>3, <2>1, RootsAppend
<1> HIDE DEF rs, own, e, front, r, rs2, tree
<1>10. Lets(heap, rs, held, front, heap', dropped')
  BY <1>2, <1>6, <1>7, <1>8, ReleaseLets
<1>11. Loose(heap', rs, held, dropped') /\ Own(heap', rs, held, dropped') = own
  BY <1>10 DEF Lets, own
<1>12. AllShaped(rs)
  BY <1>11, OwnEnds DEF Loose, Holding
<1>13. AllShaped(rs2) /\ \A id : Times(id, rs2) = Times(id, rs) + Hit(r, id) /\ Times(id, rs) \in Nat
                                 /\ Hit(r, id) \in {0, 1}
  BY <1>7, <1>9, <1>12, ShapedAppend
<1>14. Loose(heap', rs2, held, dropped') /\ Own(heap', rs2, held, dropped') = With(own, 0, rs2)
  BY <1>11, <1>13, StepRoots
<1>15. Loose(heap', rs2, e, dropped')
       /\ Own(heap', rs2, e, dropped') = With(Own(heap', rs2, held, dropped'), -1, e)
  BY <1>14, <1>20, StepHeld
<1>16. ASSUME NEW id \in Nat \ {0} PROVE Due(heap', rs2, e, dropped', id) = 0
  <2>1. Due(heap', rs2, e, dropped', id) = Due(heap', rs2, held, dropped', id) + Times(id, held) - Times(id, e)
    BY <1>14, <1>20, StepHeld
  <2>2. Due(heap', rs2, held, dropped', id) = Due(heap', rs, held, dropped', id) + Times(id, rs) - Times(id, rs2)
    BY <1>11, <1>13, StepRoots
  <2>3. Times(id, front) \in Nat /\ Due(heap', rs, held, dropped', id) = Due(heap, rs, held, {}, id) - Times(id, front)
    BY <1>10 DEF Lets
  <2>4. Due(heap, rs, held, {}, id) = 0
    BY <1>4 DEF Core
  <2> QED
    BY <1>7, <1>13, <1>20, <2>1, <2>2, <2>3, <2>4
<1>17. Core(heap', rs2, held', dropped')
  BY <1>2, <1>15, <1>16 DEF Core
<1>18. Apart(Own(heap', rs2, held', dropped'), {}, Anchor(held', job'), rank, bound)
  <2>1. Apart(Own(heap', rs2, held, dropped'), {}, Anchor(held', job'), rank, bound)
    BY <1>4, <1>14, ApartEnds
  <2> QED
    BY <1>2, <1>15, <2>1, ApartEnds
<1>19. IdleOK({}, held', job')
  BY <1>2 DEF IdleOK, e
<1>21. Good({}, rank, bound, heap', trees', held', dropped', job')
  BY <1>9, <1>17, <1>18, <1>19 DEF Good, JobOK, rs2
<1>22. Kept
  BY <1>9, <1>10 DEF Kept, Lets
<1> QED
  BY <1>21, <1>22

LEMMA AcceptGood ==
    ASSUME NEW O, NEW rank, NEW bound, Good(O, rank, bound, heap, trees, held, dropped, job), Accept
    PROVE  /\ \E O2, rank2, bound2 : Good(O2, rank2, bound2, heap', trees', held', dropped', job')
           /\ Kept
<1> DEFINE rs == RootsOf(trees)  own == Own(heap, rs, held, {})
           r == held[2]
           kids == Kids(heap, r)
           kept == Retained(heap, kids)
           t == NewNode(Deref(heap, r).symbol, kids, Seen(heap, kids), Deref(heap, r).production)
           root == Alloc(kept, t)
           made == IF kids = <<>> THEN [heap |-> heap, ref |-> r]
                   ELSE [heap |-> Released(root.heap, <<r>>), ref |-> root.ref]
           text == trees[job.tree].text  ranges == trees[job.tree].ranges
           todo == IF kids = <<>> THEN {} ELSE {made.ref.id}
           anchor == Anchor(held', job')
<1>1. /\ Doing("parse") /\ Len(held) = 2
      /\ heap' = made.heap /\ held' = [held EXCEPT ![2] = made.ref]
      /\ dropped' = IF kids = <<>> THEN {} ELSE Freed(root.heap, <<r>>)
      /\ job' = Balancing(text, ranges, todo)
      /\ trees' = trees
  BY Zenon DEF Accept
<1>2. /\ Core(heap, rs, held, {}) /\ TreesOK(trees) /\ dropped = {} /\ O = {}
      /\ Apart(own, O, Anchor(held, job), rank, bound) /\ AllShaped(held)
  BY <1>1, GoodParse
<1>3. /\ IsList(held) /\ DOMAIN held = 1 .. 2 /\ 2 \in DOMAIN held
      /\ Shaped(r) /\ (r.id # 0 => r.id \in Alive(heap) /\ r.id \in DOMAIN heap)
  <2>1. IsList(held) /\ DOMAIN held = 1 .. 2
    BY <1>1, <1>2, ListIsSeq DEF AllShaped
  <2>2. 2 \in DOMAIN held /\ -1 \in DOMAIN own /\ own[-1] = held
    BY <2>1, OwnEnds
  <2>3. Shaped(held[2]) /\ (held[2].id # 0 => held[2].id \in Alive(heap) /\ held[2].id \in DOMAIN heap)
    BY <1>2, <2>2, ThereIsAlive
  <2> QED
    BY <2>1, <2>2, <2>3
<1>4. /\ job'.op = "balance" /\ job'.todo = todo /\ job'.top = 0 /\ job'.at = 0 /\ job'.turned = <<>>
      /\ {"op", "text", "ranges", "todo", "top", "round", "at", "left", "turned"} \subseteq DOMAIN job'
  <2> HIDE DEF text, ranges, todo
  <2> QED
    BY <1>1 DEF Balancing
<1>5. IsList(job'.turned) /\ DOMAIN job'.turned = {}
  BY <1>4, EmptyIsList
<1> HIDE DEF rs, own, r, kids, kept, t, root, made, text, ranges, todo, anchor
<1>6. CASE kids = <<>>
  <2>1. heap' = heap /\ dropped' = {} /\ todo = {}
    BY <1>1, <1>6 DEF made, todo
  <2>2. held' = held
    <3>1. made.ref = held[2]
      BY <1>6 DEF made, r
    <3>2. held \in Seq({held[k] : k \in DOMAIN held})
      BY <1>3 DEF IsList
    <3> QED
      BY <1>1, <1>3, <3>1, <3>2
  <2>3. Core(heap', rs, held', dropped') /\ Apart(Own(heap', rs, held', dropped'), {}, anchor, rank, bound)
    BY <1>2, <2>1, <2>2 DEF Apart, Sole, own
  <2>4. held' # <<>>
    BY <1>1, <2>2, EmptyIsList
  <2>5. BalanceOK({}, rank, heap', held', dropped', job')
    BY <1>4, <1>5, <2>1, <2>4 DEF BalanceOK
  <2>6. Good({}, rank, bound, heap', trees', held', dropped', job')
    BY <1>1, <1>2, <2>3, <2>5 DEF Good, JobOK, rs, anchor
  <2>7. Kept
    BY <1>1, <2>1 DEF Kept
  <2> QED
    BY <2>6, <2>7
<1>7. CASE kids # <<>>
  <2> DEFINE n == Len(heap) + 1  h2 == root.heap  list == <<r>>
  <2>1. r.id # 0 /\ kids = heap[r.id].node.kids /\ r.id \in Alive(heap) /\ r.id \in DOMAIN heap
    <3>1. r.id = 0 => kids = <<>>
      BY <1>3 DEF kids, Kids, Deref, Shaped, Inlined
    <3> QED
      BY <1>3, <1>7, <3>1 DEF kids, Kids, Deref
  <2>2. /\ AllShaped(kids) /\ IsList(kids)
        /\ \A i \in DOMAIN kids : kids[i].id # 0 => kids[i].id \in Alive(heap)
    <3>1. /\ AllShaped(heap[r.id].node.kids)
          /\ \A i \in DOMAIN heap[r.id].node.kids :
               heap[r.id].node.kids[i].id # 0 => heap[r.id].node.kids[i].id \in Alive(heap)
      BY <1>2, <2>1, KidsAlive DEF own
    <3> QED
      BY <2>1, <3>1 DEF AllShaped
  <2>3. Loose(heap, rs, held, {}) /\ \A id \in Nat \ {0} : Due(heap, rs, held, {}, id) = 0
    BY <1>2 DEF Core
  <2>4. kept = Retained(heap, kids)
    BY DEF kept
  <2>5. Loose(kept, rs, held, {}) /\ Own(kept, rs, held, {}) = own
    BY <2>2, <2>3, <2>4, StepRetain DEF own
  <2>6. DOMAIN kept = DOMAIN heap /\ Len(kept) = Len(heap)
    BY <2>2, <2>3, <2>4, StepRetain
  <2>7. Alive(kept) = Alive(heap)
    BY <2>2, <2>3, <2>4, StepRetain
  <2>8. \A id \in DOMAIN heap : kept[id].node = heap[id].node
    BY <2>2, <2>3, <2>4, StepRetain
  <2>9. ASSUME NEW id \in Nat \ {0}
        PROVE  /\ Times(id, kids) \in Nat /\ Due(kept, rs, held, {}, id) = Times(id, kids)
               /\ Refs(kept, id) = Refs(heap, id) + Times(id, kids)
    <3>1. /\ Times(id, kids) \in Nat
          /\ Due(kept, rs, held, {}, id) = Due(heap, rs, held, {}, id) + Times(id, kids)
          /\ Refs(kept, id) = Refs(heap, id) + Times(id, kids)
      BY <2>2, <2>3, <2>4, StepRetain
    <3> QED
      BY <2>3, <3>1
  <2>10. Stands(t) /\ t.kids = kids
    BY <2>2, NewNodeShape DEF t
  <2>11. h2 = Append(kept, [node |-> t, refs |-> 1]) /\ root.ref = HeapRef(n)
    BY <2>6, <2>10 DEF root, Alloc, Stands
  <2>12. Allocates(kept, rs, held, {}, t, n, h2)
    <3>1. n = Len(kept) + 1
      BY <2>6
    <3> HIDE DEF n, h2
    <3> QED
      BY <2>2, <2>5, <2>10, <2>11, <3>1, StepAlloc
  <2> HIDE DEF n, h2, list
  <2>13. /\ Loose(h2, rs, held, {}) /\ Own(h2, rs, held, {}) = With(own, n, kids)
         /\ n \in Nat \ {0} /\ n \notin DOMAIN heap
         /\ DOMAIN h2 = DOMAIN heap \cup {n} /\ Alive(h2) = Alive(heap) \cup {n}
         /\ \A id \in DOMAIN heap : h2[id].node = heap[id].node
    BY <2>5, <2>6, <2>7, <2>8, <2>10, <2>12 DEF Allocates
  <2>14. ASSUME NEW id \in Nat \ {0}
         PROVE  /\ Due(h2, rs, held, {}, id) = (IF id = n THEN 1 ELSE 0)
                /\ Refs(h2, id) = Refs(kept, id) + (IF id = n THEN 1 ELSE 0)
    <3>1. /\ Due(h2, rs, held, {}, id) =
               Due(kept, rs, held, {}, id) + (IF id = n THEN 1 ELSE 0) - Times(id, t.kids)
          /\ Refs(h2, id) = Refs(kept, id) + (IF id = n THEN 1 ELSE 0)
      BY <2>12 DEF Allocates
    <3> QED
      BY <2>9, <2>10, <3>1
  <2>15. IsList(list) /\ \A id : Times(id, list) = Hit(r, id) /\ Hit(r, id) \in {0, 1}
    BY TimesOne DEF list, Hit
  <2>16. Counted(h2, list)
    <3> SUFFICES ASSUME NEW id \in Nat \ {0} PROVE Times(id, list) <= Refs(h2, id)
      BY DEF Counted
    <3>1. Refs(heap, id) \in Nat
      BY <2>3, HeapIds DEF Loose
    <3>2. r.id = id => Refs(heap, id) > 0
      BY <2>1 DEF Refs, Alive
    <3> QED
      BY <2>9, <2>14, <2>15, <3>1, <3>2 DEF Hit
  <2>17. /\ heap' = Released(h2, list) /\ dropped' = Freed(h2, list)
         /\ held' = [held EXCEPT ![2] = HeapRef(n)] /\ todo = {n}
    BY <1>1, <1>7, <2>11 DEF made, todo, h2, list, HeapRef
  <2>18. Lets(h2, rs, held, list, heap', dropped')
    BY <2>13, <2>15, <2>16, <2>17, ReleaseLets
  <2>19. /\ Loose(heap', rs, held, dropped') /\ Own(heap', rs, held, dropped') = With(own, n, kids)
         /\ \A id \in DOMAIN heap : heap'[id].node = heap[id].node
    BY <2>13, <2>18 DEF Lets
  <2>20. HeapRef(n).id = n /\ Shaped(HeapRef(n))
    BY <2>13 DEF HeapRef, Shaped
  <2>21. /\ IsList(held') /\ Len(held') = 2 /\ DOMAIN held' = 1 .. 2
         /\ held'[2] = HeapRef(n) /\ held'[1] = held[1]
    <3>1. IsList(held') /\ Len(held') = Len(held) /\ DOMAIN held' = DOMAIN held
      BY <1>3, <2>17, ListExcept
    <3> QED
      BY <1>1, <1>3, <2>17, <3>1
  <2>22. AllShaped(held')
    BY <1>2, <1>3, <2>20, <2>21 DEF AllShaped
  <2>23. /\ Loose(heap', rs, held', dropped')
         /\ Own(heap', rs, held', dropped') = With(With(own, n, kids), -1, held')
    <3>1. /\ Loose(heap', rs, held', dropped')
          /\ Own(heap', rs, held', dropped') = With(Own(heap', rs, held, dropped'), -1, held')
      BY <2>19, <2>22, StepHeld
    <3> QED
      BY <2>19, <3>1
  <2>24. ASSUME NEW id \in Nat \ {0} PROVE Due(heap', rs, held', dropped', id) = 0
    <3>1. Due(heap', rs, held', dropped', id)
            = Due(heap', rs, held, dropped', id) + Times(id, held) - Times(id, held')
      BY <2>19, <2>22, StepHeld
    <3>2. Due(heap', rs, held, dropped', id) = Due(h2, rs, held, {}, id) - Times(id, list)
      BY <2>18 DEF Lets
    <3>3. Times(id, held') = Times(id, held) - Hit(r, id) + Hit(HeapRef(n), id)
      <4>1. \A j \in DOMAIN held : j # 2 => held'[j] = held[j]
        BY <1>3, <2>21
      <4>2. Times(id, held') = Times(id, held) - Hit(held[2], id) + Hit(held'[2], id)
        BY <1>3, <2>21, <4>1, TimesReplaced
      <4> QED
        BY <2>21, <4>2 DEF r
    <3>4. Times(id, held) \in Nat /\ Hit(HeapRef(n), id) = (IF id = n THEN 1 ELSE 0)
      BY <1>3, <2>20, TimesType DEF Hit
    <3> QED
      BY <2>14, <2>15, <3>1, <3>2, <3>3, <3>4
  <2>25. Core(heap', rs, held', dropped')
    BY <2>23, <2>24 DEF Core
  <2> DEFINE rank2 == NewRank(rank, n, bound)  own1 == With(own, n, kids)  own2 == With(own1, -1, held')
  <2>26. Apart(own2, {}, anchor, rank2, bound + 1)
    <3>1. Apart(own1, {}, anchor, rank2, bound + 1)
      BY <1>2, <2>2, <2>13, NewIsApart DEF own
    <3> HIDE DEF own1, rank2
    <3> QED
      BY <3>1, ApartEnds
  <2>27. anchor = <<-1, 2>>
    BY <1>4, <2>21 DEF anchor, Anchor
  <2>28. Sole(own2, {n}, anchor)
    <3> SUFFICES ASSUME NEW p \in DOMAIN own2, NEW j \in DOMAIN own2[p], own2[p][j].id = n
                 PROVE  <<p, j>> = anchor
      BY <2>13 DEF Sole
    <3>1. \A x \in Alive(heap) : x # n
      BY <2>13 DEF Alive
    <3>2. \A q \in DOMAIN own : \A k \in DOMAIN own[q] : own[q][k].id # n
      <4> SUFFICES ASSUME NEW q \in DOMAIN own, NEW k \in DOMAIN own[q] PROVE own[q][k].id # n
        OBVIOUS
      <4>1. own[q][k].id # 0 => own[q][k].id \in Alive(heap)
        BY <1>2, ThereIsAlive DEF own
      <4> QED
        BY <2>13, <3>1, <4>1
    <3>3. CASE p = -1
      <4>1. own2[p] = held' /\ j \in 1 .. 2
        BY <2>21, <3>3 DEF With
      <4>2. held[1].id # n
        <5>1. -1 \in DOMAIN own /\ own[-1] = held
          BY OwnEnds DEF own
        <5> QED
          BY <1>3, <3>2, <5>1
      <4>3. j # 1
        BY <2>21, <4>1, <4>2
      <4> QED
        BY <2>27, <3>3, <4>1, <4>3
    <3>4. CASE p # -1 /\ p = n
      <4>1. own2[p] = kids
        BY <3>4 DEF With
      <4> QED
        BY <2>2, <2>13, <3>1, <4>1
    <3>5. CASE p # -1 /\ p # n
      <4>1. own2[p] = own[p] /\ p \in DOMAIN own
        BY <3>5 DEF With
      <4> QED
        BY <3>2, <4>1
    <3> QED
      BY <3>3, <3>4, <3>5
  <2>29. Apart(Own(heap', rs, held', dropped'), {n}, anchor, rank2, bound + 1)
    BY <2>23, <2>26, <2>28 DEF Apart
  <2>30. {n} \subseteq Alive(heap')
    <3>1. n \in Alive(h2) /\ n # r.id
      BY <2>1, <2>13
    <3>2. n \notin Freed(h2, list)
      <4>1. Times(n, list) = 0
        BY <2>15, <3>1 DEF Hit
      <4> QED
        BY <4>1 DEF Freed
    <3> QED
      BY <2>18, <3>1, <3>2 DEF Lets
  <2>31. BalanceOK({n}, rank2, heap', held', dropped', job')
    <3>1. held' # <<>>
      BY <2>21, EmptyIsList
    <3>2. held'[Len(held')].id = n
      BY <2>20, <2>21
    <3> QED
      BY <1>4, <1>5, <2>17, <3>1, <3>2 DEF BalanceOK
  <2> HIDE DEF rank2
  <2>32. Good({n}, rank2, bound + 1, heap', trees', held', dropped', job')
    BY <1>1, <1>2, <2>25, <2>29, <2>30, <2>31 DEF Good, JobOK, rs, anchor
  <2>33. Kept
    BY <1>1, <2>19 DEF Kept
  <2> QED
    BY <2>32, <2>33
<1> QED
  BY <1>6, <1>7

\* A child of a node that is alive is replaced.
KidSet(h, rs, hd, dr, p, i, r, h2) ==
    /\ Loose(h2, rs, hd, dr) /\ Own(h2, rs, hd, dr) = With(Own(h, rs, hd, dr), p, h2[p].node.kids)
    /\ DOMAIN h2 = DOMAIN h /\ Alive(h2) = Alive(h)
    /\ \A id \in DOMAIN h : h2[id].refs = h[id].refs /\ (id # p => h2[id] = h[id])
    /\ IsList(h2[p].node.kids) /\ DOMAIN h2[p].node.kids = DOMAIN h[p].node.kids
    /\ Len(h2[p].node.kids) = Len(h[p].node.kids)
    /\ h2[p].node.kids[i] = r /\ \A j \in DOMAIN h[p].node.kids : j # i => h2[p].node.kids[j] = h[p].node.kids[j]
    /\ \A id \in Nat \ {0} :
         Due(h2, rs, hd, dr, id) = Due(h, rs, hd, dr, id) + Hit(h[p].node.kids[i], id) - Hit(r, id)
LEMMA StepKid ==
    ASSUME NEW h, NEW rs, NEW hd, NEW dr, Loose(h, rs, hd, dr), NEW p, p \in Alive(h),
           NEW i, i \in DOMAIN h[p].node.kids, NEW r, Shaped(r), NEW h2, h2 = WithKid(h, p, i, r)
    PROVE  KidSet(h, rs, hd, dr, p, i, r, h2)
<1> DEFINE K == h[p].node.kids  K2 == [K EXCEPT ![i] = r]  s == [h[p].node EXCEPT !.kids = K2]
<1>1. HeapOK(h) /\ DroppedOK(h, dr) /\ Holding(Own(h, rs, hd, dr))
  BY DEF Loose
<1>2. p \in DOMAIN h /\ Stands(h[p].node) /\ AllShaped(K) /\ IsList(K)
  <2>2. p \in Alive(h) \cup dr /\ p \in DOMAIN h /\ p # 0 /\ p # -1
    BY <1>1, HeapIds DEF Alive
  <2>1. p \in DOMAIN h /\ p \in DOMAIN Own(h, rs, hd, dr) /\ Own(h, rs, hd, dr)[p] = K
    BY <2>2 DEF Own
  <2> QED
    BY <1>1, <2>1 DEF HeapOK, Entry, Holding, AllShaped
<1>3. /\ IsList(K2) /\ Len(K2) = Len(K) /\ DOMAIN K2 = DOMAIN K /\ K2[i] = r
      /\ \A j \in DOMAIN K : j # i => K2[j] = K[j]
  <2> HIDE DEF K
  <2> QED
    BY <1>2, ListExcept DEF K
<1>4. AllShaped(K2)
  <2> HIDE DEF K, K2
  <2> QED
    BY <1>2, <1>3 DEF AllShaped
<1>5. h2 = [h EXCEPT ![p].node = s]
  BY <1>2 DEF WithKid, Stands
<1>6. Stands(s) /\ s.kids = K2
  <2> HIDE DEF K2
  <2> QED
    BY <1>2, <1>3 DEF Stands
<1> HIDE DEF K, K2, s
<1>7. Writes(h, rs, hd, dr, p, s, h2)
  BY <1>2, <1>4, <1>5, <1>6, StepNode
<1>8. h2[p].node.kids = K2
  BY <1>6, <1>7 DEF Writes
<1>9. ASSUME NEW id \in Nat \ {0}
      PROVE  Due(h2, rs, hd, dr, id) = Due(h, rs, hd, dr, id) + Hit(K[i], id) - Hit(r, id)
  <2>1. Due(h2, rs, hd, dr, id) = Due(h, rs, hd, dr, id) + Times(id, K) - Times(id, K2)
    BY <1>6, <1>7 DEF Writes, K
  <2>2. Times(id, K2) = Times(id, K) - Hit(K[i], id) + Hit(r, id)
    BY <1>2, <1>3, TimesReplaced DEF K
  <2>3. Times(id, K) \in Nat /\ Hit(K[i], id) \in {0, 1} /\ Hit(r, id) \in {0, 1}
    BY <1>2, TimesType DEF Hit
  <2>4. Due(h, rs, hd, dr, id) \in Int
    BY DueType DEF Due
  <2> QED
    BY <2>1, <2>2, <2>3, <2>4
<1> QED
  BY <1>3, <1>6, <1>7, <1>8, <1>9 DEF KidSet, Writes, K

\* The sums of a node change nothing else.
SumIn(h, rs, hd, dr, p, h2) ==
    /\ Core(h2, rs, hd, dr) /\ Own(h2, rs, hd, dr) = Own(h, rs, hd, dr)
    /\ DOMAIN h2 = DOMAIN h /\ Alive(h2) = Alive(h)
    /\ \A id \in DOMAIN h : h2[id].node.kids = h[id].node.kids /\ (id # p => h2[id] = h[id])
LEMMA StepSummed ==
    ASSUME NEW h, NEW rs, NEW hd, NEW dr, Core(h, rs, hd, dr), NEW p, p \in Alive(h),
           NEW h2, h2 = Summed(h, p)
    PROVE  SumIn(h, rs, hd, dr, p, h2)
<1> DEFINE K == h[p].node.kids  s == Summarized(h[p].node, Seen(h, K))
<1>1. Loose(h, rs, hd, dr) /\ HeapOK(h) /\ DroppedOK(h, dr)
  BY DEF Core, Loose
<1>2. /\ p \in DOMAIN h /\ Stands(h[p].node) /\ AllShaped(K)
      /\ p \in DOMAIN Own(h, rs, hd, dr) /\ Own(h, rs, hd, dr)[p] = K
  BY KidsAlive
<1>3. Stands(s) /\ s.kids = K
  BY <1>2, SummarizedShape
<1>4. h2 = [h EXCEPT ![p].node = s]
  BY <1>2 DEF Summed
<1> HIDE DEF K, s
<1>5. Writes(h, rs, hd, dr, p, s, h2)
  BY <1>1, <1>2, <1>3, <1>4, StepNode
<1>6. Own(h2, rs, hd, dr) = Own(h, rs, hd, dr)
  <2>1. Own(h2, rs, hd, dr) = With(Own(h, rs, hd, dr), p, K)
    BY <1>3, <1>5 DEF Writes
  <2> DEFINE own == Own(h, rs, hd, dr)
  <2>2. own = [q \in DOMAIN own |-> own[q]]
    BY DEF Own
  <2> HIDE DEF own
  <2>3. With(own, p, K) = own
    BY <1>2, <2>2 DEF With, own
  <2> QED
    BY <2>1, <2>3 DEF own
<1>7. Core(h2, rs, hd, dr)
  <2>1. ASSUME NEW id \in Nat \ {0} PROVE Due(h2, rs, hd, dr, id) = 0
    <3>1. /\ Due(h2, rs, hd, dr, id) = Due(h, rs, hd, dr, id) + Times(id, K) - Times(id, K)
          /\ Times(id, K) \in Nat
      BY <1>3, <1>5 DEF Writes, K
    <3>2. Due(h, rs, hd, dr, id) = 0
      BY DEF Core
    <3> QED
      BY <3>1, <3>2
  <2> QED
    BY <1>5, <2>1 DEF Core, Writes
<1>8. ASSUME NEW id \in DOMAIN h PROVE h2[id].node.kids = h[id].node.kids /\ (id # p => h2[id] = h[id])
  BY <1>3, <1>5 DEF Writes, K
<1> QED
  BY <1>5, <1>6, <1>7, <1>8 DEF SumIn, Writes

\* A rotation: the grandchild takes the place of the child, which takes the grandchild's last.
Stays(own, own3, h, h3, q) ==
    /\ q \in DOMAIN h => h3[q].node = h[q].node
    /\ q \in DOMAIN own => own3[q] = own[q]
Changes(own3, h, h3, q, i, id) ==
    /\ own3[q] = h3[q].node.kids /\ IsList(h3[q].node.kids)
    /\ DOMAIN h3[q].node.kids = DOMAIN h[q].node.kids
    /\ Len(h3[q].node.kids) = Len(h[q].node.kids)
    /\ h3[q].node.kids[i].id = id
    /\ \A j \in DOMAIN h[q].node.kids : j # i => h3[q].node.kids[j] = h[q].node.kids[j]
Turns(h, rs, hd, dr, T, C, G, m, h3) ==
    /\ Core(h3, rs, hd, dr) /\ DOMAIN h3 = DOMAIN h /\ Alive(h3) = Alive(h)
    /\ DOMAIN Own(h3, rs, hd, dr) = DOMAIN Own(h, rs, hd, dr)
    /\ \A q : q # T /\ q # C /\ q # G => Stays(Own(h, rs, hd, dr), Own(h3, rs, hd, dr), h, h3, q)
    /\ Changes(Own(h3, rs, hd, dr), h, h3, T, 1, G)
    /\ Changes(Own(h3, rs, hd, dr), h, h3, C, 1, h[G].node.kids[m].id)
    /\ Changes(Own(h3, rs, hd, dr), h, h3, G, m, C)
LEMMA TurnHeap ==
    ASSUME NEW h, NEW rs, NEW hd, NEW dr, Core(h, rs, hd, dr), NEW T, NEW C, NEW G,
           T \in Alive(h), C \in Alive(h), G \in Alive(h), T # C, T # G, C # G,
           NEW a, a.id = G, NEW b, NEW m, h[G].node.kids[m] = b, NEW c, c.id = C,
           h[T].node.kids[1].id = C, h[C].node.kids[1].id = G,
           NEW h1, KidSet(h, rs, hd, dr, T, 1, a, h1),
           NEW h2, KidSet(h1, rs, hd, dr, C, 1, b, h2),
           NEW h3, KidSet(h2, rs, hd, dr, G, m, c, h3)
    PROVE  Turns(h, rs, hd, dr, T, C, G, m, h3)
<1>1. Loose(h, rs, hd, dr) /\ \A id \in Nat \ {0} : Due(h, rs, hd, dr, id) = 0
  BY DEF Core
<1>2. T \in DOMAIN h /\ C \in DOMAIN h /\ G \in DOMAIN h
  BY DEF Alive
<1>3. /\ Alive(h1) = Alive(h) /\ DOMAIN h1 = DOMAIN h
      /\ h1[C] = h[C] /\ h1[G] = h[G] /\ Own(h1, rs, hd, dr) = With(Own(h, rs, hd, dr), T, h1[T].node.kids)
      /\ \A q \in DOMAIN h : q # T => h1[q] = h[q]
  BY <1>2 DEF KidSet
<1>4. /\ Alive(h2) = Alive(h) /\ DOMAIN h2 = DOMAIN h
      /\ h2[T] = h1[T] /\ h2[G] = h[G] /\ Own(h2, rs, hd, dr) = With(Own(h1, rs, hd, dr), C, h2[C].node.kids)
      /\ \A q \in DOMAIN h : q # T /\ q # C => h2[q] = h[q]
  BY <1>2, <1>3 DEF KidSet
<1>5. /\ Loose(h3, rs, hd, dr) /\ Alive(h3) = Alive(h) /\ DOMAIN h3 = DOMAIN h
      /\ h3[T] = h1[T] /\ h3[C] = h2[C] /\ Own(h3, rs, hd, dr) = With(Own(h2, rs, hd, dr), G, h3[G].node.kids)
  BY <1>2, <1>4 DEF KidSet
<1>6. \A q \in DOMAIN h : q # T /\ q # C /\ q # G => h3[q] = h[q]
  BY <1>4 DEF KidSet
<1>7. ASSUME NEW id \in Nat \ {0} PROVE Due(h3, rs, hd, dr, id) = 0
  <2>1. Due(h1, rs, hd, dr, id) = Due(h, rs, hd, dr, id) + Hit(h[T].node.kids[1], id) - Hit(a, id)
    BY DEF KidSet
  <2>2. Due(h2, rs, hd, dr, id) = Due(h1, rs, hd, dr, id) + Hit(h1[C].node.kids[1], id) - Hit(b, id)
    BY DEF KidSet
  <2>3. Due(h3, rs, hd, dr, id) = Due(h2, rs, hd, dr, id) + Hit(h2[G].node.kids[m], id) - Hit(c, id)
    BY DEF KidSet
  <2>4. Hit(h[T].node.kids[1], id) = Hit(c, id) /\ Hit(h1[C].node.kids[1], id) = Hit(a, id)
        /\ Hit(h2[G].node.kids[m], id) = Hit(b, id)
    BY <1>3, <1>4 DEF Hit
  <2>5. Hit(a, id) \in {0, 1} /\ Hit(b, id) \in {0, 1} /\ Hit(c, id) \in {0, 1}
    BY DEF Hit
  <2>6. Due(h, rs, hd, dr, id) = 0
    BY <1>1
  <2> QED
    BY <2>1, <2>2, <2>3, <2>4, <2>5, <2>6
<1>8. Core(h3, rs, hd, dr)
  BY <1>5, <1>7 DEF Core
<1> DEFINE own == Own(h, rs, hd, dr)  own1 == Own(h1, rs, hd, dr)  own2 == Own(h2, rs, hd, dr)
           own3 == Own(h3, rs, hd, dr)
<1>9. T \in DOMAIN own /\ C \in DOMAIN own /\ G \in DOMAIN own
  BY DEF Own
<1>10. /\ own1 = With(own, T, h1[T].node.kids) /\ own2 = With(own1, C, h2[C].node.kids)
       /\ own3 = With(own2, G, h3[G].node.kids)
  BY <1>3, <1>4, <1>5
<1> HIDE DEF own, own1, own2, own3
<1>11. DOMAIN own1 = DOMAIN own /\ DOMAIN own2 = DOMAIN own /\ DOMAIN own3 = DOMAIN own
  BY <1>9, <1>10 DEF With
<1>12. own1[T] = h1[T].node.kids /\ \A q \in DOMAIN own : q # T => own1[q] = own[q]
  BY <1>10, <1>11 DEF With
<1>13. own2[C] = h2[C].node.kids /\ \A q \in DOMAIN own : q # C => own2[q] = own1[q]
  BY <1>10, <1>11 DEF With
<1>14. own3[G] = h3[G].node.kids /\ \A q \in DOMAIN own : q # G => own3[q] = own2[q]
  BY <1>10, <1>11 DEF With
<1>15. ASSUME NEW q, q # T, q # C, q # G PROVE Stays(own, own3, h, h3, q)
  BY <1>6, <1>12, <1>13, <1>14, <1>15 DEF Stays
<1>16. own3[T] = h3[T].node.kids
  BY <1>5, <1>9, <1>12, <1>13, <1>14
<1>17. own3[C] = h3[C].node.kids
  BY <1>5, <1>9, <1>13, <1>14
<1>18. Changes(own3, h, h3, T, 1, G)
  <2>1. /\ IsList(h1[T].node.kids) /\ DOMAIN h1[T].node.kids = DOMAIN h[T].node.kids
        /\ Len(h1[T].node.kids) = Len(h[T].node.kids) /\ h1[T].node.kids[1] = a
        /\ \A j \in DOMAIN h[T].node.kids : j # 1 => h1[T].node.kids[j] = h[T].node.kids[j]
    BY DEF KidSet
  <2> QED
    BY <1>5, <1>16, <2>1 DEF Changes
<1>19. Changes(own3, h, h3, C, 1, b.id)
  <2>1. /\ IsList(h2[C].node.kids) /\ DOMAIN h2[C].node.kids = DOMAIN h1[C].node.kids
        /\ Len(h2[C].node.kids) = Len(h1[C].node.kids) /\ h2[C].node.kids[1] = b
        /\ \A j \in DOMAIN h1[C].node.kids : j # 1 => h2[C].node.kids[j] = h1[C].node.kids[j]
    BY DEF KidSet
  <2> QED
    BY <1>3, <1>5, <1>17, <2>1 DEF Changes
<1>20. Changes(own3, h, h3, G, m, C)
  <2>1. /\ IsList(h3[G].node.kids) /\ DOMAIN h3[G].node.kids = DOMAIN h2[G].node.kids
        /\ Len(h3[G].node.kids) = Len(h2[G].node.kids) /\ h3[G].node.kids[m] = c
        /\ \A j \in DOMAIN h2[G].node.kids : j # m => h3[G].node.kids[j] = h2[G].node.kids[j]
    BY DEF KidSet
  <2> QED
    BY <1>4, <1>14, <2>1 DEF Changes
<1>21. Turns(h, rs, hd, dr, T, C, G, m, h3)
  BY <1>5, <1>8, <1>11, <1>15, <1>18, <1>19, <1>20 DEF Turns, own, own3
<1> QED
  BY <1>21

\* The grandchild comes to be above the child: no subtree is below itself then either.
RankUp(rank, C, G) == [y \in Nat |-> IF y = G THEN 3 * rank[C] + 1 ELSE 3 * rank[y]]
LEMMA TurnsApart ==
    ASSUME NEW h, NEW rs, NEW hd, NEW dr, Core(h, rs, hd, dr), NEW T, NEW C, NEW G,
           T \in Alive(h), C \in Alive(h), G \in Alive(h), T # C, T # G, C # G, h[G].refs = 1,
           1 \in DOMAIN h[T].node.kids, h[T].node.kids[1].id = C,
           1 \in DOMAIN h[C].node.kids, h[C].node.kids[1].id = G,
           NEW m, m \in DOMAIN h[G].node.kids,
           NEW h3, Turns(h, rs, hd, dr, T, C, G, m, h3),
           NEW O, T \in O, C \in O, G \in O, NEW anchor, NEW rank, NEW bound,
           Apart(Own(h, rs, hd, dr), O, anchor, rank, bound)
    PROVE  /\ RankOn(RankUp(rank, C, G), 3 * bound + 1)
           /\ Sole(Own(h3, rs, hd, dr), O, anchor)
           /\ Ranked(Own(h3, rs, hd, dr), RankUp(rank, C, G))
<1> DEFINE own == Own(h, rs, hd, dr)  own3 == Own(h3, rs, hd, dr)  rank2 == RankUp(rank, C, G)
<1>1. /\ T \in DOMAIN own /\ own[T] = h[T].node.kids /\ T # -1
      /\ C \in DOMAIN own /\ own[C] = h[C].node.kids /\ C # -1
      /\ G \in DOMAIN own /\ own[G] = h[G].node.kids /\ G # -1
  BY KidsAlive
<1>2. DOMAIN h \subseteq Nat \ {0} /\ T \in DOMAIN h /\ C \in DOMAIN h /\ G \in DOMAIN h
  BY HeapIds DEF Core, Loose, Alive
<1>3. Sole(own, O, anchor) /\ RankOn(rank, bound) /\ Ranked(own, rank)
  BY DEF Apart
<1>4. \A q \in DOMAIN own : \A j \in DOMAIN own[q] : own[q][j].id \in Nat
  BY ThereIsAlive DEF Shaped
<1>5. \A q \in DOMAIN own : q # 0 /\ q # -1 => q \in Nat
  <2>1. HeapOK(h) /\ DroppedOK(h, dr)
    BY DEF Core, Loose
  <2> QED
    BY <2>1, OwnHolders
<1>6. ASSUME NEW q \in DOMAIN own, NEW j \in DOMAIN own[q], own[q][j].id = G PROVE q = C /\ j = 1
  BY <1>1, <1>2, <1>6, OneHolder
<1>7. /\ DOMAIN own3 = DOMAIN own
      /\ \A q \in DOMAIN own : q # T /\ q # C /\ q # G => own3[q] = own[q]
      /\ Changes(own3, h, h3, T, 1, G) /\ Changes(own3, h, h3, C, 1, h[G].node.kids[m].id)
      /\ Changes(own3, h, h3, G, m, C)
  BY DEF Turns, Stays
<1> HIDE DEF own, own3
<1>8. DOMAIN own3[T] = DOMAIN own[T] /\ own3[T][1].id = G /\ \A j \in DOMAIN own[T] : j # 1 => own3[T][j] = own[T][j]
  BY <1>1, <1>7 DEF Changes
<1>9. DOMAIN own3[C] = DOMAIN own[C] /\ own3[C][1].id = own[G][m].id
      /\ \A j \in DOMAIN own[C] : j # 1 => own3[C][j] = own[C][j]
  BY <1>1, <1>7 DEF Changes
<1>10. DOMAIN own3[G] = DOMAIN own[G] /\ own3[G][m].id = C /\ \A j \in DOMAIN own[G] : j # m => own3[G][j] = own[G][j]
  BY <1>1, <1>7 DEF Changes
<1>11. Sole(own3, O, anchor)
  <2> SUFFICES ASSUME NEW y \in O, NEW q \in DOMAIN own3, NEW j \in DOMAIN own3[q], own3[q][j].id = y
               PROVE  q \in O \/ <<q, j>> = anchor
    BY <1>3 DEF Sole
  <2>1. CASE q = T \/ q = C \/ q = G
    BY <2>1
  <2>2. CASE q # T /\ q # C /\ q # G
    BY <1>3, <1>7, <2>2 DEF Sole
  <2> QED
    BY <2>1, <2>2
<1>12. bound \in Nat /\ rank \in [Nat -> 0 .. bound] /\ rank[0] = 0
  BY <1>3 DEF RankOn
<1>13. /\ rank[C] < rank[T] /\ rank[G] < rank[C]
       /\ \A q \in DOMAIN own : q # 0 /\ q # -1 => \A j \in DOMAIN own[q] : rank[own[q][j].id] < rank[q]
  BY <1>1, <1>2, <1>3 DEF Ranked
<1>14. T \in Nat /\ C \in Nat /\ G \in Nat \ {0} /\ T # 0 /\ C # 0
  BY <1>2
<1>15. \A y \in Nat : rank[y] \in Nat /\ rank[y] <= bound
  BY <1>12
<1>16. rank2[G] = 3 * rank[C] + 1 /\ \A y \in Nat : y # G => rank2[y] = 3 * rank[y]
  BY <1>14 DEF RankUp
<1>17. RankOn(rank2, 3 * bound + 1)
  <2>1. ASSUME NEW y \in Nat PROVE (IF y = G THEN 3 * rank[C] + 1 ELSE 3 * rank[y]) \in 0 .. 3 * bound + 1
    <3>1. rank[y] \in Nat /\ rank[y] <= bound /\ rank[C] \in Nat /\ rank[C] <= bound
      BY <1>14, <1>15
    <3> QED
      BY <1>12, <3>1
  <2>2. rank2 \in [Nat -> 0 .. 3 * bound + 1]
    BY <2>1 DEF RankUp
  <2>3. rank2[0] = 0 /\ 3 * bound + 1 \in Nat
    BY <1>12, <1>14, <1>16
  <2> QED
    BY <2>2, <2>3 DEF RankOn
<1> HIDE DEF rank2
<1>18. ASSUME NEW q \in DOMAIN own, q # 0, q # -1, q # G, NEW j \in DOMAIN own[q], q # C \/ j # 1
       PROVE  rank2[own[q][j].id] < rank2[q]
  <2>1. own[q][j].id # G /\ own[q][j].id \in Nat /\ q \in Nat
    BY <1>4, <1>5, <1>6, <1>18
  <2>2. rank[own[q][j].id] < rank[q]
    BY <1>13, <1>18
  <2>3. rank2[own[q][j].id] = 3 * rank[own[q][j].id] /\ rank2[q] = 3 * rank[q]
    BY <1>16, <1>18, <2>1
  <2>4. rank[own[q][j].id] \in Nat /\ rank[q] \in Nat
    BY <1>15, <2>1
  <2> QED
    BY <2>2, <2>3, <2>4
<1>19. rank2[T] = 3 * rank[T] /\ rank2[C] = 3 * rank[C] /\ rank[T] \in Nat /\ rank[C] \in Nat /\ rank[G] \in Nat
  BY <1>14, <1>15, <1>16
<1>20. ASSUME NEW j \in DOMAIN own[G]
       PROVE  rank[own[G][j].id] \in Nat /\ rank[own[G][j].id] < rank[G]
              /\ rank2[own[G][j].id] = 3 * rank[own[G][j].id]
  <2>1. own[G][j].id \in Nat /\ own[G][j].id # G
    BY <1>1, <1>4, <1>6
  <2> QED
    BY <1>1, <1>13, <1>14, <1>15, <1>16, <2>1
<1>21. Ranked(own3, rank2)
  <2> SUFFICES ASSUME NEW q \in DOMAIN own3, q # 0, q # -1, NEW j \in DOMAIN own3[q]
               PROVE  rank2[own3[q][j].id] < rank2[q]
    BY DEF Ranked
  <2>1. CASE q = T
    <3>1. CASE j = 1
      BY <1>8, <1>13, <1>16, <1>19, <2>1, <3>1
    <3>2. CASE j # 1
      BY <1>1, <1>8, <1>18, <2>1, <3>2
    <3> QED
      BY <3>1, <3>2
  <2>2. CASE q = C
    <3>1. CASE j = 1
      <4>1. rank[own[G][m].id] \in Nat /\ rank[own[G][m].id] < rank[G]
            /\ rank2[own[G][m].id] = 3 * rank[own[G][m].id]
        BY <1>1, <1>20
      <4> QED
        BY <1>9, <1>13, <1>19, <2>2, <3>1, <4>1
    <3>2. CASE j # 1
      BY <1>1, <1>9, <1>18, <2>2, <3>2
    <3> QED
      BY <3>1, <3>2
  <2>3. CASE q = G
    <3>1. CASE j = m
      BY <1>10, <1>16, <1>19, <2>3, <3>1
    <3>2. CASE j # m
      <4>1. j \in DOMAIN own[G] /\ own3[G][j] = own[G][j]
        BY <1>10, <2>3, <3>2
      <4>2. rank[own[G][j].id] \in Nat /\ rank[own[G][j].id] < rank[G]
            /\ rank2[own[G][j].id] = 3 * rank[own[G][j].id]
        BY <1>20, <4>1
      <4> QED
        BY <1>13, <1>16, <1>19, <2>3, <4>1, <4>2
    <3> QED
      BY <3>1, <3>2
  <2>4. CASE q # T /\ q # C /\ q # G
    <3>1. own3[q] = own[q] /\ q \in DOMAIN own
      BY <1>7, <2>4
    <3> QED
      BY <1>18, <2>4, <3>1
  <2> QED
    BY <2>1, <2>2, <2>3, <2>4
<1> QED
  BY <1>11, <1>17, <1>21 DEF rank2, own3

\* What was rotated before is still above, and has the children it is to be summed over.
LEMMA TurnsTurned ==
    ASSUME NEW h, NEW rs, NEW hd, NEW dr, Core(h, rs, hd, dr), NEW T, NEW C, NEW G,
           T \in Alive(h), C \in Alive(h), G \in Alive(h), T # C, T # G, C # G,
           1 \in DOMAIN h[T].node.kids, h[T].node.kids[1].id = C,
           1 \in DOMAIN h[C].node.kids, h[C].node.kids[1].id = G, Len(h[G].node.kids) >= 2,
           NEW h3, Turns(h, rs, hd, dr, T, C, G, Len(h[G].node.kids), h3),
           NEW O, O \subseteq Alive(h), NEW O2, O \subseteq O2, T \in O2, C \in O2, G \in O2,
           NEW rank, NEW bound, RankOn(rank, bound), Ranked(Own(h, rs, hd, dr), rank)
    PROVE  /\ TurnedOK(O2, h3, RankUp(rank, C, G), G, T)
           /\ \A t : TurnedOK(O, h, rank, T, t) => TurnedOK(O2, h3, RankUp(rank, C, G), G, t)
<1> DEFINE own == Own(h, rs, hd, dr)  own3 == Own(h3, rs, hd, dr)  rank2 == RankUp(rank, C, G)
           m == Len(h[G].node.kids)
<1>1. /\ T \in DOMAIN own /\ own[T] = h[T].node.kids /\ T # -1 /\ T # 0
      /\ C \in DOMAIN own /\ own[C] = h[C].node.kids /\ C # -1 /\ C # 0
  BY KidsAlive
<1>2. DOMAIN h \subseteq Nat \ {0} /\ T \in DOMAIN h /\ C \in DOMAIN h /\ G \in DOMAIN h
  BY HeapIds DEF Core, Loose, Alive
<1>3. rank[C] < rank[T] /\ rank[G] < rank[C]
  BY <1>1 DEF Ranked
<1>4. \A y \in Nat : rank[y] \in Nat
  <2> SUFFICES ASSUME NEW y \in Nat PROVE rank[y] \in Nat
    OBVIOUS
  <2>1. bound \in Nat /\ rank \in [Nat -> 0 .. bound]
    BY DEF RankOn
  <2>2. rank[y] \in 0 .. bound
    BY <2>1
  <2> QED
    BY <2>1, <2>2
<1>5. rank2[G] = 3 * rank[C] + 1 /\ \A y \in Nat : y # G => rank2[y] = 3 * rank[y]
  BY <1>2 DEF RankUp
<1>6. rank[T] \in Nat /\ rank[C] \in Nat /\ rank[G] \in Nat /\ T \in Nat
  BY <1>2, <1>4
<1> HIDE DEF rank2, own
<1>7. /\ \A q \in DOMAIN h : q # T /\ q # C /\ q # G => h3[q].node = h[q].node
      /\ Changes(own3, h, h3, T, 1, G) /\ Changes(own3, h, h3, C, 1, h[G].node.kids[m].id)
      /\ Changes(own3, h, h3, G, m, C)
  BY DEF Turns, Stays
<1>8. \A q \in {T, C, G} : Len(h3[q].node.kids) = Len(h[q].node.kids)
  BY <1>7 DEF Changes
<1>9. h3[T].node.kids[1].id = G /\ 1 \in DOMAIN h3[T].node.kids
  BY <1>7 DEF Changes
<1>10. Len(h3[G].node.kids) = m /\ Last(h3[G].node.kids).id = C
  BY <1>7 DEF Changes, Last
<1>11. TurnedOK(O2, h3, rank2, G, T)
  <2>1. rank2[G] < rank2[T]
    BY <1>3, <1>5, <1>6
  <2> QED
    BY <1>9, <1>10, <2>1 DEF TurnedOK
<1>12. ASSUME NEW q \in DOMAIN h, Len(h[q].node.kids) >= 2, Last(h[q].node.kids).id \in O2, q \in Alive(h)
       PROVE  Len(h3[q].node.kids) >= 2 /\ Last(h3[q].node.kids).id \in O2
  <2> DEFINE n == Len(h[q].node.kids)
  <2>1. n \in DOMAIN h[q].node.kids /\ n # 1 /\ h[q].node.kids[n].id \in O2
    <3>1. AllShaped(h[q].node.kids)
      BY <1>12, KidsAlive
    <3>2. n \in Nat /\ DOMAIN h[q].node.kids = 1 .. n
      BY <3>1, ListIsSeq DEF AllShaped
    <3> QED
      BY <1>12, <3>2 DEF Last
  <2>2. CASE q # T /\ q # C /\ q # G
    BY <1>7, <1>12, <2>2
  <2>3. CASE q = T
    <3>1. h3[T].node.kids[n] = h[T].node.kids[n]
      BY <1>7, <2>1, <2>3 DEF Changes
    <3> QED
      BY <1>8, <1>12, <2>1, <2>3, <3>1 DEF Last
  <2>4. CASE q = C
    <3>1. h3[C].node.kids[n] = h[C].node.kids[n]
      BY <1>7, <2>1, <2>4 DEF Changes
    <3> QED
      BY <1>8, <1>12, <2>1, <2>4, <3>1 DEF Last
  <2>5. CASE q = G
    BY <1>10, <2>5
  <2> QED
    BY <2>2, <2>3, <2>4, <2>5
<1>13. ASSUME NEW t, TurnedOK(O, h, rank, T, t)
       PROVE  TurnedOK(O2, h3, rank2, G, t)
  <2> DEFINE c == h[t].node.kids[1].id
  <2>1. /\ t \in O /\ 1 \in DOMAIN h[t].node.kids /\ c \in O
        /\ Len(h[c].node.kids) >= 2 /\ Last(h[c].node.kids).id \in O /\ rank[T] < rank[t]
    BY <1>13, Zenon DEF TurnedOK
  <2>2. t \in DOMAIN h /\ c \in DOMAIN h /\ t \in Nat /\ c \in Alive(h)
    BY <1>2, <2>1 DEF Alive
  <2>3. rank[t] \in Nat
    BY <1>4, <2>2
  <2>4. t # T /\ t # C /\ t # G
    BY <1>3, <1>6, <2>1, <2>3
  <2>5. h3[t].node = h[t].node
    BY <1>7, <2>2, <2>4
  <2>6. rank2[G] < rank2[t]
    <3>1. rank2[t] = 3 * rank[t]
      BY <1>5, <2>2, <2>4
    <3> QED
      BY <1>3, <1>5, <1>6, <2>1, <2>3, <3>1
  <2>7. Len(h3[c].node.kids) >= 2 /\ Last(h3[c].node.kids).id \in O2
    <3> HIDE DEF c
    <3> QED
      BY <1>12, <2>1, <2>2
  <2> QED
    <3>1. t \in O2 /\ c \in O2 /\ h3[t].node.kids[1].id = c /\ 1 \in DOMAIN h3[t].node.kids
      BY <2>1, <2>5
    <3> HIDE DEF c
    <3> QED
      BY <2>6, <2>7, <3>1, Zenon DEF TurnedOK
<1> QED
  BY <1>11, <1>13 DEF rank2

\* The first child of a node with two of them.
FirstOf(h, own, rank, q, k) ==
    /\ 1 \in DOMAIN h[q].node.kids /\ Len(h[q].node.kids) \in DOMAIN h[q].node.kids
    /\ q \in DOMAIN own /\ own[q] = h[q].node.kids /\ q # -1 /\ q \in DOMAIN h /\ q \in Nat \ {0}
    /\ AllShaped(h[q].node.kids) /\ 1 \in DOMAIN own[q]
    /\ own[q][1].id = k /\ k \in Alive(h) /\ k \in DOMAIN h /\ k \in Nat \ {0} /\ rank[k] < rank[q]
LEMMA FirstBelow ==
    ASSUME NEW h, NEW rs, NEW hd, NEW dr, Core(h, rs, hd, dr), NEW rank, Ranked(Own(h, rs, hd, dr), rank),
           NEW q, q \in Alive(h), Len(h[q].node.kids) >= 2, NEW k, h[q].node.kids[1].id = k, k # 0
    PROVE  FirstOf(h, Own(h, rs, hd, dr), rank, q, k)
<1> DEFINE own == Own(h, rs, hd, dr)
<1>1. /\ q \in DOMAIN own /\ own[q] = h[q].node.kids /\ q # -1 /\ q # 0 /\ q \in DOMAIN h
      /\ AllShaped(h[q].node.kids)
      /\ \A i \in DOMAIN h[q].node.kids :
           h[q].node.kids[i].id # 0 => h[q].node.kids[i].id \in Alive(h)
  BY KidsAlive
<1>2. DOMAIN h[q].node.kids = 1 .. Len(h[q].node.kids) /\ Len(h[q].node.kids) \in Nat
  BY <1>1, ListIsSeq DEF AllShaped
<1>3. 1 \in DOMAIN h[q].node.kids /\ Len(h[q].node.kids) \in DOMAIN h[q].node.kids
  BY <1>2
<1>4. rank[h[q].node.kids[1].id] < rank[q]
  BY <1>1, <1>3 DEF Ranked
<1>5. k \in Alive(h) /\ k \in DOMAIN h
  BY <1>1, <1>3 DEF Alive
<1>6. k \in Nat \ {0} /\ q \in Nat \ {0}
  BY <1>1, <1>5, HeapIds DEF Core, Loose
<1> QED
  BY <1>1, <1>3, <1>4, <1>5, <1>6 DEF FirstOf

\* The parser alone may reach what the balancing writes to.
ParserAlone ==
    /\ \E W : /\ Sole(Own(heap, RootsOf(trees), held, dropped), W, <<-1, Len(held)>>)
              /\ \A id \in DOMAIN heap : id \notin W => heap'[id].node = heap[id].node
    /\ trees' = trees
LEMMA RotateGood ==
    ASSUME NEW O, NEW rank, NEW bound, Good(O, rank, bound, heap, trees, held, dropped, job), Rotate
    PROVE  /\ \E O2, rank2, bound2 : Good(O2, rank2, bound2, heap', trees', held', dropped', job')
           /\ ParserAlone
<1> DEFINE rs == RootsOf(trees)  own == Own(heap, rs, held, {})  anchor == <<-1, Len(held)>>
           T == job.at  C == FirstKid(T)  G == FirstKid(C)  m == Len(heap[G].node.kids)
           h1 == WithKid(heap, T, 1, HeapRef(G))
           h2 == WithKid(h1, C, 1, heap[G].node.kids[m])
           h3 == WithKid(h2, G, m, HeapRef(C))
<1>1. /\ job.op = "balance" /\ dropped = {} /\ Turnable(T)
      /\ trees' = trees /\ held' = held /\ dropped' = {}
  BY DEF Rotate, Doing
<1>2. /\ Core(heap, rs, held, {}) /\ TreesOK(trees) /\ O \subseteq Alive(heap)
      /\ Apart(own, O, Anchor(held, job), rank, bound)
      /\ JobOK(O, rank, heap, trees, held, dropped, job)
  BY <1>1 DEF Good
<1>3. BalanceOK(O, rank, heap, held, dropped, job)
  BY <1>1, <1>2, WhichJob
<1>4. Anchor(held, job) = anchor
  BY <1>1 DEF Anchor
<1>5. /\ T # 0 /\ Len(heap[T].node.kids) >= 2
      /\ C # 0 /\ Len(heap[C].node.kids) >= 2 /\ heap[C].refs = 1
      /\ G # 0 /\ Len(heap[G].node.kids) >= 2 /\ heap[G].refs = 1
  BY <1>1 DEF Turnable, Rotatable
<1>6. heap' = h3
  BY Zenon DEF Rotate
<1>7. job' = [job EXCEPT !.at = G, !.left = @ - 1, !.turned = Append(@, T)]
  BY Zenon DEF Rotate
<1>8. C = heap[T].node.kids[1].id /\ G = heap[C].node.kids[1].id
  BY DEF FirstKid
<1> HIDE DEF rs, own, anchor, T, C, G, m
<1>9. T \in O /\ T \in Alive(heap)
  BY <1>2, <1>3, <1>5 DEF BalanceOK, T
<1>10. RankOn(rank, bound) /\ Ranked(own, rank) /\ Sole(own, O, anchor)
  BY <1>2, <1>4 DEF Apart
<1>11. FirstOf(heap, own, rank, T, C)
  <2>1. /\ Core(heap, rs, held, {}) /\ Ranked(Own(heap, rs, held, {}), rank) /\ T \in Alive(heap)
        /\ Len(heap[T].node.kids) >= 2 /\ heap[T].node.kids[1].id = C /\ C # 0
    <3>1. Core(heap, rs, held, {})
      BY <1>2
    <3>2. Ranked(Own(heap, rs, held, {}), rank)
      BY <1>10 DEF own
    <3>3. Len(heap[T].node.kids) >= 2 /\ C # 0
      BY <1>5
    <3>4. heap[T].node.kids[1].id = C
      BY <1>8
    <3> QED
      BY <1>9, <3>1, <3>2, <3>3, <3>4
  <2> QED
    BY <2>1, FirstBelow DEF own
<1>12. FirstOf(heap, own, rank, C, G)
  <2>1. C \in Alive(heap)
    BY <1>11 DEF FirstOf
  <2>2. /\ Core(heap, rs, held, {}) /\ Ranked(Own(heap, rs, held, {}), rank) /\ C \in Alive(heap)
        /\ Len(heap[C].node.kids) >= 2 /\ heap[C].node.kids[1].id = G /\ G # 0
    <3>1. Core(heap, rs, held, {})
      BY <1>2
    <3>2. Ranked(Own(heap, rs, held, {}), rank)
      BY <1>10 DEF own
    <3>3. Len(heap[C].node.kids) >= 2 /\ G # 0
      BY <1>5
    <3>4. heap[C].node.kids[1].id = G
      BY <1>8
    <3> QED
      BY <2>1, <3>1, <3>2, <3>3, <3>4
  <2> QED
    BY <2>2, FirstBelow DEF own
<1>13. G \in Alive(heap) /\ G \in DOMAIN heap
  BY <1>12 DEF FirstOf
<1>14. T \in Nat /\ C \in Nat /\ G \in Nat
  BY <1>11, <1>12 DEF FirstOf
<1>15. m \in DOMAIN heap[G].node.kids /\ AllShaped(heap[G].node.kids)
  <2>1. AllShaped(heap[G].node.kids)
    BY <1>2, <1>13, KidsAlive
  <2>2. DOMAIN heap[G].node.kids = 1 .. Len(heap[G].node.kids) /\ Len(heap[G].node.kids) \in Nat
    BY <2>1, ListIsSeq DEF AllShaped
  <2> QED
    BY <1>5, <2>1, <2>2 DEF m
<1>16. rank[T] \in Nat /\ rank[C] \in Nat /\ rank[G] \in Nat
  <2>1. bound \in Nat /\ rank \in [Nat -> 0 .. bound]
    BY <1>10 DEF RankOn
  <2>2. rank[T] \in 0 .. bound /\ rank[C] \in 0 .. bound /\ rank[G] \in 0 .. bound
    BY <1>14, <2>1
  <2> QED
    BY <2>1, <2>2
<1>17. T # C /\ T # G /\ C # G
  BY <1>11, <1>12, <1>16 DEF FirstOf
<1>18. Shaped(HeapRef(G)) /\ HeapRef(G).id = G /\ Shaped(HeapRef(C)) /\ HeapRef(C).id = C
       /\ Shaped(heap[G].node.kids[m])
  BY <1>5, <1>14, <1>15 DEF HeapRef, Shaped, AllShaped
<1> DEFINE a == HeapRef(G)  b == heap[G].node.kids[m]  c == HeapRef(C)
<1>19. /\ h1 = WithKid(heap, T, 1, a) /\ h2 = WithKid(h1, C, 1, b) /\ h3 = WithKid(h2, G, m, c)
       /\ heap[G].node.kids[m] = b
  OBVIOUS
<1>37. Shaped(a) /\ a.id = G /\ Shaped(b) /\ Shaped(c) /\ c.id = C
  BY <1>18
<1>38. heap[T].node.kids[1].id = C /\ heap[C].node.kids[1].id = G
  BY <1>8
<1> HIDE DEF a, b, c, h1, h2, h3
<1>20. KidSet(heap, rs, held, {}, T, 1, a, h1)
  <2>1. Loose(heap, rs, held, {}) /\ 1 \in DOMAIN heap[T].node.kids
    BY <1>2, <1>11 DEF Core, FirstOf
  <2> QED
    BY <1>9, <1>19, <1>37, <2>1, StepKid
<1>21. KidSet(h1, rs, held, {}, C, 1, b, h2)
  <2>1. 1 \in DOMAIN heap[C].node.kids /\ C \in DOMAIN heap /\ C \in Alive(heap)
    BY <1>11, <1>12 DEF FirstOf
  <2>2. Loose(h1, rs, held, {}) /\ C \in Alive(h1) /\ 1 \in DOMAIN h1[C].node.kids
    BY <1>17, <1>20, <2>1 DEF KidSet
  <2> QED
    BY <1>19, <1>37, <2>2, StepKid
<1>22. KidSet(h2, rs, held, {}, G, m, c, h3)
  <2>1. h1[G] = heap[G] /\ DOMAIN h1 = DOMAIN heap /\ Alive(h1) = Alive(heap)
    BY <1>13, <1>17, <1>20 DEF KidSet
  <2>2. Loose(h2, rs, held, {}) /\ G \in Alive(h2) /\ m \in DOMAIN h2[G].node.kids
    BY <1>13, <1>15, <1>17, <1>21, <2>1 DEF KidSet
  <2> QED
    BY <1>19, <1>37, <2>2, StepKid
<1>23. Turns(heap, rs, held, {}, T, C, G, m, heap')
  <2>1. Turns(heap, rs, held, {}, T, C, G, m, h3)
    <3>1. C \in Alive(heap)
      BY <1>11 DEF FirstOf
    <3> QED
      BY <1>2, <1>9, <1>13, <1>17, <1>19, <1>20, <1>21, <1>22, <1>37, <1>38, <3>1, TurnHeap
  <2> QED
    BY <1>6, <2>1
<1> DEFINE O2 == O \cup {C} \cup {G}  rank2 == RankUp(rank, C, G)  bound2 == 3 * bound + 1
<1>24. Sole(own, O \cup {C}, anchor)
  <2>1. T \in DOMAIN own /\ 1 \in DOMAIN own[T] /\ own[T][1].id = C /\ C \in DOMAIN heap /\ heap[C].refs = 1
    BY <1>5, <1>11 DEF FirstOf
  <2> QED
    BY <1>2, <1>9, <1>10, <2>1, SoleJoins DEF own
<1>25. Sole(own, O2, anchor)
  <2> DEFINE P == O \cup {C}
  <2>1. C \in P /\ Sole(own, P, anchor) /\ O2 = P \cup {G}
    BY <1>24
  <2>2. C \in DOMAIN own /\ 1 \in DOMAIN own[C] /\ own[C][1].id = G /\ G \in DOMAIN heap /\ heap[G].refs = 1
    BY <1>5, <1>12 DEF FirstOf
  <2> HIDE DEF P, O2
  <2>3. Sole(own, P \cup {G}, anchor)
    BY <1>2, <2>1, <2>2, SoleJoins DEF own
  <2> QED
    BY <2>1, <2>3
<1>26. /\ T \in O2 /\ C \in O2 /\ G \in O2 /\ O \subseteq O2 /\ O2 \subseteq Alive(heap)
       /\ C \in Alive(heap) /\ 1 \in DOMAIN heap[T].node.kids /\ 1 \in DOMAIN heap[C].node.kids
  BY <1>2, <1>9, <1>11, <1>12 DEF FirstOf
<1> HIDE DEF O2
<1>27. Apart(own, O2, anchor, rank, bound)
  BY <1>10, <1>25 DEF Apart
<1>28. /\ RankOn(rank2, bound2) /\ Sole(Own(heap', rs, held, {}), O2, anchor)
       /\ Ranked(Own(heap', rs, held, {}), rank2)
  BY <1>2, <1>5, <1>9, <1>13, <1>15, <1>17, <1>23, <1>26, <1>27, <1>38, TurnsApart DEF own
<1>29. /\ TurnedOK(O2, heap', rank2, G, T)
       /\ \A t : TurnedOK(O, heap, rank, T, t) => TurnedOK(O2, heap', rank2, G, t)
  BY <1>2, <1>5, <1>9, <1>10, <1>13, <1>17, <1>23, <1>26, <1>38, TurnsTurned DEF own, m
<1> HIDE DEF rank2, bound2
<1>30. /\ job'.op = "balance" /\ job'.todo = job.todo /\ job'.top = job.top /\ job'.at = G
       /\ job'.turned = Append(job.turned, T) /\ DOMAIN job' = DOMAIN job
  BY <1>1, <1>3, <1>7 DEF BalanceOK
<1>31. IsList(job'.turned) /\ \A k \in DOMAIN job'.turned : TurnedOK(O2, heap', rank2, G, job'.turned[k])
  <2>1. IsList(job.turned) /\ \A k \in DOMAIN job.turned : TurnedOK(O, heap, rank, T, job.turned[k])
    BY <1>3 DEF BalanceOK, T
  <2>2. /\ IsList(job'.turned) /\ DOMAIN job'.turned = 1 .. Len(job.turned) + 1
        /\ \A i \in 1 .. Len(job.turned) : job'.turned[i] = job.turned[i]
        /\ job'.turned[Len(job.turned) + 1] = T /\ Len(job.turned) \in Nat
        /\ DOMAIN job.turned = 1 .. Len(job.turned)
    BY <1>30, <2>1, ListAppend, ListIsSeq
  <2>3. \A i \in 1 .. Len(job.turned) + 1 : i = Len(job.turned) + 1 \/ i \in 1 .. Len(job.turned)
    BY <2>2
  <2> HIDE DEF TurnedOK
  <2>4. ASSUME NEW k \in DOMAIN job'.turned PROVE TurnedOK(O2, heap', rank2, G, job'.turned[k])
    <3>1. CASE k = Len(job.turned) + 1
      BY <1>29, <2>2, <3>1
    <3>2. CASE k \in 1 .. Len(job.turned)
      BY <1>29, <2>1, <2>2, <3>2
    <3> QED
      BY <2>2, <2>3, <3>1, <3>2
  <2> QED
    BY <2>2, <2>4
<1>32. BalanceOK(O2, rank2, heap', held', dropped', job')
  <2>1. job.top # 0
    BY <1>3, <1>5 DEF BalanceOK, T
  <2> QED
    BY <1>1, <1>3, <1>26, <1>30, <1>31, <2>1 DEF BalanceOK
<1>33. Anchor(held', job') = anchor
  BY <1>1, <1>30 DEF Anchor, anchor
<1>34. Core(heap', rs, held, {}) /\ Alive(heap') = Alive(heap)
  BY <1>23 DEF Turns
<1>35. Good(O2, rank2, bound2, heap', trees', held', dropped', job')
  BY <1>1, <1>2, <1>26, <1>28, <1>32, <1>33, <1>34 DEF Good, JobOK, Apart, rs
<1>36. \A id \in DOMAIN heap : id \notin O2 => heap'[id].node = heap[id].node
  BY <1>23, <1>26 DEF Turns, Stays
<1>39. ParserAlone
  <2>1. Sole(Own(heap, RootsOf(trees), held, dropped), O2, <<-1, Len(held)>>)
    BY <1>1, <1>25 DEF own, anchor, rs
  <2> QED
    BY <1>1, <1>36, <2>1 DEF ParserAlone
<1> QED
  BY <1>35, <1>39

\* Where no children change, what was rotated stays so.
LEMMA SameTurned ==
    ASSUME NEW h, NEW h3, \A id \in DOMAIN h : h3[id].node.kids = h[id].node.kids,
           NEW O, O \subseteq DOMAIN h, NEW rank, NEW at, NEW t, TurnedOK(O, h, rank, at, t)
    PROVE  TurnedOK(O, h3, rank, at, t)
<1> DEFINE c == h[t].node.kids[1].id
<1>1. /\ t \in O /\ 1 \in DOMAIN h[t].node.kids /\ c \in O
      /\ Len(h[c].node.kids) >= 2 /\ Last(h[c].node.kids).id \in O /\ rank[at] < rank[t]
  BY Zenon DEF TurnedOK
<1>2. h3[t].node.kids = h[t].node.kids
  BY <1>1
<1>3. h3[c].node.kids = h[c].node.kids
  <2> HIDE DEF c
  <2> QED
    BY <1>1
<1>4. h3[t].node.kids[1].id = c
  BY <1>2
<1>5. 1 \in DOMAIN h3[t].node.kids
  BY <1>1, <1>2
<1> HIDE DEF c
<1>6. Len(h3[c].node.kids) >= 2 /\ Last(h3[c].node.kids).id \in O
  BY <1>1, <1>3
<1> QED
  BY <1>1, <1>4, <1>5, <1>6, Zenon DEF TurnedOK

LEMMA SumUpGood ==
    ASSUME NEW O, NEW rank, NEW bound, Good(O, rank, bound, heap, trees, held, dropped, job), SumUp
    PROVE  Good(O, rank, bound, heap', trees', held', dropped', job') /\ ParserAlone
<1> DEFINE rs == RootsOf(trees)  own == Own(heap, rs, held, {})  anchor == <<-1, Len(held)>>
           T == Last(job.turned)  C == FirstKid(T)  G == LastKid(C)
           h1 == Summed(heap, G)  h2 == Summed(h1, C)  h3 == Summed(h2, T)
<1>1. /\ job.op = "balance" /\ dropped = {} /\ job.turned # <<>>
      /\ trees' = trees /\ held' = held /\ dropped' = {}
  BY DEF SumUp, Doing
<1>2. /\ Core(heap, rs, held, {}) /\ TreesOK(trees) /\ O \subseteq Alive(heap)
      /\ Apart(own, O, Anchor(held, job), rank, bound)
      /\ JobOK(O, rank, heap, trees, held, dropped, job)
  BY <1>1 DEF Good
<1>3. BalanceOK(O, rank, heap, held, dropped, job)
  BY <1>1, <1>2, WhichJob
<1>4. Anchor(held, job) = anchor
  BY <1>1 DEF Anchor
<1>5. heap' = h3
  BY Zenon DEF SumUp
<1>6. job' = [job EXCEPT !.turned = Front(@), !.left = 0]
  BY DEF SumUp
<1>7. C = heap[T].node.kids[1].id /\ G = Last(heap[C].node.kids).id
  BY DEF FirstKid, LastKid
<1> HIDE DEF rs, own, anchor, T, C, G
<1>8. IsList(job.turned) /\ \A k \in DOMAIN job.turned : TurnedOK(O, heap, rank, job.at, job.turned[k])
  BY <1>3 DEF BalanceOK
<1>9. /\ T = job.turned[Len(job.turned)] /\ Len(job.turned) \in DOMAIN job.turned
      /\ IsList(Front(job.turned)) /\ DOMAIN Front(job.turned) = 1 .. Len(job.turned) - 1
      /\ \A i \in 1 .. Len(job.turned) - 1 : Front(job.turned)[i] = job.turned[i] /\ i \in DOMAIN job.turned
  <2>1. Len(job.turned) \in Nat /\ DOMAIN job.turned = 1 .. Len(job.turned)
    BY <1>8, ListIsSeq
  <2>2. \A i \in 1 .. Len(job.turned) - 1 : i \in DOMAIN job.turned
    BY <2>1
  <2> QED
    BY <1>1, <1>8, <2>2, ListFront DEF T
<1>10. T \in O /\ C \in O /\ G \in O
  <2>1. TurnedOK(O, heap, rank, job.at, T)
    BY <1>8, <1>9
  <2>2. T \in O /\ heap[T].node.kids[1].id \in O /\ Last(heap[heap[T].node.kids[1].id].node.kids).id \in O
    BY <2>1, Zenon DEF TurnedOK
  <2>3. C \in O
    BY <1>7, <2>2, Zenon
  <2>4. G \in O
    BY <1>7, <2>2, Zenon
  <2> QED
    BY <2>2, <2>3, <2>4
<1>11. T \in Alive(heap) /\ C \in Alive(heap) /\ G \in Alive(heap)
  BY <1>2, <1>10
<1>12. h1 = Summed(heap, G) /\ h2 = Summed(h1, C) /\ h3 = Summed(h2, T)
  OBVIOUS
<1> HIDE DEF h1, h2, h3
<1>13. SumIn(heap, rs, held, {}, G, h1)
  BY <1>2, <1>11, <1>12, StepSummed
<1>14. SumIn(h1, rs, held, {}, C, h2)
  <2>1. Core(h1, rs, held, {}) /\ C \in Alive(h1)
    BY <1>11, <1>13 DEF SumIn
  <2> QED
    BY <1>12, <2>1, StepSummed
<1>15. SumIn(h2, rs, held, {}, T, h3)
  <2>1. Alive(h1) = Alive(heap) /\ Core(h2, rs, held, {}) /\ Alive(h2) = Alive(h1)
    BY <1>13, <1>14 DEF SumIn
  <2>2. T \in Alive(h2)
    BY <1>11, <2>1
  <2> QED
    BY <1>12, <2>1, <2>2, StepSummed
<1>16. Core(heap', rs, held, {}) /\ Own(heap', rs, held, {}) = own
  BY <1>5, <1>13, <1>14, <1>15 DEF SumIn, own
<1>17. Alive(heap') = Alive(heap)
  BY <1>5, <1>13, <1>14, <1>15 DEF SumIn
<1>18. ASSUME NEW id \in DOMAIN heap
       PROVE  heap'[id].node.kids = heap[id].node.kids /\ (id # T /\ id # C /\ id # G => heap'[id] = heap[id])
  <2>1. id \in DOMAIN h1 /\ id \in DOMAIN h2
    BY <1>13, <1>14 DEF SumIn
  <2>2. h1[id].node.kids = heap[id].node.kids /\ (id # G => h1[id] = heap[id])
    BY <1>13 DEF SumIn
  <2>3. h2[id].node.kids = h1[id].node.kids /\ (id # C => h2[id] = h1[id])
    BY <1>14, <2>1 DEF SumIn
  <2>4. h3[id].node.kids = h2[id].node.kids /\ (id # T => h3[id] = h2[id])
    BY <1>15, <2>1 DEF SumIn
  <2> QED
    BY <1>5, <2>2, <2>3, <2>4
<1>19. /\ job'.op = "balance" /\ job'.todo = job.todo /\ job'.top = job.top /\ job'.at = job.at
       /\ job'.turned = Front(job.turned) /\ DOMAIN job' = DOMAIN job
  BY <1>1, <1>3, <1>6 DEF BalanceOK
<1>20. ASSUME NEW k \in DOMAIN job'.turned
       PROVE  TurnedOK(O, heap', rank, job.at, job'.turned[k])
  <2>1. TurnedOK(O, heap, rank, job.at, job'.turned[k])
    BY <1>8, <1>9, <1>19
  <2>2. O \subseteq DOMAIN heap
    BY <1>2 DEF Alive
  <2>3. \A id \in DOMAIN heap : heap'[id].node.kids = heap[id].node.kids
    BY <1>18
  <2> HIDE DEF TurnedOK
  <2> QED
    BY <2>1, <2>2, <2>3, SameTurned
<1>21. job.top # 0
  BY <1>1, <1>3 DEF BalanceOK
<1>22. BalanceOK(O, rank, heap', held', dropped', job')
  <2> HIDE DEF TurnedOK
  <2> QED
    BY <1>1, <1>3, <1>9, <1>19, <1>20, <1>21 DEF BalanceOK
<1>23. Anchor(held', job') = anchor
  BY <1>1, <1>19 DEF Anchor, anchor
<1>24. Good(O, rank, bound, heap', trees', held', dropped', job')
  <2>1. Apart(own, O, anchor, rank, bound) /\ RootsOf(trees') = rs
    BY <1>1, <1>2, <1>4 DEF rs
  <2>2. Apart(Own(heap', RootsOf(trees'), held', dropped'), O, Anchor(held', job'), rank, bound)
    BY <1>1, <1>16, <1>23, <2>1
  <2>3. Core(heap', RootsOf(trees'), held', dropped') /\ TreesOK(trees') /\ O \subseteq Alive(heap')
    BY <1>1, <1>2, <1>16, <1>17, <2>1
  <2> QED
    BY <1>22, <2>2, <2>3 DEF Good, JobOK
<1>25. ParserAlone
  <2>1. Sole(own, O, anchor) /\ own = Own(heap, RootsOf(trees), held, dropped)
    BY <1>1, <1>2, <1>4 DEF Apart, own, rs
  <2>2. \A id \in DOMAIN heap : id \notin O => heap'[id].node = heap[id].node
    BY <1>10, <1>18
  <2> QED
    BY <1>1, <2>1, <2>2 DEF ParserAlone, anchor
<1> QED
  BY <1>24, <1>25

\* Finitely many lists have finitely many references.
LEMMA FewHolders ==
    ASSUME NEW own, IsFiniteSet(DOMAIN own), Lists(own), NEW id
    PROVE  IsFiniteSet(Into(own, id)) /\ Tally(own, id) \in Nat
<1> DEFINE f == [p \in DOMAIN own |-> {p} \X Named(own[p], id)]
           F == {{p} \X Named(own[p], id) : p \in DOMAIN own}
<1>1. f \in Surjection(DOMAIN own, F)
  <2>1. f \in [DOMAIN own -> F]
    OBVIOUS
  <2>2. \A y \in F : \E p \in DOMAIN own : f[p] = y
    OBVIOUS
  <2> HIDE DEF f, F
  <2> QED
    BY <2>1, <2>2, Fun_IsSurj
<1>2. \A y \in F : IsFiniteSet(y)
  <2> SUFFICES ASSUME NEW p \in DOMAIN own PROVE IsFiniteSet({p} \X Named(own[p], id))
    OBVIOUS
  <2>1. IsFiniteSet(Named(own[p], id)) /\ IsFiniteSet({p})
    BY TimesType, FS_Singleton DEF Lists
  <2> QED
    BY <2>1, FS_Product
<1>3. Into(own, id) = UNION F
  BY DEF Into
<1> HIDE DEF f, F
<1>4. IsFiniteSet(F)
  BY <1>1, FS_Surjection
<1>5. IsFiniteSet(UNION F)
  BY <1>2, <1>4, FS_UNION
<1> QED
  BY <1>3, <1>5, FS_CardinalityType DEF Tally

\* What a parse has built.
KidsOf(h) == [p \in DOMAIN h |-> h[p].node.kids]
LEMMA DocumentStands ==
    ASSUME NEW d \in Documents
    PROVE  /\ IsList(d.heap) /\ Refers(d.root, DOMAIN d.heap)
           /\ \A id \in DOMAIN d.heap :
                /\ DOMAIN d.heap[id] = {"node", "refs"} /\ Stands(d.heap[id].node) /\ d.heap[id].refs > 0
                /\ \A i \in DOMAIN d.heap[id].node.kids :
                     Refers(d.heap[id].node.kids[i], 1 .. (id - 1) \ {d.root.id})
                /\ d.heap[id].refs = Times(id, <<d.root>>) + Tally(KidsOf(d.heap), id)
<1> DEFINE ids == DOMAIN d.heap
           kids(id) == d.heap[id].node.kids
           slots == UNION {{id} \X DOMAIN kids(id) : id \in ids}
           own == KidsOf(d.heap)
<1>1. /\ IsList(d.heap) /\ Refers(d.root, ids)
      /\ \A id \in ids :
           /\ DOMAIN d.heap[id] = {"node", "refs"} /\ Stands(d.heap[id].node)
           /\ \A i \in DOMAIN kids(id) : Refers(kids(id)[i], 1 .. (id - 1) \ {d.root.id})
           /\ d.heap[id].refs > 0
           /\ d.heap[id].refs = Times(id, <<d.root>>)
                + Cardinality({s \in slots : kids(s[1])[s[2]].id = id})
  BY DocumentsAssumption, Zenon
<1>2. ASSUME NEW id PROVE {s \in slots : kids(s[1])[s[2]].id = id} = Into(own, id)
  <2>1. Into(own, id) = UNION {{p} \X Named(kids(p), id) : p \in ids}
    BY DEF Into, KidsOf
  <2> QED
    BY <2>1 DEF Named
<1> QED
  BY <1>1, <1>2 DEF Tally

\* Everything on the heap of a document is alive, and every reference is counted.
AllAlive(h, rs, hd, dr) ==
    /\ Core(h, rs, hd, dr) /\ Alive(h) = DOMAIN h /\ DOMAIN h = 1 .. Len(h) /\ Len(h) \in Nat
    /\ DOMAIN Own(h, rs, hd, dr) = {0, -1} \cup DOMAIN h
LEMMA DocumentCore ==
    ASSUME NEW d \in Documents, NEW h, h = d.heap, NEW hd, hd = <<d.root>>, NEW rs, DOMAIN rs = {}, IsList(rs),
           NEW dr, dr = {}
    PROVE  AllAlive(h, rs, hd, dr)
<1> DEFINE own == Own(h, rs, hd, dr)  inner == KidsOf(h)  mid == Without(own, -1)
<1>1. /\ IsList(h) /\ Refers(d.root, DOMAIN h)
      /\ \A id \in DOMAIN h :
           /\ DOMAIN h[id] = {"node", "refs"} /\ Stands(h[id].node) /\ h[id].refs > 0
           /\ \A i \in DOMAIN h[id].node.kids : Refers(h[id].node.kids[i], 1 .. (id - 1) \ {d.root.id})
           /\ h[id].refs = Times(id, <<d.root>>) + Tally(inner, id)
  BY DocumentStands
<1>2. DOMAIN h = 1 .. Len(h) /\ Len(h) \in Nat
  BY <1>1, ListIsSeq
<1>3. DOMAIN inner = DOMAIN h /\ \A p \in DOMAIN h : inner[p] = h[p].node.kids
  BY DEF KidsOf
<1>4. Lists(inner)
  BY <1>1, <1>3 DEF Lists, Stands
<1>5. IsFiniteSet(DOMAIN inner)
  BY <1>2, <1>3, FS_Interval
<1> HIDE DEF inner
<1>6. \A id : IsFiniteSet(Into(inner, id)) /\ Tally(inner, id) \in Nat
  BY <1>4, <1>5, FewHolders
<1>7. IsList(hd) /\ \A id : Times(id, hd) = Hit(d.root, id) /\ Times(id, hd) \in Nat
  BY TimesOne DEF Hit
<1>8. ASSUME NEW id \in DOMAIN h PROVE h[id].refs = Times(id, hd) + Tally(inner, id) /\ h[id].refs \in Nat
  <2>1. h[id].refs = Times(id, hd) + Tally(inner, id)
    BY <1>1
  <2>2. Times(id, hd) \in Nat /\ Tally(inner, id) \in Nat
    BY <1>6, <1>7
  <2> DEFINE x == h[id].refs  y == Times(id, hd)  z == Tally(inner, id)
  <2>3. x = y + z /\ y \in Nat /\ z \in Nat
    BY <2>1, <2>2
  <2> HIDE DEF x, y, z
  <2>4. x \in Nat
    BY <2>3
  <2> QED
    BY <2>1, <2>4 DEF x
<1>9. HeapOK(h)
  BY <1>1, <1>8 DEF HeapOK, Entry
<1>10. Alive(h) = DOMAIN h
  BY <1>1 DEF Alive
<1>11. DOMAIN own = {0, -1} \cup DOMAIN h /\ own[0] = rs /\ own[-1] = hd /\ 0 \notin DOMAIN h /\ -1 \notin DOMAIN h
  BY <1>9, <1>10, HeapIds DEF Own
<1>12. \A p \in DOMAIN h : own[p] = h[p].node.kids
  BY <1>11 DEF Own
<1>13. DroppedOK(h, dr)
  BY DEF DroppedOK
<1> HIDE DEF own
<1>14. ASSUME NEW p \in DOMAIN h, NEW i \in DOMAIN own[p]
       PROVE  Shaped(own[p][i]) /\ own[p][i].id \in DOMAIN h \cup {0}
  <2>1. Refers(own[p][i], 1 .. (p - 1) \ {d.root.id}) /\ p \in 1 .. Len(h)
    BY <1>1, <1>2, <1>12
  <2>2. \A y \in 1 .. (p - 1) : y \in 1 .. Len(h) /\ y \in Nat
    BY <1>2, <2>1
  <2>3. own[p][i].id \in Nat /\ own[p][i].id \in DOMAIN h \cup {0}
    BY <1>2, <2>1, <2>2 DEF Refers
  <2> QED
    BY <2>1, <2>3 DEF Refers, Shaped
<1>15. Shaped(d.root) /\ d.root.id \in DOMAIN h \cup {0}
  <2>1. \A y \in DOMAIN h : y \in Nat
    BY <1>2
  <2> QED
    BY <1>1, <2>1 DEF Refers, Shaped
<1>16. AllShaped(hd) /\ AllShaped(rs)
  <2>1. DOMAIN hd = {1} /\ hd[1] = d.root
    OBVIOUS
  <2> QED
    BY <1>7, <1>15, <2>1 DEF AllShaped
<1>17. Holding(own)
  <2>1. ASSUME NEW p \in DOMAIN h PROVE AllShaped(own[p])
    BY <1>1, <1>12, <1>14 DEF AllShaped, Stands
  <2> QED
    BY <1>11, <1>16, <2>1 DEF Holding
<1>18. IsFiniteSet(DOMAIN own)
  <2>1. IsFiniteSet({0, -1}) /\ IsFiniteSet(DOMAIN h)
    <3>1. IsFiniteSet({0}) /\ IsFiniteSet({0} \cup {-1})
      BY FS_Singleton, FS_AddElement
    <3>2. {0} \cup {-1} = {0, -1}
      OBVIOUS
    <3> QED
      BY <1>2, <3>1, <3>2, FS_Interval
  <2> QED
    BY <1>11, <2>1, FS_Union
<1>19. Lists(own)
  BY <1>17 DEF Lists, Holding, AllShaped
<1>20. ASSUME NEW id PROVE IsFiniteSet(Into(own, id)) /\ Tally(own, id) \in Nat
  BY <1>18, <1>19, FewHolders
<1>21. Loose(h, rs, hd, dr)
  BY <1>9, <1>13, <1>17, <1>20 DEF Loose, Finite, own
<1>22. ASSUME NEW id PROVE Tally(own, id) = Tally(inner, id) + Times(id, hd)
  <2> DEFINE q == -1
  <2>1. q \in DOMAIN own /\ IsList(own[q]) /\ own[q] = hd /\ mid = Without(own, q)
    BY <1>7, <1>11
  <2> HIDE DEF q, mid
  <2>2. Tally(own, id) = Tally(mid, id) + Times(id, hd)
    BY <1>20, <2>1, TallyApart
  <2>3. DOMAIN mid = DOMAIN own \ {q} /\ \A p \in DOMAIN mid : mid[p] = own[p]
    BY <2>1 DEF Without
  <2>4. Into(mid, id) = Into(inner, id)
    <3>1. DOMAIN mid = {0} \cup DOMAIN h
      BY <1>11, <2>3 DEF q
    <3>2. mid[0] = rs /\ \A p \in DOMAIN h : mid[p] = inner[p]
      BY <1>3, <1>11, <1>12, <2>3, <3>1
    <3>3. Named(mid[0], id) = {}
      BY <3>2 DEF Named
    <3>4. {0} \X Named(mid[0], id) = {}
      BY <3>3
    <3>5. \A p \in DOMAIN h : {p} \X Named(mid[p], id) = {p} \X Named(inner[p], id)
      BY <3>2
    <3>6. Into(mid, id) = UNION {{p} \X Named(mid[p], id) : p \in {0} \cup DOMAIN h}
      BY <3>1 DEF Into
    <3>7. Into(inner, id) = UNION {{p} \X Named(inner[p], id) : p \in DOMAIN h}
      BY <1>3 DEF Into
    <3> DEFINE A == {{p} \X Named(mid[p], id) : p \in {0} \cup DOMAIN h}
               B == {{p} \X Named(inner[p], id) : p \in DOMAIN h}
    <3>8. A = B \cup {{}}
      BY <3>4, <3>5
    <3> HIDE DEF A, B
    <3>9. UNION A = UNION B
      BY <3>8
    <3> QED
      BY <3>6, <3>7, <3>9 DEF A, B
  <2> QED
    BY <2>2, <2>4 DEF Tally
<1>23. ASSUME NEW id \in Nat \ {0} PROVE Due(h, rs, hd, dr, id) = 0
  <2>1. Due(h, rs, hd, dr, id) = Refs(h, id) - Tally(own, id)
    BY DEF Due, own
  <2>2. CASE id \in DOMAIN h
    <3>1. Refs(h, id) = Times(id, hd) + Tally(inner, id)
      BY <1>8, <2>2 DEF Refs
    <3> QED
      BY <1>6, <1>7, <1>22, <2>1, <3>1
  <2>3. CASE id \notin DOMAIN h
    <3>1. ASSUME NEW p \in DOMAIN own PROVE Named(own[p], id) = {}
      <4>1. CASE p \in DOMAIN h
        BY <1>14, <2>3, <4>1 DEF Named
      <4>2. CASE p = 0
        BY <1>11, <4>2 DEF Named
      <4>3. CASE p = -1
        <5>1. own[p] = hd /\ DOMAIN hd = {1} /\ hd[1] = d.root
          BY <1>11, <4>3
        <5> QED
          BY <1>15, <2>3, <5>1 DEF Named
      <4> QED
        BY <1>11, <4>1, <4>2, <4>3
    <3>2. Into(own, id) = {}
      BY <3>1 DEF Into
    <3>3. Tally(own, id) = 0 /\ Refs(h, id) = 0
      BY <2>3, <3>2, FS_EmptySet DEF Tally, Refs
    <3> QED
      BY <2>1, <3>3
  <2> QED
    BY <2>2, <2>3
<1> QED
  BY <1>2, <1>10, <1>11, <1>21, <1>23 DEF Core, own, AllAlive

LEMMA InitGood ==
    ASSUME Init
    PROVE  IInv
<1>1. PICK d \in Documents :
        /\ heap = d.heap /\ held = <<d.root>>
        /\ job = Balancing(d.text, d.ranges,
                           IF d.root.id = 0 \/ d.heap[d.root.id].node.kids = <<>> THEN {} ELSE {d.root.id})
  BY Zenon DEF Init
<1>2. trees = <<>> /\ dropped = {}
  BY DEF Init
<1> DEFINE rs == RootsOf(trees)  R == d.root.id  O == IF R = 0 \/ heap[R].node.kids = <<>> THEN {} ELSE {R}
           own == Own(heap, rs, held, dropped)  n == Len(heap)
           rank == [y \in Nat |-> IF y \in 1 .. n THEN y ELSE 0]
<1>3. TreesOK(trees) /\ DOMAIN rs = {} /\ IsList(rs)
  <2>1. IsList(trees) /\ DOMAIN trees = {}
    BY <1>2, EmptyIsList
  <2>2. 1 .. 0 = {}
    OBVIOUS
  <2>3. rs = [i \in 1 .. 0 |-> rs[i]] /\ DOMAIN rs = {}
    BY <2>1, <2>2 DEF RootsOf
  <2> HIDE DEF rs
  <2>4. IsList(rs)
    BY <2>3, FunctionIsList
  <2> QED
    BY <2>1, <2>3, <2>4 DEF TreesOK
<1> HIDE DEF rs
<1>4. /\ Core(heap, rs, held, dropped) /\ Alive(heap) = DOMAIN heap /\ DOMAIN heap = 1 .. n /\ n \in Nat
      /\ DOMAIN own = {0, -1} \cup DOMAIN heap
  <2>1. AllAlive(heap, rs, held, dropped)
    BY <1>1, <1>2, <1>3, DocumentCore
  <2> QED
    BY <2>1 DEF AllAlive
<1>5. /\ Refers(d.root, DOMAIN heap)
      /\ \A id \in DOMAIN heap : \A i \in DOMAIN heap[id].node.kids :
           Refers(heap[id].node.kids[i], 1 .. (id - 1) \ {R})
  BY <1>1, DocumentStands
<1>6. ASSUME NEW p \in DOMAIN heap PROVE p # 0 /\ p # -1 /\ own[p] = heap[p].node.kids /\ p \in Nat /\ p <= n
  <2>1. p \in Alive(heap)
    BY <1>4
  <2> QED
    BY <1>4, <2>1, KidsAlive
<1>7. own[0] = rs /\ own[-1] = held
  BY DEF Own
<1>8. DOMAIN held = {1} /\ held[1] = d.root /\ Len(held) = 1 /\ held # <<>>
  BY <1>1
<1> HIDE DEF own, rank, n, O
<1>9. RankOn(rank, n)
  <2>1. \A y \in Nat : (IF y \in 1 .. n THEN y ELSE 0) \in 0 .. n
    BY <1>4
  <2>2. rank \in [Nat -> 0 .. n] /\ rank[0] = 0
    BY <2>1 DEF rank
  <2> QED
    BY <1>4, <2>2 DEF RankOn
<1>10. Ranked(own, rank)
  <2> SUFFICES ASSUME NEW p \in DOMAIN own, p # 0, p # -1, NEW j \in DOMAIN own[p]
               PROVE  rank[own[p][j].id] < rank[p]
    BY DEF Ranked
  <2>1. p \in DOMAIN heap
    BY <1>4
  <2>2. p \in 1 .. n /\ own[p][j].id \in 0 .. p - 1
    <3>1. Refers(own[p][j], 1 .. (p - 1) \ {R}) /\ p \in 1 .. n
      BY <1>4, <1>5, <1>6, <2>1
    <3>2. own[p][j].id \in 1 .. (p - 1) \cup {0}
      BY <3>1 DEF Refers
    <3> QED
      BY <1>4, <3>1, <3>2
  <2> DEFINE k == own[p][j].id
  <2>3. k \in 0 .. p - 1 /\ p \in 1 .. n
    BY <2>2
  <2> HIDE DEF k
  <2>4. rank[p] = p /\ rank[k] = k
    <3>1. k \in Nat /\ p \in Nat /\ (k \in 1 .. n \/ k = 0)
      BY <1>4, <2>3
    <3> QED
      BY <2>3, <3>1 DEF rank
  <2> QED
    BY <1>4, <2>3, <2>4 DEF k
<1>11. O \subseteq DOMAIN heap /\ O \subseteq {R} /\ \A x \in O : x \in Nat \ {0}
  <2>1. R \in DOMAIN heap \cup {0}
    BY <1>5 DEF Refers
  <2>2. \A x \in DOMAIN heap : x \in Nat \ {0}
    BY <1>6
  <2> QED
    BY <2>1, <2>2 DEF O
<1>12. Sole(own, O, <<-1, 1>>)
  <2> SUFFICES ASSUME NEW x \in O, NEW p \in DOMAIN own, NEW j \in DOMAIN own[p], own[p][j].id = x
               PROVE  <<p, j>> = <<-1, 1>>
    BY <1>11 DEF Sole
  <2>1. CASE p \in DOMAIN heap
    <3>1. Refers(own[p][j], 1 .. (p - 1) \ {R})
      BY <1>5, <1>6, <2>1
    <3>2. x = R /\ x # 0
      BY <1>11
    <3> QED
      BY <3>1, <3>2 DEF Refers
  <2>2. CASE p = 0
    BY <1>3, <1>7, <2>2
  <2>3. CASE p = -1
    BY <1>7, <1>8, <2>3
  <2> QED
    BY <1>4, <2>1, <2>2, <2>3
<1>13. job = Balancing(d.text, d.ranges, O)
  BY <1>1 DEF O
<1>14. /\ job.op = "balance" /\ job.todo = O /\ job.top = 0 /\ job.at = 0 /\ job.turned = <<>>
       /\ {"op", "text", "ranges", "todo", "top", "round", "at", "left", "turned"} \subseteq DOMAIN job
  BY <1>13 DEF Balancing
<1>15. BalanceOK(O, rank, heap, held, dropped, job)
  <2>1. IsList(job.turned) /\ DOMAIN job.turned = {}
    BY <1>14, EmptyIsList
  <2> QED
    BY <1>2, <1>8, <1>14, <2>1 DEF BalanceOK
<1>16. Anchor(held, job) = <<-1, 1>>
  BY <1>8, <1>14 DEF Anchor
<1>17. Apart(own, O, Anchor(held, job), rank, n)
  BY <1>9, <1>10, <1>12, <1>16 DEF Apart
<1>18. Good(O, rank, n, heap, trees, held, dropped, job)
  <2>1. O \subseteq Alive(heap)
    BY <1>4, <1>11
  <2> QED
    BY <1>3, <1>4, <1>15, <1>17, <2>1 DEF Good, JobOK, own, rs
<1> QED
  BY <1>18 DEF IInv

-----------------------------------------------------------------------------
(* Every step keeps the invariant, and spares what is held elsewhere. *)

\* What an edit writes to, only its tree may reach.
EditAlone ==
    /\ job.op = "edit"
    /\ \E W : /\ Sole(Own(heap, RootsOf(trees), held, dropped), W, <<0, job.tree>>)
              /\ \A id \in DOMAIN heap : id \notin W => heap'[id].node = heap[id].node
    /\ \A t \in DOMAIN trees : t # job.tree => trees'[t].root = trees[t].root
LEMMA StepGood ==
    ASSUME IInv, [Next]_vars
    PROVE  IInv' /\ (Kept \/ ParserAlone \/ EditAlone)
<1> PICK O, rank, bound : Good(O, rank, bound, heap, trees, held, dropped, job)
  BY DEF IInv
<1>1. \A O2, rank2, bound2 : Good(O2, rank2, bound2, heap', trees', held', dropped', job') => IInv'
  BY DEF IInv
<1> DEFINE Keeps == \E O2, rank2, bound2 : Good(O2, rank2, bound2, heap', trees', held', dropped', job')
<1>2. Keeps => IInv'
  BY <1>1
<1>3. heap' = heap /\ trees' = trees => Kept
  BY DEF Kept
<1>4. CASE ReleaseStep
  <2>1. Keeps
    BY <1>4, ReleaseStepGood
  <2>2. Kept
    <3>1. PICK id \in dropped :
            /\ heap' = Released(heap, heap[id].node.kids)
            /\ dropped' = (dropped \ {id}) \cup Freed(heap, heap[id].node.kids)
      BY <1>4 DEF ReleaseStep
    <3>2. Core(heap, RootsOf(trees), held, dropped)
      BY DEF Good
    <3>3. LetsGo(heap, RootsOf(trees), held, dropped, id, heap', dropped')
      BY <3>1, <3>2, ReleaseCore
    <3>4. trees' = trees
      BY <1>4 DEF ReleaseStep
    <3> QED
      BY <3>3, <3>4 DEF LetsGo, Kept
  <2> QED
    BY <1>2, <2>1, <2>2
<1>5. CASE EditStep
  <2>1. Keeps
    BY <1>5, EditStepGood
  <2>2. EditAlone
    <3>1. job.op = "edit"
      BY <1>5 DEF EditStep, Doing
    <3> QED
      BY <1>5, <3>1, EditStepGood DEF EditAlone
  <2> QED
    BY <1>2, <2>1, <2>2
<1>6. CASE EditEnd
  <2>1. Keeps
    BY <1>6, EditEndGood
  <2>2. heap' = heap /\ trees' = trees
    BY <1>6 DEF EditEnd
  <2> QED
    BY <1>2, <1>3, <2>1, <2>2
<1>7. CASE Visit
  <2>1. Keeps
    BY <1>7, VisitGood
  <2>2. heap' = heap /\ trees' = trees
    BY <1>7 DEF Visit
  <2> QED
    BY <1>2, <1>3, <2>1, <2>2
<1>8. CASE Rotate
  <2>1. Keeps
    BY <1>8, RotateGood
  <2>2. ParserAlone
    BY <1>8, RotateGood
  <2> QED
    BY <1>2, <2>1, <2>2
<1>9. CASE SumUp
  <2>1. Keeps
    BY <1>9, SumUpGood
  <2>2. ParserAlone
    BY <1>9, SumUpGood
  <2> QED
    BY <1>2, <2>1, <2>2
<1>10. CASE NextRound
  <2>1. Keeps
    BY <1>10, NextRoundGood
  <2>2. heap' = heap /\ trees' = trees
    BY <1>10 DEF NextRound
  <2> QED
    BY <1>2, <1>3, <2>1, <2>2
<1>11. CASE ParseStep
  BY <1>2, <1>11, ParseStepGood
<1>12. CASE Accept
  BY <1>2, <1>12, AcceptGood
<1>13. CASE ParseNothing
  BY <1>2, <1>13, ParseNothingGood
<1>14. CASE ParseEnd
  BY <1>2, <1>14, ParseEndGood
<1>15. ASSUME NEW t \in DOMAIN trees, Copy(t) PROVE Keeps /\ Kept
  BY <1>15, CopyGood
<1>16. ASSUME NEW t \in DOMAIN trees, Parse(t) PROVE Keeps /\ Kept
  BY <1>16, ParseGood
<1>17. ASSUME NEW t \in DOMAIN trees, NEW from, NEW to, NEW insert, Edit(t, from, to, insert)
       PROVE  Keeps /\ Kept
  BY <1>17, EditGood
<1>18. CASE UNCHANGED vars
  <2>1. /\ heap' = heap /\ trees' = trees /\ held' = held /\ dropped' = dropped /\ job' = job
    BY <1>18 DEF vars
  <2>2. Keeps
    BY <2>1
  <2> QED
    BY <1>2, <1>3, <2>1, <2>2
<1> HIDE DEF Keeps
<1>19. CASE \E t \in DOMAIN trees :
              \/ Copy(t) \/ Parse(t)
              \/ \E from, to \in 0..Len(trees[t].text), insert \in Inserts :
                   from <= to /\ (from # to \/ insert # <<>>) /\ Edit(t, from, to, insert)
  BY <1>2, <1>15, <1>16, <1>17, <1>19, Zenon
<1> QED
  BY <1>4, <1>5, <1>6, <1>7, <1>8, <1>9, <1>10, <1>11, <1>12, <1>13, <1>14, <1>18, <1>19, Zenon DEF Next

-----------------------------------------------------------------------------
(* What a reference reaches is in every set that its subtree is in and that *)
(* has the children of its members.                                         *)

Edge(h, p, k) == \E i \in DOMAIN h[p].node.kids : h[p].node.kids[i].id = k
Under(h, S) == {k \in DOMAIN h : \E p \in S : Edge(h, p, k)}
Levels(h, r, f) == f = [n \in Nat |-> IF n = 0 THEN {r.id} \ {0} ELSE f[n - 1] \cup Under(h, f[n - 1])]
\* The ways down from a reference, which may rest.
Ways(h, r, n) ==
    {s \in [0 .. n -> DOMAIN h \cup {r.id}] :
       /\ r.id # 0 /\ s[0] = r.id
       /\ \A i \in 1 .. n : s[i] = s[i - 1] \/ (s[i] \in DOMAIN h /\ Edge(h, s[i - 1], s[i]))}

LEMMA LevelsExist ==
    ASSUME NEW h, NEW r
    PROVE  \E f : Levels(h, r, f)
<1> DEFINE f == [n \in Nat |-> {s[n] : s \in Ways(h, r, n)}]  U == DOMAIN h \cup {r.id}
<1>1. f[0] = {r.id} \ {0}
  <2> DEFINE s == [i \in 0 .. 0 |-> r.id]
  <2>1. r.id # 0 => s \in Ways(h, r, 0) /\ s[0] = r.id
    BY DEF Ways
  <2>2. \A t \in Ways(h, r, 0) : t[0] = r.id /\ r.id # 0
    BY DEF Ways
  <2>3. f[0] = {t[0] : t \in Ways(h, r, 0)}
    OBVIOUS
  <2> HIDE DEF f, s
  <2> QED
    BY <2>1, <2>2, <2>3
<1>2. ASSUME NEW n \in Nat, n # 0
      PROVE  f[n] = f[n - 1] \cup Under(h, f[n - 1])
  <2>1. n - 1 \in Nat /\ 0 .. n = 0 .. n - 1 \cup {n} /\ 1 .. n = 1 .. n - 1 \cup {n} /\ n \notin 0 .. n - 1
    BY <1>2
  <2>2. f[n] = {s[n] : s \in Ways(h, r, n)} /\ f[n - 1] = {s[n - 1] : s \in Ways(h, r, n - 1)}
    BY <2>1
  <2> HIDE DEF f
  <2>3. ASSUME NEW s \in Ways(h, r, n)
        PROVE  s[n] \in f[n - 1] \cup Under(h, f[n - 1])
    <3> DEFINE t == [i \in 0 .. n - 1 |-> s[i]]
    <3>1. s \in [0 .. n -> U] /\ r.id # 0 /\ s[0] = r.id
          /\ \A i \in 1 .. n : s[i] = s[i - 1] \/ (s[i] \in DOMAIN h /\ Edge(h, s[i - 1], s[i]))
      BY DEF Ways
    <3>2. t \in [0 .. n - 1 -> U] /\ t[0] = r.id /\ t[n - 1] = s[n - 1]
      BY <2>1, <3>1
    <3>3. ASSUME NEW i \in 1 .. n - 1 PROVE t[i] = t[i - 1] \/ (t[i] \in DOMAIN h /\ Edge(h, t[i - 1], t[i]))
      <4>1. i \in 0 .. n - 1 /\ i - 1 \in 0 .. n - 1 /\ i \in 1 .. n
        BY <2>1
      <4>2. t[i] = s[i] /\ t[i - 1] = s[i - 1]
        BY <4>1
      <4> QED
        BY <3>1, <4>1, <4>2
    <3> HIDE DEF t
    <3>4. t \in Ways(h, r, n - 1)
      BY <3>1, <3>2, <3>3 DEF Ways
    <3>5. s[n - 1] \in f[n - 1]
      BY <2>2, <3>2, <3>4
    <3>6. n \in 1 .. n
      BY <2>1
    <3>7. s[n] = s[n - 1] \/ (s[n] \in DOMAIN h /\ Edge(h, s[n - 1], s[n]))
      BY <3>1, <3>6
    <3> QED
      BY <3>5, <3>7 DEF Under
  <2>4. ASSUME NEW k \in f[n - 1] \cup Under(h, f[n - 1])
        PROVE  \E s \in Ways(h, r, n) : s[n] = k
    <3>1. PICK p \in f[n - 1] : k = p \/ (k \in DOMAIN h /\ Edge(h, p, k))
      BY DEF Under
    <3>2. PICK t \in Ways(h, r, n - 1) : t[n - 1] = p
      BY <2>2
    <3>3. t \in [0 .. n - 1 -> U] /\ r.id # 0 /\ t[0] = r.id
          /\ \A i \in 1 .. n - 1 : t[i] = t[i - 1] \/ (t[i] \in DOMAIN h /\ Edge(h, t[i - 1], t[i]))
      BY DEF Ways
    <3> DEFINE s == [i \in 0 .. n |-> IF i = n THEN k ELSE t[i]]
    <3>4. s[n] = k /\ (\A i \in 0 .. n - 1 : s[i] = t[i]) /\ n - 1 \in 0 .. n - 1 /\ 0 \in 0 .. n - 1
      BY <2>1
    <3>5. s \in [0 .. n -> U]
      <4>1. p \in U
        BY <2>1, <3>2, <3>3, <3>4
      <4>2. k \in U
        BY <3>1, <4>1
      <4>3. \A i \in 0 .. n - 1 : t[i] \in U
        BY <3>3
      <4> HIDE DEF U
      <4> QED
        BY <2>1, <4>2, <4>3
    <3> HIDE DEF s
    <3>6. ASSUME NEW i \in 1 .. n PROVE s[i] = s[i - 1] \/ (s[i] \in DOMAIN h /\ Edge(h, s[i - 1], s[i]))
      <4>1. CASE i = n
        BY <3>1, <3>2, <3>4, <4>1
      <4>2. CASE i # n
        <5>1. i \in 1 .. n - 1 /\ i \in 0 .. n - 1 /\ i - 1 \in 0 .. n - 1
          BY <2>1, <4>2
        <5> QED
          BY <3>3, <3>4, <5>1
      <4> QED
        BY <4>1, <4>2
    <3>7. s \in Ways(h, r, n)
      BY <3>3, <3>4, <3>5, <3>6 DEF Ways
    <3> QED
      BY <3>4, <3>7
  <2> DEFINE X == f[n - 1] \cup Under(h, f[n - 1])  Y == f[n]
  <2>5. \A s \in Ways(h, r, n) : s[n] \in X
    BY <2>3
  <2>6. \A k \in X : \E s \in Ways(h, r, n) : s[n] = k
    BY <2>4
  <2>7. Y = {s[n] : s \in Ways(h, r, n)}
    BY <2>2
  <2> HIDE DEF X, Y
  <2>8. X = Y
    BY <2>5, <2>6, <2>7
  <2> QED
    BY <2>8 DEF X, Y
<1>3. DOMAIN f = Nat /\ f = [n \in Nat |-> f[n]]
  OBVIOUS
<1> HIDE DEF f
<1>4. f = [n \in Nat |-> IF n = 0 THEN {r.id} \ {0} ELSE f[n - 1] \cup Under(h, f[n - 1])]
  BY <1>1, <1>2, <1>3
<1> QED
  BY <1>4 DEF Levels

\* The levels are those of the definition,
LEMMA ReachLevels ==
    ASSUME NEW h, NEW r
    PROVE  \E f : Levels(h, r, f) /\ Reach(h, r) = f[Len(h)]
<1> PICK g : Levels(h, r, g)
  BY LevelsExist
<1> DEFINE reached[n \in Nat] ==
             IF n = 0 THEN {r.id} \ {0}
             ELSE LET above == reached[n - 1]
                  IN  above \union {k \in DOMAIN h : \E p \in above :
                                       \E i \in DOMAIN h[p].node.kids : h[p].node.kids[i].id = k}
           P(f) == f = [n \in Nat |-> IF n = 0 THEN {r.id} \ {0}
                          ELSE f[n - 1] \union {k \in DOMAIN h : \E p \in f[n - 1] :
                                 \E i \in DOMAIN h[p].node.kids : h[p].node.kids[i].id = k}]
           d == CHOOSE f : P(f)
<1>1. Reach(h, r) = reached[Len(h)]
  BY DEF Reach
<1>2. d = reached
  OBVIOUS
<1>3. P(g)
  BY DEF Levels, Under, Edge
<1>4. d = CHOOSE f : P(f)
  OBVIOUS
<1> HIDE DEF P, d, reached
<1>5. P(d)
  BY <1>3, <1>4
<1>6. Levels(h, r, d)
  BY <1>5 DEF P, Levels, Under, Edge
<1> QED
  BY <1>1, <1>2, <1>6

\* and stay within such a set.
LEMMA ReachWithin ==
    ASSUME NEW h, Len(h) \in Nat, NEW r, NEW S, r.id # 0 => r.id \in S,
           \A p \in S : \A k \in DOMAIN h : Edge(h, p, k) => k \in S
    PROVE  Reach(h, r) \subseteq S
<1>1. PICK f : Levels(h, r, f) /\ Reach(h, r) = f[Len(h)]
  BY ReachLevels
<1> DEFINE bad == {n \in Nat : ~ f[n] \subseteq S}
<1>2. ASSUME bad # {} PROVE FALSE
  <2>1. PICK m \in bad : \A y \in bad : m <= y
    BY <1>2, LeastNatural
  <2>2. m \in Nat /\ ~ f[m] \subseteq S
    OBVIOUS
  <2>3. \A n \in Nat : f[n] = IF n = 0 THEN {r.id} \ {0} ELSE f[n - 1] \cup Under(h, f[n - 1])
    <3>1. f = [n \in Nat |-> IF n = 0 THEN {r.id} \ {0} ELSE f[n - 1] \cup Under(h, f[n - 1])]
      BY <1>1 DEF Levels
    <3> DEFINE g(n) == IF n = 0 THEN {r.id} \ {0} ELSE f[n - 1] \cup Under(h, f[n - 1])
    <3>2. f = [n \in Nat |-> g(n)]
      BY <3>1
    <3> HIDE DEF g
    <3>3. \A n \in Nat : f[n] = g(n)
      BY <3>2
    <3> QED
      BY <3>3 DEF g
  <2>4. m # 0
    BY <2>2, <2>3
  <2>5. m - 1 \in Nat /\ m - 1 < m
    BY <2>2, <2>4
  <2>6. f[m - 1] \subseteq S
    <3>1. m - 1 \notin bad
      BY <2>1, <2>2, <2>5
    <3> QED
      BY <2>5, <3>1
  <2>7. Under(h, f[m - 1]) \subseteq S
    BY <2>6 DEF Under
  <2> QED
    BY <2>2, <2>3, <2>4, <2>6, <2>7
<1> QED
  BY <1>1, <1>2

-----------------------------------------------------------------------------
(* Theorems. *)

\* What only its holder may reach is out of reach of every other reference.
LEMMA OutOfReach ==
    ASSUME NEW h, NEW rs, NEW hd, NEW dr, Core(h, rs, hd, dr), NEW r, r.id # 0 => r.id \in Alive(h),
           NEW W, NEW anchor, anchor[1] \in {0, -1}, Sole(Own(h, rs, hd, dr), W, anchor), r.id \notin W
    PROVE  \A id \in Reach(h, r) : id \in DOMAIN h /\ id \notin W
<1> DEFINE S == {id \in Alive(h) : id \notin W}  own == Own(h, rs, hd, dr)
<1>1. Len(h) \in Nat
  BY HeapIds DEF Core, Loose
<1>2. r.id # 0 => r.id \in S
  OBVIOUS
<1>3. ASSUME NEW p \in S, NEW k \in DOMAIN h, Edge(h, p, k)
      PROVE  k \in S
  <2>1. PICK i \in DOMAIN h[p].node.kids : h[p].node.kids[i].id = k
    BY <1>3 DEF Edge
  <2>2. /\ p \in DOMAIN own /\ own[p] = h[p].node.kids /\ p # 0 /\ p # -1
        /\ (h[p].node.kids[i].id # 0 => h[p].node.kids[i].id \in Alive(h))
    BY KidsAlive
  <2>3. k # 0
    BY HeapIds DEF Core, Loose
  <2>4. k \in Alive(h)
    BY <2>1, <2>2, <2>3
  <2>5. k \notin W
    <3>1. own[p][i].id = k /\ i \in DOMAIN own[p] /\ p \notin W
      BY <2>1, <2>2
    <3>2. <<p, i>> # anchor
      BY <2>2
    <3> HIDE DEF own
    <3> QED
      BY <2>2, <3>1, <3>2 DEF Sole, own
  <2> QED
    BY <2>4, <2>5
<1>4. \A id \in S : id \in DOMAIN h /\ id \notin W
  BY DEF Alive
<1> HIDE DEF S
<1>5. Reach(h, r) \subseteq S
  BY <1>1, <1>2, <1>3, ReachWithin
<1> QED
  BY <1>4, <1>5

\* The inductive invariant: every reference is counted, what an operation writes
\* to only it may reach, and no subtree holds itself (subtree_core.go:91, 131,
\* parser_loop.go:213, subtree_edit.go:19).
THEOREM Invariant == Spec => []IInv
<1>1. Init => IInv
  BY InitGood
<1>2. IInv /\ [Next]_vars => IInv'
  BY StepGood
<1> QED
  BY <1>1, <1>2, PTL DEF Spec

\* A reference count is the number of references, whatever was copied, edited,
\* parsed, balanced and released before (subtree_core.go:84, 91).
THEOREM RefsExactAlways == Spec => []RefsExact
<1>1. ASSUME IInv PROVE RefsExact
  <2> PICK O, rank, bound : Good(O, rank, bound, heap, trees, held, dropped, job)
    BY <1>1 DEF IInv
  <2> DEFINE rs == RootsOf(trees)  own == Own(heap, rs, held, dropped)
  <2>1. Core(heap, rs, held, dropped) /\ HeapOK(heap) /\ DroppedOK(heap, dropped)
    BY DEF Good, Core, Loose
  <2> SUFFICES ASSUME NEW id \in DOMAIN heap PROVE heap[id].refs = Cardinality(Holders(id))
    BY DEF RefsExact
  <2>2. Live = Alive(heap) \cup dropped
    BY DEF Live, Alive
  <2>3. DOMAIN own = {0, -1} \cup Live
    BY <2>2 DEF Own
  <2>4. ASSUME NEW p \in Live PROVE p # 0 /\ p # -1 /\ own[p] = heap[p].node.kids
    BY <2>1, <2>2, KidsAlive
  <2>5. own[0] = rs /\ own[-1] = held /\ DOMAIN rs = DOMAIN trees /\ \A t \in DOMAIN trees : rs[t] = trees[t].root
    BY OwnEnds DEF RootsOf
  <2> HIDE DEF own, rs
  <2>6. ASSUME NEW place
        PROVE  place \in Holders(id) <=> place \in Into(own, id)
    <3>1. place \in Into(own, id) <=> \E p \in DOMAIN own : \E i \in DOMAIN own[p] : /\ place = <<p, i>>
                                                                              /\ own[p][i].id = id
      BY DEF Into, Named
    <3>2. place \in Places <=> \/ \E i \in DOMAIN trees : place = <<0, i>>
                               \/ \E i \in DOMAIN held : place = <<-1, i>>
                               \/ \E p \in Live : \E i \in DOMAIN heap[p].node.kids : place = <<p, i>>
      BY DEF Places
    <3>3. place \in Holders(id) <=> place \in Places /\ RefAt(place).id = id
      BY DEF Holders
    <3>4. \A i : RefAt(<<0, i>>) = trees[i].root /\ RefAt(<<-1, i>>) = held[i]
      BY DEF RefAt, RefIn
    <3>5. \A p \in Live : \A i : RefAt(<<p, i>>) = heap[p].node.kids[i]
      BY <2>4 DEF RefAt, RefIn
    <3>6. place \in Holders(id) => place \in Into(own, id)
      <4> SUFFICES ASSUME place \in Places, RefAt(place).id = id PROVE place \in Into(own, id)
        BY <3>3
      <4>1. CASE \E i \in DOMAIN trees : place = <<0, i>>
        BY <2>3, <2>5, <3>1, <3>4, <4>1
      <4>2. CASE \E i \in DOMAIN held : place = <<-1, i>>
        BY <2>3, <2>5, <3>1, <3>4, <4>2
      <4>3. CASE \E p \in Live : \E i \in DOMAIN heap[p].node.kids : place = <<p, i>>
        BY <2>3, <2>4, <3>1, <3>5, <4>3
      <4> QED
        BY <3>2, <4>1, <4>2, <4>3
    <3>7. place \in Into(own, id) => place \in Holders(id)
      <4> SUFFICES ASSUME NEW p \in DOMAIN own, NEW i, place = <<p, i>>, i \in DOMAIN own[p], own[p][i].id = id
                   PROVE  place \in Places /\ RefAt(place).id = id
        BY <3>1, <3>3
      <4>1. CASE p = 0
        BY <2>5, <3>2, <3>4, <4>1
      <4>2. CASE p = -1
        BY <2>5, <3>2, <3>4, <4>2
      <4>3. CASE p \in Live
        BY <2>4, <3>2, <3>5, <4>3
      <4> QED
        BY <2>3, <4>1, <4>2, <4>3
    <3> QED
      BY <3>6, <3>7
  <2>7. Holders(id) = Into(own, id)
    BY <2>6
  <2>8. id \in Nat \ {0} /\ Refs(heap, id) = heap[id].refs
    BY <2>1, HeapIds DEF Refs
  <2>9. Refs(heap, id) \in Nat /\ Tally(own, id) \in Nat /\ Refs(heap, id) - Tally(own, id) = 0
    BY <2>1, <2>8, DueType DEF Core, Due, own
  <2> QED
    BY <2>7, <2>8, <2>9 DEF Tally
<1> QED
  BY <1>1, Invariant, PTL

\* Nothing that is held is a subtree that was freed: neither the root of a tree, nor what
\* the parser holds, nor a child of a node that is not freed or still to be released
\* (subtree_core.go:91).
NothingDangles ==
    \A place \in Places : RefAt(place).id # 0 =>
        RefAt(place).id \in DOMAIN heap /\ heap[RefAt(place).id].refs > 0
THEOREM NothingDanglesEver == Spec => []NothingDangles
<1>1. ASSUME IInv PROVE NothingDangles
  <2> PICK O, rank, bound : Good(O, rank, bound, heap, trees, held, dropped, job)
    BY <1>1 DEF IInv
  <2> DEFINE rs == RootsOf(trees)  own == Own(heap, rs, held, dropped)
  <2>1. Core(heap, rs, held, dropped)
    BY DEF Good
  <2> SUFFICES ASSUME NEW place \in Places, RefAt(place).id # 0 PROVE RefAt(place).id \in Alive(heap)
    BY DEF NothingDangles, Alive
  <2>2. \/ \E i \in DOMAIN trees : place = <<0, i>>
        \/ \E i \in DOMAIN held : place = <<-1, i>>
        \/ \E p \in Live : \E i \in DOMAIN heap[p].node.kids : place = <<p, i>>
    BY DEF Places
  <2>3. CASE \E i \in DOMAIN trees : place = <<0, i>>
    <3>1. PICK i \in DOMAIN trees : place = <<0, i>>
      BY <2>3
    <3>2. RefAt(place) = trees[i].root
      BY <3>1 DEF RefAt, RefIn
    <3> QED
      BY <2>1, <3>2, RootAlive
  <2>4. CASE \E i \in DOMAIN held : place = <<-1, i>>
    <3>1. PICK i \in DOMAIN held : place = <<-1, i>>
      BY <2>4
    <3>2. RefAt(place) = held[i] /\ -1 \in DOMAIN own /\ own[-1] = held
      BY <3>1, OwnEnds DEF RefAt
    <3> QED
      BY <2>1, <3>2, ThereIsAlive
  <2>5. CASE \E p \in Live : \E i \in DOMAIN heap[p].node.kids : place = <<p, i>>
    <3>1. PICK p \in Live : \E i \in DOMAIN heap[p].node.kids : place = <<p, i>>
      BY <2>5
    <3>2. PICK i \in DOMAIN heap[p].node.kids : place = <<p, i>>
      BY <3>1
    <3>3. p \in Alive(heap) \cup dropped
      BY DEF Live, Alive
    <3>4. p # 0 /\ p # -1 /\ (heap[p].node.kids[i].id # 0 => heap[p].node.kids[i].id \in Alive(heap))
      BY <2>1, <3>3, KidsAlive
    <3>5. RefAt(place) = heap[p].node.kids[i]
      BY <3>2, <3>4 DEF RefAt, RefIn
    <3> QED
      BY <3>4, <3>5
  <2> QED
    BY <2>2, <2>3, <2>4, <2>5
<1> QED
  BY <1>1, Invariant, PTL

\* No subtree is below itself: those that are not freed have a height, which only falls on the
\* way down, so that everything that walks a tree comes to an end (subtree_core.go:99,
\* subtree_edit.go:29, parser_loop.go:222).
Acyclic ==
    \E height \in [DOMAIN heap -> Nat] :
      \A p \in Live : \A i \in DOMAIN heap[p].node.kids :
        heap[p].node.kids[i].id # 0 => height[heap[p].node.kids[i].id] < height[p]
THEOREM AcyclicAlways == Spec => []Acyclic
<1>1. ASSUME IInv PROVE Acyclic
  <2> PICK O, rank, bound : Good(O, rank, bound, heap, trees, held, dropped, job)
    BY <1>1 DEF IInv
  <2> DEFINE rs == RootsOf(trees)  own == Own(heap, rs, held, dropped)  height == [id \in DOMAIN heap |-> rank[id]]
  <2>1. Core(heap, rs, held, dropped) /\ Ranked(own, rank) /\ RankOn(rank, bound)
    BY DEF Good, Apart
  <2>2. DOMAIN heap \subseteq Nat
    BY <2>1, HeapIds DEF Core, Loose
  <2>3. height \in [DOMAIN heap -> Nat]
    <3>1. bound \in Nat /\ rank \in [Nat -> 0 .. bound]
      BY <2>1 DEF RankOn
    <3>2. ASSUME NEW id \in DOMAIN heap PROVE rank[id] \in Nat
      <4>1. rank[id] \in 0 .. bound
        BY <2>2, <3>1
      <4> QED
        BY <3>1, <4>1
    <3> QED
      BY <3>2
  <2>4. ASSUME NEW p \in Live, NEW i \in DOMAIN heap[p].node.kids, heap[p].node.kids[i].id # 0
        PROVE  height[heap[p].node.kids[i].id] < height[p]
    <3>1. p \in Alive(heap) \cup dropped
      BY DEF Live, Alive
    <3>2. /\ p \in DOMAIN own /\ own[p] = heap[p].node.kids /\ p # 0 /\ p # -1 /\ p \in DOMAIN heap
          /\ heap[p].node.kids[i].id \in DOMAIN heap
      BY <2>1, <2>4, <3>1, KidsAlive
    <3>3. rank[heap[p].node.kids[i].id] < rank[p]
      BY <2>1, <3>2 DEF Ranked
    <3> QED
      BY <3>2, <3>3
  <2> HIDE DEF height
  <2> QED
    BY <2>3, <2>4 DEF Acyclic
<1> QED
  BY <1>1, Invariant, PTL

\* Whatever is done to a tree leaves every other tree as it was, step by step: copies,
\* edits, parses, balancing and releases (subtree_core.go:131, parser_loop.go:213).
THEOREM OthersUntouchedAlways == Spec => OthersUntouched
<1> DEFINE Spared == \A t \in DOMAIN trees :
             \/ job.op = "edit" /\ t = job.tree
             \/ /\ trees'[t].root = trees[t].root
                /\ \A id \in Reach(heap, trees[t].root) : heap'[id].node = heap[id].node
<1>1. ASSUME IInv, [Next]_vars PROVE Spared
  <2> PICK O, rank, bound : Good(O, rank, bound, heap, trees, held, dropped, job)
    BY <1>1 DEF IInv
  <2> DEFINE rs == RootsOf(trees)  own == Own(heap, rs, held, dropped)
  <2>1. Core(heap, rs, held, dropped)
    BY DEF Good
  <2>2. ASSUME NEW t \in DOMAIN trees
        PROVE  /\ trees[t].root.id # 0 => trees[t].root.id \in Alive(heap)
               /\ t \in DOMAIN own[0] /\ 0 \in DOMAIN own /\ own[0][t] = trees[t].root
    BY <2>1, RootAlive, OwnEnds
  <2>3. ASSUME NEW t \in DOMAIN trees, NEW W, NEW anchor, anchor[1] \in {0, -1}, anchor # <<0, t>>,
               Sole(own, W, anchor), \A id \in DOMAIN heap : id \notin W => heap'[id].node = heap[id].node
        PROVE  \A id \in Reach(heap, trees[t].root) : heap'[id].node = heap[id].node
    <3> DEFINE r == trees[t].root
    <3>1. 0 \notin W
      BY <2>3 DEF Sole
    <3>2. r.id \notin W
      BY <2>2, <2>3, <3>1 DEF Sole
    <3>3. r.id # 0 => r.id \in Alive(heap)
      BY <2>2
    <3> HIDE DEF r, rs
    <3>4. \A id \in Reach(heap, r) : id \in DOMAIN heap /\ id \notin W
      BY <2>1, <2>3, <3>2, <3>3, OutOfReach
    <3>5. \A id \in Reach(heap, r) : heap'[id].node = heap[id].node
      BY <2>3, <3>4
    <3> QED
      BY <3>5 DEF r
  <2>4. CASE Kept
    <3>1. Sole(own, {}, <<-1, 0>>)
      BY DEF Sole
    <3>2. \A t \in DOMAIN trees : <<-1, 0>> # <<0, t>>
      OBVIOUS
    <3>3. (\A id \in DOMAIN heap : heap'[id].node = heap[id].node)
          /\ \A t \in DOMAIN trees : trees'[t].root = trees[t].root
      BY <2>4 DEF Kept
    <3> DEFINE W == {}  anchor == <<-1, 0>>
    <3>4. /\ anchor[1] \in {0, -1} /\ Sole(own, W, anchor) /\ \A t \in DOMAIN trees : anchor # <<0, t>>
          /\ \A id \in DOMAIN heap : id \notin W => heap'[id].node = heap[id].node
      BY <3>1, <3>2, <3>3
    <3> HIDE DEF W, anchor, own
    <3>5. ASSUME NEW t \in DOMAIN trees
          PROVE  \A id \in Reach(heap, trees[t].root) : heap'[id].node = heap[id].node
      BY <2>3, <3>4
    <3> QED
      BY <3>3, <3>5
  <2>5. CASE ParserAlone
    <3>1. PICK W : /\ Sole(own, W, <<-1, Len(held)>>)
                   /\ \A id \in DOMAIN heap : id \notin W => heap'[id].node = heap[id].node
      BY <2>5 DEF ParserAlone
    <3>2. trees' = trees
      BY <2>5 DEF ParserAlone
    <3> DEFINE anchor == <<-1, Len(held)>>
    <3>3. anchor[1] \in {0, -1} /\ Sole(own, W, anchor) /\ \A t \in DOMAIN trees : anchor # <<0, t>>
      BY <3>1
    <3> HIDE DEF anchor, own
    <3>4. ASSUME NEW t \in DOMAIN trees
          PROVE  \A id \in Reach(heap, trees[t].root) : heap'[id].node = heap[id].node
      BY <2>3, <3>1, <3>3
    <3> QED
      BY <3>2, <3>4
  <2>6. CASE EditAlone
    <3>1. PICK W : /\ Sole(own, W, <<0, job.tree>>)
                   /\ \A id \in DOMAIN heap : id \notin W => heap'[id].node = heap[id].node
      BY <2>6 DEF EditAlone
    <3>2. job.op = "edit" /\ \A t \in DOMAIN trees : t # job.tree => trees'[t].root = trees[t].root
      BY <2>6 DEF EditAlone
    <3> DEFINE anchor == <<0, job.tree>>
    <3>3. anchor[1] \in {0, -1} /\ Sole(own, W, anchor) /\ \A t \in DOMAIN trees : t # job.tree => anchor # <<0, t>>
      BY <3>1
    <3> HIDE DEF anchor, own
    <3>4. ASSUME NEW t \in DOMAIN trees, t # job.tree
          PROVE  \A id \in Reach(heap, trees[t].root) : heap'[id].node = heap[id].node
      BY <2>3, <3>1, <3>3, <3>4
    <3> QED
      BY <3>2, <3>4
  <2> QED
    BY <1>1, <2>4, <2>5, <2>6, StepGood
<1>2. Spec => [][Next]_vars
  BY PTL DEF Spec
<1>3. IInv /\ [Next]_vars => [Spared]_vars
  BY <1>1
<1> QED
  BY <1>2, <1>3, Invariant, PTL DEF OthersUntouched
=============================================================================
