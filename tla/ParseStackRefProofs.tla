------------------------ MODULE ParseStackRefProofs ------------------------
(***************************************************************************)
(* The reference counts of the stack are exact, and no operation keeps a   *)
(* pointer to a node that was let go, whatever the grammar, the bounds and *)
(* the operations the parser calls.                                        *)
(***************************************************************************)
EXTENDS ParseStackProofs, FiniteSetTheorems, FunctionTheorems

\* Where a list of nodes names node m, and how often.
Places(s, m) == {k \in 1 .. Len(s) : s[k] = m}
Times(s, m) == Cardinality(Places(s, m))
Same(k, m) == IF k = m THEN 1 ELSE 0

\* The nodes of the versions, the nodes with a reference, the links they have to node m.
Tops(hs) == [v \in 1 .. Len(hs) |-> hs[v].node]
Alive(rs) == {m \in 1 .. Len(rs) : rs[m] > 0}
Into(ls, alive, m) ==
    {p \in UNION {{k} \X (1 .. Len(ls[k])) : k \in alive} : ls[p[1]][p[2]].node = m}

\* RefsExact, said of links, counts, versions and releases.
Counted(ls, rs, hs, ds) ==
    \A m \in 1 .. Len(rs) :
       /\ IsFiniteSet(Into(ls, Alive(rs), m))
       /\ rs[m] = Times(Tops(hs), m) + Cardinality(Into(ls, Alive(rs), m)) + Times(ds, m)
                  + Same(m, Base)

\* Nothing is followed when no operation is under way.
Resting == walk.op = "none" => walk.its = <<>>
LinksFinite == \A n \in Nodes : IsFiniteSet(LinksTo(n))
RInv == IInv /\ RefsExact /\ LinksFinite /\ WalkSound /\ Resting

-----------------------------------------------------------------------------
(* Counting in a list. *)

\* A list names a node finitely often,
LEMMA PlacesFinite ==
    ASSUME NEW s \in Seq(Nat), NEW m
    PROVE  IsFiniteSet(Places(s, m)) /\ Times(s, m) \in Nat
<1>1. Len(s) \in Nat
  BY LenProperties
<1>2. IsFiniteSet(1 .. Len(s))
  BY <1>1, FS_Interval
<1>3. Places(s, m) \in SUBSET (1 .. Len(s))
  BY DEF Places
<1>4. IsFiniteSet(Places(s, m))
  BY <1>2, <1>3, FS_Subset
<1> QED
  BY <1>4, FS_CardinalityType DEF Times

\* at least once when the node is in it,
LEMMA TimesNamed ==
    ASSUME NEW s \in Seq(Nat), NEW k \in 1 .. Len(s)
    PROVE  Times(s, s[k]) >= 1
<1>1. k \in Places(s, s[k])
  BY DEF Places
<1>2. IsFiniteSet(Places(s, s[k])) /\ Times(s, s[k]) \in Nat
  BY PlacesFinite
<1>3. Times(s, s[k]) # 0
  BY <1>1, <1>2, FS_EmptySet DEF Times
<1> QED
  BY <1>2, <1>3

\* never when it is empty,
LEMMA TimesEmpty ==
    ASSUME NEW m
    PROVE  Times(<<>>, m) = 0
<1>1. Places(<<>>, m) = {}
  BY DEF Places
<1> QED
  BY <1>1, FS_EmptySet DEF Times

\* and at most once when it has one member.
LEMMA TimesSingle ==
    ASSUME NEW k, NEW m
    PROVE  Times(<<k>>, m) = Same(k, m)
<1>1. Places(<<k>>, m) = IF k = m THEN {1} ELSE {}
  <2>1. Len(<<k>>) = 1 /\ <<k>>[1] = k
    OBVIOUS
  <2> QED
    BY <2>1 DEF Places
<1> QED
  BY <1>1, FS_EmptySet, FS_Singleton DEF Times, Same

\* The places in the second of two lists are as many when it comes behind the first.
LEMMA TimesConcat ==
    ASSUME NEW s \in Seq(Nat), NEW t \in Seq(Nat), NEW m
    PROVE  Times(s \o t, m) = Times(s, m) + Times(t, m)
<1> DEFINE A == Places(s, m)  B == Places(t, m)  far == {k \in Places(s \o t, m) : k > Len(s)}
           f == [k \in B |-> Len(s) + k]
<1>1. Len(s) \in Nat /\ Len(t) \in Nat
  BY LenProperties
<1>2. /\ Len(s \o t) = Len(s) + Len(t)
      /\ \A i \in 1 .. Len(s) + Len(t) :
            (s \o t)[i] = IF i <= Len(s) THEN s[i] ELSE t[i - Len(s)]
  BY ConcatProperties
<1>3. Places(s \o t, m) = A \cup far /\ A \cap far = {}
  BY <1>1, <1>2 DEF Places
<1>4. f \in [B -> far]
  <2> SUFFICES ASSUME NEW k \in B PROVE Len(s) + k \in far
    OBVIOUS
  <2>1. k \in 1 .. Len(t) /\ t[k] = m
    BY DEF Places
  <2>2. /\ Len(s) + k \in 1 .. Len(s) + Len(t) /\ Len(s) + k > Len(s)
        /\ Len(s) + k - Len(s) = k
    BY <1>1, <2>1
  <2> QED
    BY <1>2, <2>1, <2>2 DEF Places
<1>5. \A a, b \in B : f[a] = f[b] => a = b
  BY <1>1 DEF Places
<1>6. ASSUME NEW k \in far PROVE \E j \in B : f[j] = k
  <2>1. k \in 1 .. Len(s) + Len(t) /\ k > Len(s) /\ (s \o t)[k] = m
    BY <1>2 DEF Places
  <2>2. k - Len(s) \in 1 .. Len(t) /\ t[k - Len(s)] = m
    BY <1>1, <1>2, <2>1
  <2>3. k - Len(s) \in B /\ Len(s) + (k - Len(s)) = k
    BY <1>1, <2>1, <2>2 DEF Places
  <2> QED
    BY <2>3
<1> HIDE DEF f
<1>7. f \in Bijection(B, far)
  BY <1>4, <1>5, <1>6, Fun_IsBij
<1>8. ExistsBijection(B, far)
  BY <1>7, Fun_ExistsBij
<1>9. /\ IsFiniteSet(A) /\ IsFiniteSet(B)
      /\ Cardinality(A) \in Nat /\ Cardinality(B) \in Nat
  BY PlacesFinite DEF Times
<1>10. IsFiniteSet(far) /\ Cardinality(far) = Cardinality(B)
  BY <1>8, <1>9, FS_Bijection
<1> HIDE DEF A, B, far
<1>11. Cardinality(A \cup far) = Cardinality(A) + Cardinality(far) - Cardinality(A \cap far)
  BY <1>9, <1>10, FS_Union
<1>12. Cardinality(A \cap far) = 0
  BY <1>3, FS_EmptySet
<1>13. Cardinality(Places(s \o t, m)) = Cardinality(A) + Cardinality(B)
  BY <1>3, <1>9, <1>10, <1>11, <1>12
<1> QED
  BY <1>13 DEF Times, A, B

\* A list with one more member names that once more,
LEMMA TimesAppend ==
    ASSUME NEW s \in Seq(Nat), NEW k \in Nat, NEW m
    PROVE  Times(Append(s, k), m) = Times(s, m) + Same(k, m)
<1>1. Append(s, k) = s \o <<k>> /\ <<k>> \in Seq(Nat)
  BY AppendIsConcat
<1>2. Times(s \o <<k>>, m) = Times(s, m) + Times(<<k>>, m)
  BY <1>1, TimesConcat
<1>3. Times(<<k>>, m) = Same(k, m)
  BY TimesSingle
<1> QED
  BY <1>1, <1>2, <1>3

\* one without a member names that once less,
LEMMA TimesWithout ==
    ASSUME NEW s \in Seq(Nat), NEW i \in 1 .. Len(s), NEW m
    PROVE  Times(Without(s, i), m) = Times(s, m) - Same(s[i], m)
<1> DEFINE a == SubSeq(s, 1, i - 1)  b == SubSeq(s, i + 1, Len(s))
<1>1. Len(s) \in Nat /\ \A k \in 1 .. Len(s) : s[k] \in Nat
  BY LenProperties, ElementOfSeq
<1>2. a \in Seq(Nat) /\ b \in Seq(Nat) /\ s[i] \in Nat /\ <<s[i]>> \in Seq(Nat)
  <2>1. \A k \in 1 .. i - 1 : s[k] \in Nat
    BY <1>1
  <2>2. \A k \in i + 1 .. Len(s) : s[k] \in Nat
    BY <1>1
  <2>3. i - 1 \in Int /\ i + 1 \in Int /\ 1 \in Int /\ Len(s) \in Int
    BY <1>1
  <2>4. a \in Seq(Nat)
    BY <2>1, <2>3, SubSeqProperties
  <2>5. b \in Seq(Nat)
    BY <2>2, <2>3, SubSeqProperties
  <2> QED
    BY <1>1, <2>4, <2>5
<1>3. s = (a \o <<s[i]>>) \o b
  <2>1. SubSeq(s, 1, i) = a \o <<s[i]>>
    BY <1>1, SubSeqRecursiveSecond
  <2>2. SubSeq(s, 1, i) \o b = SubSeq(s, 1, Len(s))
    BY <1>1, ConcatAdjacentSubSeq
  <2> QED
    BY <2>1, <2>2, SubSeqFull
<1>4. Without(s, i) = a \o b
  BY DEF Without
<1> HIDE DEF a, b
<1>5. a \o <<s[i]>> \in Seq(Nat)
  BY <1>2, ConcatProperties
<1>6. Times(s, m) = Times(a, m) + Same(s[i], m) + Times(b, m)
  <2>1. Times((a \o <<s[i]>>) \o b, m) = Times(a \o <<s[i]>>, m) + Times(b, m)
    BY <1>2, <1>5, TimesConcat
  <2>2. Times(a \o <<s[i]>>, m) = Times(a, m) + Times(<<s[i]>>, m)
    BY <1>2, TimesConcat
  <2>3. Times(<<s[i]>>, m) = Same(s[i], m)
    BY TimesSingle
  <2> QED
    BY <1>3, <2>1, <2>2, <2>3
<1>7. Times(Without(s, i), m) = Times(a, m) + Times(b, m)
  BY <1>2, <1>4, TimesConcat
<1>8. Times(a, m) \in Nat /\ Times(b, m) \in Nat /\ Same(s[i], m) \in Nat
  BY <1>2, PlacesFinite DEF Same
<1> QED
  BY <1>6, <1>7, <1>8

\* one with a member replaced names the old one once less and the new one once more,
LEMMA TimesChanged ==
    ASSUME NEW s \in Seq(Nat), NEW t \in Seq(Nat), Len(t) = Len(s), NEW i \in 1 .. Len(s),
           \A j \in 1 .. Len(s) : j # i => t[j] = s[j], NEW m
    PROVE  Times(t, m) = Times(s, m) - Same(s[i], m) + Same(t[i], m)
<1> DEFINE R == Places(s, m) \ {i}
<1>1. IsFiniteSet(Places(s, m)) /\ Times(s, m) \in Nat
  BY PlacesFinite
<1>2. IsFiniteSet(R) /\ Cardinality(R) = Times(s, m) - Same(s[i], m)
  <2>1. i \in Places(s, m) <=> s[i] = m
    BY DEF Places
  <2> DEFINE A == Places(s, m)
  <2>2. IsFiniteSet(A) /\ Cardinality(A) = Times(s, m)
    BY <1>1 DEF Times
  <2> HIDE DEF A, R
  <2>3. /\ IsFiniteSet(A \ {i})
        /\ Cardinality(A \ {i}) = IF i \in A THEN Cardinality(A) - 1 ELSE Cardinality(A)
    BY <2>2, FS_RemoveElement
  <2>4. R = A \ {i} /\ (i \in A <=> s[i] = m)
    BY <2>1 DEF A, R
  <2>5. Times(s, m) - Same(s[i], m) = IF s[i] = m THEN Times(s, m) - 1 ELSE Times(s, m)
    BY <1>1 DEF Same
  <2> QED
    BY <2>2, <2>3, <2>4, <2>5
<1>3. Places(t, m) = IF t[i] = m THEN R \cup {i} ELSE R
  BY DEF Places
<1>4. i \notin R
  OBVIOUS
<1> HIDE DEF R
<1>5. Cardinality(R \cup {i}) = Cardinality(R) + 1
  BY <1>2, <1>4, FS_AddElement
<1>6. Cardinality(R) \in Nat
  BY <1>2, FS_CardinalityType
<1>7. Times(t, m) = Cardinality(R) + Same(t[i], m)
  BY <1>3, <1>5, <1>6 DEF Times, Same
<1> QED
  BY <1>2, <1>7

\* and one turned round as often as before.
LEMMA TimesBackwards ==
    ASSUME NEW s \in Seq(Nat), NEW m
    PROVE  Times(Backwards(s), m) = Times(s, m)
<1> DEFINE n == Len(s)  t == Backwards(s)  A == Places(s, m)  B == Places(t, m)
           f == [k \in A |-> n + 1 - k]
<1>1. n \in Nat
  BY LenProperties
<1>2. /\ Len(t) = n /\ \A k \in 1 .. n : t[k] = s[n + 1 - k]
  BY <1>1 DEF Backwards
<1> HIDE DEF n, t
<1>3. A = {k \in 1 .. n : s[k] = m} /\ B = {k \in 1 .. n : s[n + 1 - k] = m}
  BY <1>2 DEF Places, n
<1> HIDE DEF A, B
<1>4. \A k \in 1 .. n : n + 1 - k \in 1 .. n /\ n + 1 - (n + 1 - k) = k
  BY <1>1
<1>5. f \in [A -> B]
  BY <1>3, <1>4
<1>6. \A a, b \in A : f[a] = f[b] => a = b
  BY <1>1, <1>3
<1>7. \A k \in B : \E j \in A : f[j] = k
  <2> SUFFICES ASSUME NEW k \in B PROVE n + 1 - k \in A /\ f[n + 1 - k] = k
    OBVIOUS
  <2>1. n + 1 - k \in A /\ n + 1 - (n + 1 - k) = k
    BY <1>3, <1>4
  <2> QED
    BY <2>1
<1> HIDE DEF f
<1>8. ExistsBijection(A, B)
  BY <1>5, <1>6, <1>7, Fun_IsBij, Fun_ExistsBij
<1>9. IsFiniteSet(A)
  BY PlacesFinite DEF A
<1> QED
  BY <1>8, <1>9, FS_Bijection DEF Times, A, B, t

-----------------------------------------------------------------------------
(* The versions as a list of nodes. *)

\* The nodes of the versions are such a list, one for each version.
LEMMA TopsTyped ==
    ASSUME NEW hs \in Seq(Version)
    PROVE  /\ Tops(hs) \in Seq(Nat) /\ Len(Tops(hs)) = Len(hs) /\ Len(hs) \in Nat
           /\ \A v \in 1 .. Len(hs) : Tops(hs)[v] = hs[v].node
<1>1. Len(hs) \in Nat /\ \A v \in 1 .. Len(hs) : hs[v].node \in Nat
  <2>1. \A v \in 1 .. Len(hs) : hs[v] \in Version
    BY ElementOfSeq
  <2>2. Len(hs) \in Nat
    BY LenProperties
  <2> QED
    BY <2>1, <2>2 DEF Version
<1>2. Tops(hs) \in Seq(Nat)
  BY <1>1, IsASeq DEF Tops
<1> QED
  BY <1>1, <1>2 DEF Tops

\* One version is changed.
LEMMA TimesOfChanged ==
    ASSUME NEW hs \in Seq(Version), NEW v \in 1 .. Len(hs),
           NEW gs \in Seq(Version), Len(gs) = Len(hs),
           \A j \in 1 .. Len(hs) : j # v => gs[j] = hs[j], NEW m
    PROVE  Times(Tops(gs), m) = Times(Tops(hs), m) - Same(hs[v].node, m) + Same(gs[v].node, m)
<1> DEFINE s == Tops(hs)  t == Tops(gs)
<1>1. /\ gs \in Seq(Version) /\ Len(gs) = Len(hs)
      /\ \A j \in 1 .. Len(hs) : j # v => gs[j] = hs[j]
  OBVIOUS
<1>2. /\ s \in Seq(Nat) /\ Len(s) = Len(hs)
      /\ \A j \in 1 .. Len(hs) : s[j] = hs[j].node
  BY TopsTyped
<1>3. /\ t \in Seq(Nat) /\ Len(t) = Len(hs)
      /\ \A j \in 1 .. Len(hs) : t[j] = gs[j].node
  BY <1>1, TopsTyped
<1> HIDE DEF s, t
<1>4. \A j \in 1 .. Len(s) : j # v => t[j] = s[j]
  BY <1>1, <1>2, <1>3
<1>5. v \in 1 .. Len(s) /\ Len(t) = Len(s) /\ s[v] = hs[v].node /\ t[v] = gs[v].node
  BY <1>1, <1>2, <1>3
<1>6. Times(t, m) = Times(s, m) - Same(s[v], m) + Same(t[v], m)
  BY <1>2, <1>3, <1>4, <1>5, TimesChanged
<1> QED
  BY <1>5, <1>6 DEF s, t

\* One version is changed but stays on its node: every node is named as often as before.
LEMMA TimesOfSame ==
    ASSUME NEW hs \in Seq(Version), NEW v \in 1 .. Len(hs),
           NEW gs \in Seq(Version), Len(gs) = Len(hs), gs[v].node = hs[v].node,
           \A j \in 1 .. Len(hs) : j # v => gs[j] = hs[j], NEW m
    PROVE  Times(Tops(gs), m) = Times(Tops(hs), m)
<1>1. gs[v] \in Version
  BY ElementOfSeq
<1>2. Times(Tops(gs), m) = Times(Tops(hs), m) - Same(hs[v].node, m) + Same(gs[v].node, m)
  BY <1>1, TimesOfChanged
<1>3. Times(Tops(hs), m) \in Nat /\ Same(hs[v].node, m) \in Nat
  BY TopsTyped, PlacesFinite DEF Same
<1> QED
  BY <1>2, <1>3

\* Taking out a version takes out its node,
LEMMA TopsWithout ==
    ASSUME NEW hs \in Seq(Version), NEW i \in 1 .. Len(hs)
    PROVE  Tops(Without(hs, i)) = Without(Tops(hs), i)
<1> DEFINE gs == Without(hs, i)  t == Tops(hs)
<1>1. /\ gs \in Seq(Version) /\ Len(gs) = Len(hs) - 1
      /\ \A j \in 1 .. Len(hs) - 1 : gs[j] = IF j < i THEN hs[j] ELSE hs[j + 1]
  BY WithoutProperties
<1>2. /\ t \in Seq(Nat) /\ Len(t) = Len(hs) /\ Len(hs) \in Nat
      /\ \A v \in 1 .. Len(hs) : t[v] = hs[v].node
  BY TopsTyped
<1> HIDE DEF gs, t
<1>3. /\ Without(t, i) \in Seq(Nat) /\ Len(Without(t, i)) = Len(hs) - 1
      /\ \A j \in 1 .. Len(hs) - 1 : Without(t, i)[j] = IF j < i THEN t[j] ELSE t[j + 1]
  BY <1>2, WithoutProperties
<1>4. /\ Tops(gs) \in Seq(Nat) /\ Len(Tops(gs)) = Len(hs) - 1
      /\ \A j \in 1 .. Len(hs) - 1 : Tops(gs)[j] = gs[j].node
  BY <1>1, TopsTyped
<1>5. \A j \in 1 .. Len(hs) - 1 : Tops(gs)[j] = Without(t, i)[j]
  <2> SUFFICES ASSUME NEW j \in 1 .. Len(hs) - 1 PROVE Tops(gs)[j] = Without(t, i)[j]
    OBVIOUS
  <2>1. j \in 1 .. Len(hs) /\ j + 1 \in 1 .. Len(hs)
    BY <1>2
  <2> QED
    BY <1>1, <1>2, <1>3, <1>4, <2>1
<1>6. Tops(gs) = Without(t, i)
  BY <1>3, <1>4, <1>5, SeqEqual
<1> QED
  BY <1>6 DEF gs, t

\* and adding one adds its node.
LEMMA TopsAppend ==
    ASSUME NEW hs \in Seq(Version), NEW h \in Version
    PROVE  Tops(Append(hs, h)) = Append(Tops(hs), h.node)
<1> DEFINE gs == Append(hs, h)  t == Tops(hs)  k == h.node
<1>1. /\ gs \in Seq(Version) /\ Len(gs) = Len(hs) + 1 /\ gs[Len(hs) + 1] = h
      /\ \A j \in 1 .. Len(hs) : gs[j] = hs[j]
  BY AppendProperties
<1>2. /\ t \in Seq(Nat) /\ Len(t) = Len(hs) /\ Len(hs) \in Nat
      /\ \A v \in 1 .. Len(hs) : t[v] = hs[v].node
  BY TopsTyped
<1>3. k \in Nat
  BY DEF Version
<1> HIDE DEF gs, t
<1>4. gs[Len(hs) + 1].node = k
  BY <1>1
<1> HIDE DEF k
<1>5. /\ Append(t, k) \in Seq(Nat) /\ Len(Append(t, k)) = Len(hs) + 1
      /\ \A j \in 1 .. Len(hs) : Append(t, k)[j] = t[j]
      /\ Append(t, k)[Len(hs) + 1] = k
  BY <1>2, <1>3, AppendProperties
<1>6. /\ Tops(gs) \in Seq(Nat) /\ Len(Tops(gs)) = Len(hs) + 1
      /\ \A j \in 1 .. Len(hs) + 1 : Tops(gs)[j] = gs[j].node
  BY <1>1, TopsTyped
<1>7. \A j \in 1 .. Len(hs) + 1 : Tops(gs)[j] = Append(t, k)[j]
  <2> SUFFICES ASSUME NEW j \in 1 .. Len(hs) + 1 PROVE Tops(gs)[j] = Append(t, k)[j]
    OBVIOUS
  <2>1. j \in 1 .. Len(hs) \/ j = Len(hs) + 1
    BY <1>2
  <2> QED
    BY <1>1, <1>2, <1>4, <1>5, <1>6, <2>1
<1>8. Tops(gs) = Append(t, k)
  BY <1>5, <1>6, <1>7, SeqEqual
<1> QED
  BY <1>8 DEF gs, t, k

\* A version that takes the place of another: the node of the other is named once less.
LEMMA TimesRenumbered ==
    ASSUME NEW hs \in Seq(Version), NEW v1 \in 1 .. Len(hs), NEW v2 \in 1 .. Len(hs), NEW m
    PROVE  /\ Times(Tops(Renumbered(hs, v1, v2)), m) = Times(Tops(hs), m) - Same(hs[v2].node, m)
<1> DEFINE h == [hs[v1] EXCEPT !.summary = IF @ = <<>> THEN hs[v2].summary ELSE @]
           gs == [hs EXCEPT ![v2] = h]
<1>1. hs[v1] \in Version /\ hs[v2] \in Version
  BY ElementOfSeq
<1>2. h \in Version /\ h.node = hs[v1].node
  BY <1>1 DEF Version
<1> HIDE DEF h
<1>3. gs \in Seq(Version) /\ Len(gs) = Len(hs) /\ gs[v1].node = hs[v1].node
  BY <1>2, ExceptSeq
<1>4. Times(Tops(gs), m) = Times(Tops(hs), m) - Same(hs[v2].node, m) + Same(hs[v1].node, m)
  BY <1>2, TimesOfChanged
<1>5. Renumbered(hs, v1, v2) = Without(gs, v1)
  BY DEF Renumbered, gs, h
<1> HIDE DEF gs
<1>6. Tops(Without(gs, v1)) = Without(Tops(gs), v1)
  BY <1>3, TopsWithout
<1>7. /\ Tops(gs) \in Seq(Nat) /\ Len(Tops(gs)) = Len(hs) /\ Tops(gs)[v1] = hs[v1].node
      /\ Tops(hs) \in Seq(Nat) /\ Len(Tops(hs)) = Len(hs) /\ Tops(hs)[v2] = hs[v2].node
      /\ hs[v1].node \in Nat
  BY <1>1, <1>3, TopsTyped DEF Version
<1>8. Times(Without(Tops(gs), v1), m) = Times(Tops(gs), m) - Same(hs[v1].node, m)
  BY <1>7, TimesWithout
<1>9. /\ Times(Tops(hs), m) \in Nat
      /\ Same(hs[v2].node, m) \in Nat /\ Same(hs[v1].node, m) \in Nat
  BY <1>7, PlacesFinite DEF Same
<1> QED
  BY <1>4, <1>5, <1>6, <1>8, <1>9

-----------------------------------------------------------------------------
(* What is counted is there. *)

\* What Into says without the union: the links of live nodes that lead to m.
LEMMA IntoIs ==
    ASSUME NEW ls, NEW alive, NEW m, NEW p
    PROVE  p \in Into(ls, alive, m) <=>
              \E k \in alive : \E i \in 1 .. Len(ls[k]) : p = <<k, i>> /\ ls[k][i].node = m
<1>1. ASSUME p \in Into(ls, alive, m)
      PROVE  \E k \in alive : \E i \in 1 .. Len(ls[k]) : p = <<k, i>> /\ ls[k][i].node = m
  <2>1. PICK k \in alive : p \in {k} \X (1 .. Len(ls[k]))
    BY <1>1 DEF Into
  <2>2. p = <<k, p[2]>> /\ p[1] = k /\ p[2] \in 1 .. Len(ls[k]) /\ ls[p[1]][p[2]].node = m
    BY <1>1, <2>1 DEF Into
  <2> QED
    BY <2>1, <2>2
<1>2. ASSUME NEW k \in alive, NEW i \in 1 .. Len(ls[k]), p = <<k, i>>, ls[k][i].node = m
      PROVE  p \in Into(ls, alive, m)
  <2>1. p \in {k} \X (1 .. Len(ls[k])) /\ p[1] = k /\ p[2] = i
    BY <1>2
  <2>2. p \in UNION {{j} \X (1 .. Len(ls[j])) : j \in alive}
    BY <2>1
  <2> QED
    BY <1>2, <2>1, <2>2 DEF Into
<1> QED
  BY <1>1, <1>2

\* Counted is RefsExact, before a step and after it.
LEMMA CountedMeans ==
    ASSUME TypeOK
    PROVE  Counted(links, refs, heads, drops) <=> RefsExact /\ LinksFinite
<1>1. Len(refs) = Len(node) /\ Alive(refs) = Live /\ Nodes = 1 .. Len(refs)
  BY DEF TypeOK, Alive, Live, Nodes
<1>2. Len(Tops(heads)) = Len(heads) /\ \A v \in Versions : Tops(heads)[v] = heads[v].node
  BY TopsTyped DEF TypeOK, Versions
<1>3. ASSUME NEW n \in Nodes
      PROVE  /\ Places(Tops(heads), n) = HeadsAt(n) /\ Places(drops, n) = DropsOf(n)
             /\ Into(links, Alive(refs), n) = LinksTo(n)
  BY <1>1, <1>2 DEF Places, HeadsAt, DropsOf, Versions, Into, LinksTo
<1> QED
  BY <1>1, <1>3 DEF Counted, RefsExact, LinksFinite, Times, Same

\* The same after a step, which only has to be shown in one direction.
LEMMA CountedMeansNext ==
    ASSUME TypeOK', Counted(links', refs', heads', drops')
    PROVE  RefsExact' /\ LinksFinite'
<1>1. Len(refs') = Len(node') /\ Alive(refs') = Live' /\ Nodes' = 1 .. Len(refs')
  BY DEF TypeOK, Alive, Live, Nodes
<1>2. Len(Tops(heads')) = Len(heads') /\ \A v \in Versions' : Tops(heads')[v] = heads'[v].node
  BY TopsTyped DEF TypeOK, Versions
<1>3. ASSUME NEW n \in Nodes'
      PROVE  /\ Places(Tops(heads'), n) = HeadsAt(n)' /\ Places(drops', n) = DropsOf(n)'
             /\ Into(links', Alive(refs'), n) = LinksTo(n)'
  BY <1>1, <1>2 DEF Places, HeadsAt, DropsOf, Versions, Into, LinksTo
<1> QED
  BY <1>1, <1>3 DEF Counted, RefsExact, LinksFinite, Times, Same

\* What is counted, and that all counts are numbers.
LEMMA CountsTyped ==
    ASSUME RInv
    PROVE  /\ Counted(links, refs, heads, drops) /\ Live = Alive(refs)
           /\ refs \in Seq(Int) /\ Len(refs) = Len(node) /\ Nodes = 1 .. Len(refs)
           /\ heads \in Seq(Version) /\ drops \in Seq(Nat) /\ Len(node) \in Nat
           /\ \A m \in Nodes :
                 /\ Times(Tops(heads), m) \in Nat /\ Times(drops, m) \in Nat
                 /\ IsFiniteSet(Into(links, Live, m)) /\ Cardinality(Into(links, Live, m)) \in Nat
                 /\ refs[m] = Times(Tops(heads), m) + Cardinality(Into(links, Live, m))
                              + Times(drops, m) + Same(m, Base)
<1>1. TypeOK
  BY DEF RInv, IInv
<1>2. Counted(links, refs, heads, drops)
  BY <1>1, CountedMeans DEF RInv
<1>3. Live = Alive(refs) /\ Len(refs) = Len(node) /\ Nodes = 1 .. Len(refs)
  BY <1>1 DEF TypeOK, Alive, Live, Nodes
<1>4. heads \in Seq(Version) /\ drops \in Seq(Nat) /\ refs \in Seq(Int)
  BY <1>1 DEF TypeOK
<1>5. Tops(heads) \in Seq(Nat)
  BY <1>4, TopsTyped
<1>6. ASSUME NEW m \in Nodes
      PROVE  /\ Times(Tops(heads), m) \in Nat /\ Times(drops, m) \in Nat
             /\ IsFiniteSet(Into(links, Live, m)) /\ Cardinality(Into(links, Live, m)) \in Nat
             /\ refs[m] = Times(Tops(heads), m) + Cardinality(Into(links, Live, m))
                          + Times(drops, m) + Same(m, Base)
  <2>1. Times(Tops(heads), m) \in Nat /\ Times(drops, m) \in Nat
    BY <1>4, <1>5, PlacesFinite
  <2>2. /\ IsFiniteSet(Into(links, Live, m))
        /\ refs[m] = Times(Tops(heads), m) + Cardinality(Into(links, Live, m))
                     + Times(drops, m) + Same(m, Base)
    BY <1>2, <1>3 DEF Counted
  <2> QED
    BY <2>1, <2>2, FS_CardinalityType
<1>7. Len(node) \in Nat
  BY <1>1, LenProperties DEF TypeOK
<1> QED
  BY <1>2, <1>3, <1>4, <1>6, <1>7

\* Every node that is named by a version, a release or a link of a live node is live.
LEMMA NamedLive ==
    ASSUME RInv
    PROVE  /\ Base \in Live
           /\ \A v \in Versions : heads[v].node \in Live
           /\ \A k \in 1 .. Len(drops) : drops[k] \in Live
           /\ \A m \in Live : \A i \in 1 .. Len(links[m]) : links[m][i].node \in Live
<1>1. \A m \in Nodes :
         /\ Times(Tops(heads), m) \in Nat /\ Times(drops, m) \in Nat
         /\ Cardinality(Into(links, Live, m)) \in Nat
         /\ refs[m] = Times(Tops(heads), m) + Cardinality(Into(links, Live, m))
                      + Times(drops, m) + Same(m, Base)
  BY CountsTyped
<1>2. \A m \in Nodes :
         /\ Times(Tops(heads), m) >= 1 => m \in Live
         /\ Times(drops, m) >= 1 => m \in Live
         /\ Cardinality(Into(links, Live, m)) # 0 => m \in Live
         /\ m = Base => m \in Live
  BY <1>1 DEF Live, Same
<1>3. /\ Base \in Nodes /\ \A v \in Versions : heads[v].node \in Nodes
      /\ \A k \in 1 .. Len(drops) : drops[k] \in Nodes
      /\ \A m \in Nodes : \A i \in 1 .. Len(links[m]) : links[m][i].node \in Nodes
  <2>1. Base \in Nodes
    BY CountsTyped DEF RInv, IInv, TypeOK, Base, Nodes
  <2> QED
    BY <2>1 DEF RInv, IInv, HeadsPlaced, DropsPlaced, LinkSums
<1>4. ASSUME NEW v \in Versions PROVE heads[v].node \in Live
  <2>1. /\ Tops(heads) \in Seq(Nat) /\ v \in 1 .. Len(Tops(heads))
        /\ Tops(heads)[v] = heads[v].node
    BY CountsTyped, TopsTyped DEF Versions
  <2>2. Times(Tops(heads), heads[v].node) >= 1
    BY <2>1, TimesNamed
  <2> QED
    BY <1>2, <1>3, <2>2
<1>5. ASSUME NEW k \in 1 .. Len(drops) PROVE drops[k] \in Live
  <2>1. drops \in Seq(Nat)
    BY CountsTyped
  <2>2. Times(drops, drops[k]) >= 1
    BY <2>1, TimesNamed
  <2> QED
    BY <1>2, <1>3, <2>2
<1>6. ASSUME NEW m \in Live, NEW i \in 1 .. Len(links[m]) PROVE links[m][i].node \in Live
  <2> DEFINE t == links[m][i].node
  <2>1. t \in Nodes
    BY <1>3 DEF Live
  <2>2. <<m, i>> \in Into(links, Live, t)
    BY IntoIs
  <2>3. IsFiniteSet(Into(links, Live, t))
    BY <2>1, CountsTyped
  <2> HIDE DEF t
  <2>4. Cardinality(Into(links, Live, t)) # 0
    BY <2>2, <2>3, FS_EmptySet
  <2>5. t \in Live
    BY <1>2, <2>1, <2>4
  <2> QED
    BY <2>5 DEF t
<1>7. Base \in Live
  BY <1>2, <1>3
<1> QED
  BY <1>4, <1>5, <1>6, <1>7

\* newParseStack: the base is held by the stack and by its one version.
LEMMA InitRInv == Init => RInv
<1> SUFFICES ASSUME Init PROVE RInv
  OBVIOUS
<1>1. IInv
  BY InitIInv
<1>2. Len(refs) = 1 /\ refs[1] = 2 /\ links[1] = <<>> /\ drops = <<>> /\ Base = 1
  BY DEF Init, Base
<1>3. Tops(heads) = <<1>>
  BY DEF Init, Tops, Base
<1>4. \A m : Into(links, Alive(refs), m) = {}
  <2> SUFFICES ASSUME NEW m, NEW p, p \in Into(links, Alive(refs), m) PROVE FALSE
    OBVIOUS
  <2>1. PICK k \in Alive(refs) : \E i \in 1 .. Len(links[k]) : p = <<k, i>>
    BY IntoIs
  <2>2. k = 1
    BY <1>2 DEF Alive
  <2>3. Len(links[k]) = 0
    BY <1>2, <2>2
  <2> QED
    BY <2>1, <2>3
<1>5. Counted(links, refs, heads, drops)
  <2> SUFFICES ASSUME NEW m \in 1 .. Len(refs)
               PROVE  /\ IsFiniteSet(Into(links, Alive(refs), m))
                      /\ refs[m] = Times(Tops(heads), m)
                                   + Cardinality(Into(links, Alive(refs), m))
                                   + Times(drops, m) + Same(m, Base)
    BY DEF Counted
  <2>1. m = 1
    BY <1>2
  <2>2. Times(Tops(heads), m) = 1 /\ Times(drops, m) = 0
    BY <1>2, <1>3, <2>1, TimesSingle, TimesEmpty DEF Same
  <2>3. /\ IsFiniteSet(Into(links, Alive(refs), m))
        /\ Cardinality(Into(links, Alive(refs), m)) = 0
    BY <1>4, FS_EmptySet
  <2> QED
    BY <1>2, <2>1, <2>2, <2>3 DEF Same
<1>6. RefsExact /\ LinksFinite
  BY <1>1, <1>5, CountedMeans DEF IInv
<1>7. WalkSound /\ Resting
  <2>1. walk.its = <<>> /\ walk.slices = <<>> /\ calls = <<>> /\ Len(<<>>) = 0
    BY DEF Init, NoWalk
  <2> QED
    BY <2>1 DEF WalkSound, Resting
<1> QED
  BY <1>1, <1>6, <1>7 DEF RInv

-----------------------------------------------------------------------------
(* Operations on the versions.                                             *)

\* As many references come or go as names do, and no link changes.
LEMMA Recounted ==
    ASSUME RInv, IInv', UNCHANGED links, Len(refs') = Len(refs), Alive(refs') = Alive(refs),
           \A m \in Nodes :
              refs'[m] = refs[m] + (Times(Tops(heads'), m) - Times(Tops(heads), m))
                         + (Times(drops', m) - Times(drops, m))
    PROVE  RefsExact' /\ LinksFinite' /\ Live' = Live
<1>1. TypeOK' /\ heads' \in Seq(Version) /\ drops' \in Seq(Nat) /\ Len(refs') = Len(node')
  BY DEF IInv, TypeOK
<1>2. Tops(heads') \in Seq(Nat)
  BY <1>1, TopsTyped
<1>3. \A m : Times(Tops(heads'), m) \in Nat /\ Times(drops', m) \in Nat
  BY <1>1, <1>2, PlacesFinite
<1>4. Nodes = 1 .. Len(refs') /\ Live = Alive(refs)
  BY CountsTyped
<1>5. ASSUME NEW m \in 1 .. Len(refs')
      PROVE  /\ IsFiniteSet(Into(links', Alive(refs'), m))
             /\ refs'[m] = Times(Tops(heads'), m) + Cardinality(Into(links', Alive(refs'), m))
                           + Times(drops', m) + Same(m, Base)
  <2> DEFINE a == Times(Tops(heads), m)  b == Times(drops, m)
             c == Cardinality(Into(links, Live, m))
             x == Times(Tops(heads'), m)  y == Times(drops', m)
  <2>1. /\ a \in Nat /\ b \in Nat /\ c \in Nat /\ refs[m] = a + c + b + Same(m, Base)
        /\ IsFiniteSet(Into(links, Live, m))
    BY <1>4, CountsTyped
  <2>2. x \in Nat /\ y \in Nat /\ Same(m, Base) \in Nat
    BY <1>3 DEF Same
  <2>3. refs'[m] = refs[m] + (x - a) + (y - b)
    BY <1>4
  <2>4. Into(links', Alive(refs'), m) = Into(links, Live, m)
    BY <1>4
  <2> HIDE DEF a, b, c, x, y
  <2>5. refs'[m] = x + c + y + Same(m, Base)
    BY <2>1, <2>2, <2>3
  <2> QED
    BY <2>1, <2>4, <2>5 DEF c, x, y
<1>6. Counted(links', refs', heads', drops')
  BY <1>5 DEF Counted
<1>7. Live' = Live
  BY <1>1, <1>4 DEF Live, Alive, Nodes
<1> QED
  BY <1>1, <1>6, <1>7, CountedMeansNext

\* A node that is live is retained once more.
LEMMA OneMore ==
    ASSUME RInv, NEW k \in Live, refs' = [refs EXCEPT ![k] = @ + 1]
    PROVE  /\ Len(refs') = Len(refs) /\ Alive(refs') = Alive(refs) /\ refs' \in Seq(Int)
           /\ \A m \in Nodes : refs'[m] = refs[m] + Same(k, m)
<1>1. /\ refs \in Seq(Int) /\ Nodes = 1 .. Len(refs) /\ k \in 1 .. Len(refs) /\ refs[k] > 0
      /\ \A m \in 1 .. Len(refs) : refs[m] \in Int
  BY CountsTyped, ElementOfSeq DEF Live
<1>2. refs[k] + 1 \in Int
  BY <1>1
<1>3. /\ Len(refs') = Len(refs) /\ refs' \in Seq(Int)
      /\ \A m \in 1 .. Len(refs) : refs'[m] = IF m = k THEN refs[k] + 1 ELSE refs[m]
  BY <1>1, <1>2, ExceptSeq
<1>4. \A m \in Nodes : refs'[m] = refs[m] + Same(k, m)
  BY <1>1, <1>3 DEF Same
<1>5. Alive(refs') = Alive(refs)
  BY <1>1, <1>3 DEF Alive
<1> QED
  BY <1>3, <1>4, <1>5

\* What a merge or an iteration follows stays live as long as the nodes do.
LEMMA StillSound ==
    ASSUME RInv, Live \subseteq Live', UNCHANGED <<calls, walk>>
    PROVE  WalkSound' /\ Resting'
BY DEF RInv, WalkSound, Resting

\* One version is changed but stays on its node.
LEMMA FieldsRInv ==
    ASSUME RInv, IInv', UNCHANGED <<links, refs, drops>>,
           NEW v \in Versions, NEW h \in Version, h.node = heads[v].node,
           heads' = [heads EXCEPT ![v] = h]
    PROVE  RefsExact' /\ LinksFinite' /\ Live' = Live
<1>1. heads \in Seq(Version) /\ v \in 1 .. Len(heads)
  BY CountsTyped DEF Versions
<1>2. /\ Tops(heads) \in Seq(Nat) /\ \A m : Times(Tops(heads), m) \in Nat
      /\ \A m : Times(drops, m) \in Nat
  BY <1>1, CountsTyped, TopsTyped, PlacesFinite
<1>3. /\ heads' \in Seq(Version) /\ Len(heads') = Len(heads) /\ heads'[v].node = heads[v].node
      /\ \A j \in 1 .. Len(heads) : j # v => heads'[j] = heads[j]
  BY <1>1, ExceptSeq
<1>7. ASSUME NEW m
      PROVE  Times(Tops(heads'), m) = Times(Tops(heads), m)
  BY <1>1, <1>3, TimesOfSame
<1>4. \A m : Times(Tops(heads'), m) = Times(Tops(heads), m)
  BY <1>7
<1>5. \A m \in Nodes : refs[m] \in Int
  BY GraphTyped DEF RInv, IInv
<1>6. \A m \in Nodes : refs'[m] = refs[m] + (Times(Tops(heads'), m) - Times(Tops(heads), m))
                                  + (Times(drops', m) - Times(drops, m))
  <2> SUFFICES ASSUME NEW m \in Nodes
               PROVE  refs'[m] = refs[m] + (Times(Tops(heads'), m) - Times(Tops(heads), m))
                                 + (Times(drops', m) - Times(drops, m))
    OBVIOUS
  <2>1. /\ refs[m] \in Int /\ Times(Tops(heads), m) \in Nat /\ Times(drops, m) \in Nat
        /\ Times(Tops(heads'), m) = Times(Tops(heads), m)
    BY <1>2, <1>4, <1>5
  <2> QED
    BY <2>1
<1> QED
  BY <1>6, Recounted

\* What sets a field of one version counts nothing.
LEMMA SettersRInv ==
    ASSUME RInv, IInv', NEW v \in Versions,
           \/ Halt(v) \/ Pause(v) \/ Resume(v) \/ NodeCountSinceError(v)
           \/ \E t \in Token : SetLastExternalToken(v, t)
    PROVE  RInv'
<1>1. heads[v] \in Version /\ weight[heads[v].node].count \in Nat
  <2>1. heads[v] \in Version /\ heads[v].node \in Nodes
    BY HeadsTyped DEF RInv
  <2> QED
    BY <2>1, GraphTyped DEF RInv, IInv, Raised
<1>2. UNCHANGED <<links, refs, drops, calls, walk>>
  BY DEF Halt, Pause, Resume, NodeCountSinceError, SetLastExternalToken, graph
<1>3. \E h \in Version : h.node = heads[v].node /\ heads' = [heads EXCEPT ![v] = h]
  <2>1. CASE Halt(v)
    <3>1. [heads[v] EXCEPT !.status = "halted"] \in Version
      BY <1>1 DEF Version
    <3>2. heads' = [heads EXCEPT ![v] = [heads[v] EXCEPT !.status = "halted"]]
      BY <2>1 DEF Halt
    <3> QED
      BY <1>1, <3>1, <3>2 DEF Version
  <2>2. CASE Pause(v)
    <3> DEFINE h == [heads[v] EXCEPT !.status = "paused",
                                     !.atError = weight[heads[v].node].count]
    <3>1. h \in Version /\ h.node = heads[v].node
      BY <1>1 DEF Version
    <3>2. heads' = [heads EXCEPT ![v] = h]
      BY <2>2, Zenon DEF Pause
    <3> HIDE DEF h
    <3> QED
      BY <3>1, <3>2
  <2>3. CASE Resume(v)
    <3>1. [heads[v] EXCEPT !.status = "active"] \in Version
      BY <1>1 DEF Version
    <3>2. heads' = [heads EXCEPT ![v] = [heads[v] EXCEPT !.status = "active"]]
      BY <2>3 DEF Resume
    <3> QED
      BY <1>1, <3>1, <3>2 DEF Version
  <2>4. CASE NodeCountSinceError(v)
    <3> DEFINE c == weight[heads[v].node].count
    <3>1. heads' = [heads EXCEPT ![v] = [heads[v] EXCEPT !.atError = c]] /\ c \in Nat
      BY <1>1, <2>4 DEF NodeCountSinceError
    <3> HIDE DEF c
    <3>2. [heads[v] EXCEPT !.atError = c] \in Version
      BY <1>1, <3>1 DEF Version
    <3>3. [heads[v] EXCEPT !.atError = c].node = heads[v].node
      BY <1>1 DEF Version
    <3> QED
      BY <3>1, <3>2, <3>3
  <2>5. ASSUME NEW t \in Token, SetLastExternalToken(v, t)
        PROVE  \E h \in Version : h.node = heads[v].node /\ heads' = [heads EXCEPT ![v] = h]
    <3>1. [heads[v] EXCEPT !.token = t] \in Version
      BY <1>1 DEF Version
    <3>2. heads' = [heads EXCEPT ![v] = [heads[v] EXCEPT !.token = t]]
      BY <2>5 DEF SetLastExternalToken
    <3>3. [heads[v] EXCEPT !.token = t].node = heads[v].node
      BY <1>1 DEF Version
    <3> QED
      BY <3>1, <3>2, <3>3
  <2> QED
    BY <2>1, <2>2, <2>3, <2>4, <2>5
<1>4. RefsExact' /\ LinksFinite' /\ Live' = Live
  BY <1>2, <1>3, FieldsRInv
<1>5. WalkSound' /\ Resting'
  BY <1>2, <1>4, StillSound
<1> QED
  BY <1>4, <1>5 DEF RInv

\* A version that goes leaves its reference to be released.
LEMMA LeavingRInv ==
    ASSUME RInv, IInv', UNCHANGED <<links, refs>>, drops = <<>>,
           NEW k \in Nodes, drops' = <<k>>,
           \A m : Times(Tops(heads'), m) = Times(Tops(heads), m) - Same(k, m)
    PROVE  RefsExact' /\ LinksFinite' /\ Live' = Live
<1>1. \A m \in Nodes : refs[m] \in Int /\ Times(Tops(heads), m) \in Nat
  BY GraphTyped, CountsTyped DEF RInv, IInv
<1>2. \A m : Times(drops', m) = Same(k, m) /\ Times(drops, m) = 0
  BY TimesSingle, TimesEmpty
<1>3. \A m \in Nodes : refs'[m] = refs[m] + (Times(Tops(heads'), m) - Times(Tops(heads), m))
                                  + (Times(drops', m) - Times(drops, m))
  BY <1>1, <1>2 DEF Same
<1> QED
  BY <1>3, Recounted

\* removeVersion, and renumberVersion over version v, leave the node of v to be released.
LEMMA RemoveRInv ==
    ASSUME RInv, IInv', NEW v \in Versions,
           RemoveVersion(v) \/ \E w \in Versions : RenumberVersion(w, v)
    PROVE  RInv'
<1>1. /\ heads \in Seq(Version) /\ heads[v].node \in Nodes /\ v \in 1 .. Len(heads)
      /\ Tops(heads) \in Seq(Nat) /\ Len(Tops(heads)) = Len(heads)
      /\ Tops(heads)[v] = heads[v].node
  BY CountsTyped, TopsTyped, HeadsTyped DEF Versions, RInv
<1>2. /\ UNCHANGED <<links, refs, calls, walk>> /\ drops = <<>> /\ drops' = <<heads[v].node>>
  BY DEF RemoveVersion, RenumberVersion, graph, CanCall, Idle
<1>3. \A m : Times(Tops(heads'), m) = Times(Tops(heads), m) - Same(heads[v].node, m)
  <2>1. CASE RemoveVersion(v)
    <3>1. Tops(heads') = Without(Tops(heads), v)
      BY <1>1, <2>1, TopsWithout DEF RemoveVersion
    <3> QED
      BY <1>1, <3>1, TimesWithout
  <2>2. ASSUME NEW w \in Versions, RenumberVersion(w, v)
        PROVE  \A m : Times(Tops(heads'), m) = Times(Tops(heads), m) - Same(heads[v].node, m)
    BY <1>1, <2>2, TimesRenumbered DEF RenumberVersion, Versions
  <2> QED
    BY <2>1, <2>2
<1>4. RefsExact' /\ LinksFinite' /\ Live' = Live
  BY <1>1, <1>2, <1>3, LeavingRInv
<1> QED
  BY <1>2, <1>4, StillSound DEF RInv

\* swapVersions leaves every node with as many versions as before.
LEMMA SwapRInv ==
    ASSUME RInv, IInv', NEW v \in Versions, NEW w \in Versions, SwapVersions(v, w)
    PROVE  RInv'
<1>1. /\ heads \in Seq(Version) /\ heads[v] \in Version /\ heads[w] \in Version
      /\ v \in 1 .. Len(heads) /\ w \in 1 .. Len(heads) /\ v # w
  BY CountsTyped, HeadsTyped DEF Versions, RInv, SwapVersions
<1>2. UNCHANGED <<links, refs, drops, calls, walk>>
  BY DEF SwapVersions, graph
<1> DEFINE gs == [heads EXCEPT ![v] = heads[w]]  hs == [gs EXCEPT ![w] = heads[v]]
<1>3. heads' = hs
  BY <1>1 DEF SwapVersions
<1>4. /\ gs \in Seq(Version) /\ Len(gs) = Len(heads) /\ gs[w] = heads[w] /\ gs[v] = heads[w]
      /\ \A j \in 1 .. Len(heads) : j # v => gs[j] = heads[j]
  BY <1>1, ExceptSeq
<1> HIDE DEF gs
<1>9. /\ hs \in Seq(Version) /\ Len(hs) = Len(gs) /\ hs[w] = heads[v]
      /\ \A j \in 1 .. Len(gs) : j # w => hs[j] = gs[j]
  BY <1>1, <1>4, ExceptSeq
<1> HIDE DEF hs
<1>5. \A m : Times(Tops(gs), m)
               = Times(Tops(heads), m) - Same(heads[v].node, m) + Same(heads[w].node, m)
  BY <1>1, <1>4, TimesOfChanged
<1>6. \A m : Times(Tops(hs), m)
               = Times(Tops(gs), m) - Same(heads[w].node, m) + Same(heads[v].node, m)
  BY <1>1, <1>4, <1>9, TimesOfChanged
<1>7. \A m \in Nodes : refs'[m] = refs[m] + (Times(Tops(heads'), m) - Times(Tops(heads), m))
                                  + (Times(drops', m) - Times(drops, m))
  <2> SUFFICES ASSUME NEW m \in Nodes
               PROVE  refs'[m] = refs[m] + (Times(Tops(heads'), m) - Times(Tops(heads), m))
                                 + (Times(drops', m) - Times(drops, m))
    OBVIOUS
  <2>1. refs[m] \in Int /\ Times(Tops(heads), m) \in Nat /\ Times(drops, m) \in Nat
    BY GraphTyped, CountsTyped DEF RInv, IInv
  <2>2. Same(heads[w].node, m) \in Nat /\ Same(heads[v].node, m) \in Nat
    BY DEF Same
  <2>3. Times(Tops(heads'), m) = Times(Tops(heads), m)
    BY <1>3, <1>5, <1>6, <2>1, <2>2
  <2> QED
    BY <1>2, <2>1, <2>3
<1>8. RefsExact' /\ LinksFinite' /\ Live' = Live
  BY <1>2, <1>7, Recounted
<1> QED
  BY <1>2, <1>8, StillSound DEF RInv

\* One more version on a live node, and one more reference to it.
LEMMA MoreHeadRInv ==
    ASSUME RInv, IInv', UNCHANGED <<links, drops>>,
           NEW h \in Version, h.node \in Live, heads' = Append(heads, h),
           refs' = [refs EXCEPT ![h.node] = @ + 1]
    PROVE  RefsExact' /\ LinksFinite' /\ Live' = Live
<1> DEFINE k == h.node
<1>1. /\ heads \in Seq(Version) /\ Tops(heads) \in Seq(Nat) /\ k \in Nat /\ k \in Live
      /\ refs' = [refs EXCEPT ![k] = @ + 1]
  BY CountsTyped, TopsTyped DEF Version
<1>2. Tops(heads') = Append(Tops(heads), k)
  BY <1>1, TopsAppend
<1> HIDE DEF k
<1>3. ASSUME NEW m
      PROVE  Times(Tops(heads'), m) = Times(Tops(heads), m) + Same(k, m)
  BY <1>1, <1>2, TimesAppend
<1>4. /\ Len(refs') = Len(refs) /\ Alive(refs') = Alive(refs)
      /\ \A m \in Nodes : refs'[m] = refs[m] + Same(k, m)
  BY <1>1, OneMore
<1>5. \A m \in Nodes : /\ refs[m] \in Int /\ Times(Tops(heads), m) \in Nat
                       /\ Times(drops, m) \in Nat /\ Same(k, m) \in Nat
  BY GraphTyped, CountsTyped DEF RInv, IInv, Same
<1>6. \A m \in Nodes : refs'[m] = refs[m] + (Times(Tops(heads'), m) - Times(Tops(heads), m))
                                  + (Times(drops', m) - Times(drops, m))
  BY <1>3, <1>4, <1>5
<1> QED
  BY <1>4, <1>6, Recounted

\* copyVersion retains the node its new version shares.
LEMMA CopyRInv ==
    ASSUME RInv, IInv', NEW v \in Versions, CopyVersion(v)
    PROVE  RInv'
<1> DEFINE h == [heads[v] EXCEPT !.summary = <<>>]
<1>1. heads[v] \in Version /\ heads[v].node \in Live /\ <<>> \in Seq(Entry)
  BY HeadsTyped, NamedLive DEF RInv
<1>2. h \in Version /\ h.node = heads[v].node
  BY <1>1 DEF Version
<1>3. /\ UNCHANGED <<links, drops, calls, walk>> /\ heads' = Append(heads, h)
      /\ refs' = [refs EXCEPT ![heads[v].node] = @ + 1]
  BY DEF CopyVersion, graph
<1> HIDE DEF h
<1>4. RefsExact' /\ LinksFinite' /\ Live' = Live
  BY <1>1, <1>2, <1>3, MoreHeadRInv
<1> QED
  BY <1>3, <1>4, StillSound DEF RInv

\* clear retains the base for the one version it leaves, and has all others to release.
LEMMA ClearRInv ==
    ASSUME RInv, IInv', Clear
    PROVE  RInv'
<1>1. /\ UNCHANGED <<links, calls, walk>> /\ drops = <<>>
      /\ refs' = [refs EXCEPT ![Base] = @ + 1]
  BY DEF Clear, graph, CanCall, Idle
<1>2. Base \in Live
  BY NamedLive
<1>3. /\ Len(refs') = Len(refs) /\ Alive(refs') = Alive(refs)
      /\ \A m \in Nodes : refs'[m] = refs[m] + Same(Base, m)
  BY <1>1, <1>2, OneMore
<1>4. Tops(heads') = <<Base>>
  BY DEF Clear, Tops
<1>5. /\ Tops(heads) \in Seq(Nat) /\ Len(Tops(heads)) = Len(heads) /\ Len(heads) \in Nat
      /\ \A v \in 1 .. Len(heads) : Tops(heads)[v] = heads[v].node
  BY CountsTyped, TopsTyped
<1>6. drops' = Backwards(Tops(heads))
  <2>1. drops' = [j \in 1 .. Len(heads) |-> heads[Len(heads) + 1 - j].node]
    BY DEF Clear
  <2>2. \A j \in 1 .. Len(heads) : Len(heads) + 1 - j \in 1 .. Len(heads)
    BY <1>5
  <2>3. \A j \in 1 .. Len(heads) :
           Tops(heads)[Len(heads) + 1 - j] = heads[Len(heads) + 1 - j].node
    BY <1>5, <2>2
  <2> QED
    BY <1>5, <2>1, <2>3 DEF Backwards
<1>7. \A m : /\ Times(Tops(heads'), m) = Same(Base, m)
             /\ Times(drops', m) = Times(Tops(heads), m) /\ Times(drops, m) = 0
  BY <1>1, <1>4, <1>5, <1>6, TimesSingle, TimesBackwards, TimesEmpty
<1>8. \A m \in Nodes : /\ refs[m] \in Int /\ Times(Tops(heads), m) \in Nat
                       /\ Same(Base, m) \in Nat
  BY GraphTyped, CountsTyped DEF RInv, IInv, Same
<1>9. \A m \in Nodes : refs'[m] = refs[m] + (Times(Tops(heads'), m) - Times(Tops(heads), m))
                                  + (Times(drops', m) - Times(drops, m))
  BY <1>3, <1>7, <1>8
<1>10. RefsExact' /\ LinksFinite' /\ Live' = Live
  BY <1>1, <1>3, <1>9, Recounted
<1> QED
  BY <1>1, <1>10, StillSound DEF RInv

-----------------------------------------------------------------------------
(* Operations on the graph.                                                *)

\* One link more, to node t, is one more reference to that.
LEMMA IntoMore ==
    ASSUME NEW ls, NEW alive, NEW gs, NEW living, NEW m, NEW q, NEW t,
           IsFiniteSet(Into(ls, alive, m)), q \notin Into(ls, alive, m),
           \A p : p \in Into(gs, living, m) <=> p \in Into(ls, alive, m) \/ (p = q /\ t = m)
    PROVE  /\ IsFiniteSet(Into(gs, living, m))
           /\ Cardinality(Into(gs, living, m)) = Cardinality(Into(ls, alive, m)) + Same(t, m)
<1> DEFINE A == Into(ls, alive, m)  B == Into(gs, living, m)
<1>1. IsFiniteSet(A) /\ q \notin A /\ (t = m => B = A \cup {q}) /\ (t # m => B = A)
  OBVIOUS
<1> HIDE DEF A, B
<1>2. Cardinality(A) \in Nat
  BY <1>1, FS_CardinalityType
<1>3. IsFiniteSet(A \cup {q}) /\ Cardinality(A \cup {q}) = Cardinality(A) + 1
  BY <1>1, FS_AddElement
<1>4. IsFiniteSet(B) /\ Cardinality(B) = Cardinality(A) + Same(t, m)
  <2>1. CASE t = m
    <3>1. Same(t, m) = 1 /\ B = A \cup {q}
      BY <1>1, <2>1 DEF Same
    <3> QED
      BY <1>3, <3>1
  <2>2. CASE t # m
    <3>1. Same(t, m) = 0 /\ B = A
      BY <1>1, <2>2 DEF Same
    <3> QED
      BY <1>1, <1>2, <3>1
  <2> QED
    BY <2>1, <2>2
<1> QED
  BY <1>4 DEF A, B

\* push gives the reference of the version to the link of the node it adds.
LEMMA PushRInv ==
    ASSUME RInv, IInv', NEW v \in Versions, NEW t \in Trees, NEW b \in BOOLEAN, NEW s \in State,
           Push(v, t, b, s)
    PROVE  RInv'
<1> DEFINE prev == heads[v].node  N == Len(node) + 1
           link == [node |-> prev, sub |-> t, pending |-> b]
<1>1. /\ prev \in Nodes /\ prev \in Live /\ Len(node) \in Nat \ {0} /\ Nodes = 1 .. Len(node)
      /\ heads \in Seq(Version) /\ refs \in Seq(Int) /\ Len(refs) = Len(node)
      /\ links \in Seq(Seq(Link)) /\ Len(links) = Len(node) /\ v \in 1 .. Len(heads)
      /\ heads' \in Seq(Version)
  <2>1. IInv /\ TypeOK /\ TypeOK'
    BY DEF RInv, IInv
  <2>2. prev \in Nodes /\ prev \in Live
    BY <2>1, NamedLive, HeadsTyped
  <2>3. Len(node) \in Nat \ {0}
    BY <2>1, CountsTyped DEF TypeOK
  <2> HIDE DEF prev
  <2> QED
    BY <2>1, <2>2, <2>3 DEF TypeOK, Versions, Nodes
<1>2. /\ links' = Append(links, <<link>>) /\ refs' = Append(refs, 1)
      /\ UNCHANGED <<calls, drops, walk>> /\ drops = <<>>
  BY DEF Push, CanCall, Idle
<1>3. /\ Len(heads') = Len(heads) /\ heads'[v].node = N /\ heads'[v] \in Version
      /\ \A j \in 1 .. Len(heads) : j # v => heads'[j] = heads[j]
  <2> DEFINE h == [heads[v] EXCEPT !.node = N,
                     !.atError = IF t = NoTree THEN weight[prev].count ELSE @]
  <2>1. heads' = [heads EXCEPT ![v] = h]
    BY Zenon DEF Push
  <2>2. heads[v] \in Version
    BY <1>1, ElementOfSeq
  <2>3. h.node = N
    BY <2>2 DEF Version
  <2> HIDE DEF h
  <2>4. /\ Len(heads') = Len(heads) /\ heads'[v] = h
        /\ \A j \in 1 .. Len(heads) : j # v => heads'[j] = heads[j]
    BY <1>1, <2>1
  <2>5. heads'[v] \in Version
    BY <1>1, <2>4, ElementOfSeq
  <2> QED
    BY <2>3, <2>4, <2>5
<1>4. /\ Len(refs') = N /\ refs'[N] = 1 /\ \A m \in Nodes : refs'[m] = refs[m]
  BY <1>1, <1>2
<1>5. /\ \A m \in Nodes : links'[m] = links[m]
      /\ Len(links'[N]) = 1 /\ links'[N][1].node = prev
  <2>1. links'[N] = <<link>> /\ \A m \in Nodes : links'[m] = links[m]
    BY <1>1, <1>2
  <2>2. Len(<<link>>) = 1 /\ <<link>>[1].node = prev
    OBVIOUS
  <2> QED
    BY <2>1, <2>2
<1> HIDE DEF prev, N, link
<1>6. N \notin Nodes /\ N = Len(node) + 1 /\ N # Base /\ N \in Nat
  BY <1>1 DEF N, Base
<1>7. Alive(refs') = Live \cup {N} /\ Live \subseteq Nodes /\ Live = Alive(refs)
  <2>1. Live = {m \in 1 .. Len(refs) : refs[m] > 0}
    BY <1>1 DEF Live
  <2>2. \A m : m \in 1 .. N <=> m \in 1 .. Len(refs) \/ m = N
    BY <1>1, <1>6
  <2>3. Alive(refs') = Live \cup {N}
    BY <1>1, <1>4, <1>6, <2>1, <2>2 DEF Alive
  <2> QED
    BY <2>1, <2>3 DEF Alive, Live
<1>8. \A m : Times(Tops(heads'), m) = Times(Tops(heads), m) - Same(prev, m) + Same(N, m)
  <2>1. heads[v].node = prev
    BY DEF prev
  <2> SUFFICES ASSUME NEW m
               PROVE Times(Tops(heads'), m) = Times(Tops(heads), m) - Same(prev, m) + Same(N, m)
    OBVIOUS
  <2>2. Times(Tops(heads'), m)
           = Times(Tops(heads), m) - Same(heads[v].node, m) + Same(heads'[v].node, m)
    BY <1>1, <1>3, TimesOfChanged
  <2> QED
    BY <1>3, <2>1, <2>2
<1>9. \A m : Times(drops', m) = 0 /\ Times(drops, m) = 0
  BY <1>2, TimesEmpty
<1>10. ASSUME NEW m, NEW p
       PROVE  p \in Into(links', Alive(refs'), m) <=>
                 p \in Into(links, Live, m) \/ (p = <<N, 1>> /\ prev = m)
  <2>1. p \in Into(links', Alive(refs'), m) <=>
           \E k \in Live \cup {N} : \E i \in 1 .. Len(links'[k]) :
              p = <<k, i>> /\ links'[k][i].node = m
    BY <1>7, IntoIs
  <2>2. p \in Into(links, Live, m) <=>
           \E k \in Live : \E i \in 1 .. Len(links[k]) : p = <<k, i>> /\ links[k][i].node = m
    BY IntoIs
  <2>3. \A k \in Live : links'[k] = links[k]
    BY <1>5, <1>7
  <2> QED
    BY <1>5, <2>1, <2>2, <2>3
<1>11. \A m : <<N, 1>> \notin Into(links, Live, m)
  BY <1>6, <1>7, IntoIs
<1>12. Counted(links', refs', heads', drops')
  <2> SUFFICES ASSUME NEW m \in 1 .. Len(refs')
               PROVE  /\ IsFiniteSet(Into(links', Alive(refs'), m))
                      /\ refs'[m] = Times(Tops(heads'), m)
                                    + Cardinality(Into(links', Alive(refs'), m))
                                    + Times(drops', m) + Same(m, Base)
    BY DEF Counted
  <2>1. CASE m \in Nodes
    <3>1. /\ IsFiniteSet(Into(links, Live, m)) /\ Times(Tops(heads), m) \in Nat
          /\ Cardinality(Into(links, Live, m)) \in Nat
          /\ refs[m] = Times(Tops(heads), m) + Cardinality(Into(links, Live, m))
                       + Times(drops, m) + Same(m, Base)
      BY <2>1, CountsTyped
    <3>2. /\ IsFiniteSet(Into(links', Alive(refs'), m))
          /\ Cardinality(Into(links', Alive(refs'), m))
                = Cardinality(Into(links, Live, m)) + Same(prev, m)
      BY <1>10, <1>11, <3>1, IntoMore
    <3>3. Same(N, m) = 0 /\ Same(prev, m) \in Nat /\ Same(m, Base) \in Nat
      BY <1>6, <2>1 DEF Same
    <3>4. /\ Times(Tops(heads'), m) = Times(Tops(heads), m) - Same(prev, m) + Same(N, m)
          /\ Times(drops', m) = 0 /\ Times(drops, m) = 0 /\ refs'[m] = refs[m]
      BY <1>4, <1>8, <1>9, <2>1
    <3> QED
      BY <3>1, <3>2, <3>3, <3>4
  <2>2. CASE m = N
    <3>1. Into(links', Alive(refs'), N) = {}
      <4> SUFFICES ASSUME NEW p, p \in Into(links', Alive(refs'), N) PROVE FALSE
        OBVIOUS
      <4>1. prev # N
        BY <1>1, <1>6
      <4>4. PICK k \in Live : \E i \in 1 .. Len(links[k]) : links[k][i].node = N
        BY <1>10, <4>1, IntoIs
      <4>2. PICK i \in 1 .. Len(links[k]) : links[k][i].node = N
        BY <4>4
      <4>3. links[k][i].node \in Live
        BY <4>2, NamedLive
      <4> QED
        BY <1>6, <1>7, <4>2, <4>3
    <3>2. Times(Tops(heads), N) = 0
      <4>1. /\ Len(Tops(heads)) = Len(heads)
            /\ \A j \in 1 .. Len(heads) : Tops(heads)[j] = heads[j].node
        BY <1>1, TopsTyped
      <4>2. \A j \in 1 .. Len(heads) : heads[j].node \in Live
        BY NamedLive DEF Versions
      <4>3. Places(Tops(heads), N) = {}
        BY <1>6, <1>7, <4>1, <4>2 DEF Places
      <4> QED
        BY <4>3, FS_EmptySet DEF Times
    <3>3. Same(prev, N) = 0 /\ Same(N, N) = 1 /\ Same(N, Base) = 0
      BY <1>1, <1>6 DEF Same
    <3>4. Times(Tops(heads'), N) = 1
      BY <1>8, <3>2, <3>3
    <3> QED
      BY <1>4, <1>9, <2>2, <3>1, <3>3, <3>4, FS_EmptySet
  <2> QED
    BY <1>1, <1>4, <1>6, <2>1, <2>2
<1>13. RefsExact' /\ LinksFinite'
  BY <1>12, CountedMeansNext DEF IInv
<1>14. Live \subseteq Live'
  BY <1>7, <1>13 DEF Live, Alive, Nodes, IInv, TypeOK
<1>15. WalkSound' /\ Resting'
  BY <1>2, <1>14, StillSound
<1> QED
  BY <1>13, <1>15 DEF RInv

\* The links of node n to m are the places of m in its targets.
LEMMA OwnLinks ==
    ASSUME RInv, NEW n \in Live, NEW m \in Nodes
    PROVE  /\ Targets(n) \in Seq(Nat)
           /\ IsFiniteSet(Into(links, Live \ {n}, m))
           /\ Cardinality(Into(links, Live, m))
                 = Cardinality(Into(links, Live \ {n}, m)) + Times(Targets(n), m)
           /\ Cardinality(Into(links, Live \ {n}, m)) \in Nat
<1> DEFINE A == Into(links, Live \ {n}, m)  all == Into(links, Live, m)
           T == Targets(n)  own == {p \in all : p \notin A}
           f == [i \in Places(T, m) |-> <<n, i>>]
<1>1. n \in Nodes /\ Len(links[n]) \in Nat /\ \A i \in 1 .. Len(links[n]) : links[n][i].node \in Nat
  <2>1. n \in Nodes
    BY DEF Live
  <2>2. links[n] \in Seq(Link) /\ \A i \in 1 .. Len(links[n]) : links[n][i] \in Link
    BY <2>1, GraphTyped DEF RInv, IInv
  <2> QED
    BY <2>1, <2>2, LenProperties DEF Link
<1>2. /\ T \in Seq(Nat) /\ Len(T) = Len(links[n])
      /\ \A i \in 1 .. Len(links[n]) : T[i] = links[n][i].node
  BY <1>1, IsASeq DEF Targets
<1>3. IsFiniteSet(all)
  BY CountsTyped
<1> HIDE DEF T
<1>4. \A p : p \in all <=> \E k \in Live : \E i \in 1 .. Len(links[k]) :
                               p = <<k, i>> /\ links[k][i].node = m
  BY IntoIs
<1>5. \A p : p \in A <=> \E k \in Live \ {n} : \E i \in 1 .. Len(links[k]) :
                             p = <<k, i>> /\ links[k][i].node = m
  BY IntoIs
<1> HIDE DEF A, all
<1>6. A \in SUBSET all
  BY <1>4, <1>5
<1>7. IsFiniteSet(A)
  BY <1>3, <1>6, FS_Subset
<1>8. \A p : p \in own <=> \E i \in 1 .. Len(links[n]) : p = <<n, i>> /\ links[n][i].node = m
  <2>1. ASSUME NEW p \in own
        PROVE  \E i \in 1 .. Len(links[n]) : p = <<n, i>> /\ links[n][i].node = m
    <3>1. PICK k \in Live : \E i \in 1 .. Len(links[k]) : p = <<k, i>> /\ links[k][i].node = m
      BY <1>4
    <3>2. k = n
      BY <1>5, <3>1
    <3> QED
      BY <3>1, <3>2
  <2>2. ASSUME NEW p, NEW i \in 1 .. Len(links[n]), p = <<n, i>>, links[n][i].node = m
        PROVE  p \in own
    <3>1. p \in all
      BY <1>4, <2>2
    <3>2. p \notin A
      <4> SUFFICES ASSUME p \in A PROVE FALSE
        OBVIOUS
      <4>1. PICK k \in Live \ {n} : \E j \in 1 .. Len(links[k]) : p = <<k, j>>
        BY <1>5
      <4>2. PICK j \in 1 .. Len(links[k]) : p = <<k, j>>
        BY <4>1
      <4>3. p[1] = k /\ p[1] = n
        BY <2>2, <4>2
      <4> QED
        BY <4>1, <4>3
    <3> QED
      BY <3>1, <3>2
  <2> QED
    BY <2>1, <2>2
<1> HIDE DEF own
<1>9. f \in [Places(T, m) -> own]
  <2> SUFFICES ASSUME NEW i \in Places(T, m) PROVE <<n, i>> \in own
    OBVIOUS
  <2>1. i \in 1 .. Len(links[n]) /\ links[n][i].node = m
    BY <1>2 DEF Places
  <2> QED
    BY <1>8, <2>1
<1>10. \A i, j \in Places(T, m) : f[i] = f[j] => i = j
  <2> SUFFICES ASSUME NEW i \in Places(T, m), NEW j \in Places(T, m), f[i] = f[j] PROVE i = j
    OBVIOUS
  <2>1. <<n, i>> = <<n, j>>
    OBVIOUS
  <2>2. <<n, i>>[2] = i /\ <<n, j>>[2] = j
    OBVIOUS
  <2> QED
    BY <2>1, <2>2
<1>11. \A p \in own : \E i \in Places(T, m) : f[i] = p
  <2> SUFFICES ASSUME NEW p \in own PROVE \E i \in Places(T, m) : f[i] = p
    OBVIOUS
  <2>1. PICK i \in 1 .. Len(links[n]) : p = <<n, i>> /\ links[n][i].node = m
    BY <1>8
  <2>2. i \in Places(T, m)
    BY <1>2, <2>1 DEF Places
  <2> QED
    BY <2>1, <2>2
<1> HIDE DEF f
<1>12. ExistsBijection(Places(T, m), own)
  BY <1>9, <1>10, <1>11, Fun_IsBij, Fun_ExistsBij
<1>13. IsFiniteSet(own) /\ Cardinality(own) = Times(T, m)
  BY <1>2, <1>12, PlacesFinite, FS_Bijection DEF Times
<1>14. all = A \cup own /\ A \cap own = {}
  BY <1>6 DEF own
<1>15. Cardinality(A \cap own) = 0
  BY <1>14, FS_EmptySet
<1>16. Cardinality(A) \in Nat /\ Times(T, m) \in Nat
  BY <1>2, <1>7, PlacesFinite, FS_CardinalityType
<1>17. Cardinality(A \cup own) = Cardinality(A) + Cardinality(own) - Cardinality(A \cap own)
  BY <1>7, <1>13, FS_Union
<1>18. Cardinality(all) = Cardinality(A) + Times(T, m)
  BY <1>13, <1>14, <1>15, <1>16, <1>17
<1> QED
  BY <1>2, <1>7, <1>16, <1>18 DEF A, all, T

\* stackNodeRelease: the last reference to a node gone, those its links held are to be released.
LEMMA ReleaseRInv ==
    ASSUME RInv, IInv', ReleaseStep
    PROVE  RInv'
<1> DEFINE n == drops[Len(drops)]  rest == SubSeq(drops, 1, Len(drops) - 1)
<1>1. /\ drops \in Seq(Nat) /\ Len(drops) \in Nat \ {0} /\ n \in Live /\ n \in Nodes /\ n \in Nat
      /\ Nodes = 1 .. Len(refs) /\ refs \in Seq(Int) /\ Live = Alive(refs)
  <2>1. drops \in Seq(Nat) /\ drops # <<>>
    BY CountsTyped DEF ReleaseStep
  <2>2. Len(drops) \in Nat \ {0}
    BY <2>1, EmptySeq
  <2>3. Len(drops) \in 1 .. Len(drops)
    BY <2>2
  <2>4. n \in Live
    BY <2>3, NamedLive
  <2> QED
    BY <2>1, <2>2, <2>4, CountsTyped DEF Live, Nodes
<1>2. /\ UNCHANGED <<links, heads, calls, walk>> /\ refs' = [refs EXCEPT ![n] = refs[n] - 1]
      /\ drops' = IF refs[n] = 1 THEN rest \o Targets(n) ELSE rest
  BY DEF ReleaseStep, graph
<1>3. rest \in Seq(Nat) /\ \A m : Times(drops, m) = Times(rest, m) + Same(n, m)
  <2>1. \A k \in 1 .. Len(drops) - 1 : drops[k] \in Nat
    BY <1>1, ElementOfSeq
  <2>2. rest \in Seq(Nat)
    BY <1>1, <2>1, SubSeqProperties
  <2>3. 1 \in 1 .. Len(drops) /\ Len(drops) \in 1 .. Len(drops)
    BY <1>1
  <2>4. SubSeq(drops, 1, Len(drops)) = rest \o <<n>>
    BY <1>1, <2>3, SubSeqRecursiveSecond
  <2>5. drops = rest \o <<n>>
    BY <1>1, <2>4, SubSeqFull
  <2> HIDE DEF n, rest
  <2>6. <<n>> \in Seq(Nat)
    BY <1>1
  <2> SUFFICES ASSUME NEW m PROVE Times(drops, m) = Times(rest, m) + Same(n, m)
    BY <2>2
  <2>7. Times(rest \o <<n>>, m) = Times(rest, m) + Times(<<n>>, m)
    BY <2>2, <2>6, TimesConcat
  <2> QED
    BY <2>5, <2>7, TimesSingle
<1> HIDE DEF n, rest
<1>4. /\ Len(refs') = Len(refs)
      /\ \A m \in Nodes : refs'[m] = refs[m] - Same(n, m) /\ refs[m] \in Int
  <2>1. refs[n] - 1 \in Int /\ \A m \in Nodes : refs[m] \in Int
    BY <1>1, ElementOfSeq
  <2>2. Len(refs') = Len(refs) /\ \A m \in Nodes : refs'[m] = IF m = n THEN refs[n] - 1 ELSE refs[m]
    BY <1>1, <1>2, <2>1, ExceptSeq
  <2> QED
    BY <2>1, <2>2 DEF Same
<1>5. refs[n] >= 1
  BY <1>1, <1>4 DEF Live
<1>6. calls' = <<>> /\ walk'.its = <<>> /\ walk'.slices = walk.slices
  BY <1>2 DEF ReleaseStep, RInv, IInv, OneTask, Resting
<1>7. WalkSound' /\ Resting'
  BY <1>2, <1>6 DEF RInv, WalkSound, Resting
<1>8. \A m \in Nodes : /\ Times(Tops(heads), m) \in Nat /\ Times(rest, m) \in Nat
                       /\ Same(n, m) \in Nat
  BY <1>3, CountsTyped, PlacesFinite DEF Same
<1>9. CASE refs[n] # 1
  <2>1. /\ refs[n] > 1 /\ Same(n, n) = 1 /\ refs'[n] = refs[n] - 1
        /\ \A m \in Nodes : m # n => refs'[m] = refs[m]
    <3>1. refs[n] \in Int /\ Same(n, n) = 1 /\ refs'[n] = refs[n] - Same(n, n)
      BY <1>1, <1>4 DEF Same
    <3>2. \A m \in Nodes : m # n => Same(n, m) = 0
      BY DEF Same
    <3> QED
      BY <1>4, <1>5, <1>9, <3>1, <3>2
  <2>2. \A m \in Nodes : refs'[m] > 0 <=> refs[m] > 0
    BY <1>1, <1>4, <2>1
  <2>3. Alive(refs') = Alive(refs)
    BY <1>1, <1>4, <2>2 DEF Alive
  <2>4. drops' = rest /\ heads' = heads
    BY <1>2, <1>9
  <2>5. ASSUME NEW m \in Nodes
        PROVE  refs'[m] = refs[m] + (Times(Tops(heads'), m) - Times(Tops(heads), m))
                          + (Times(drops', m) - Times(drops, m))
    <3> DEFINE a == Times(Tops(heads), m)  b == Times(rest, m)  c == Same(n, m)
               d == Times(drops, m)
    <3>1. a \in Nat /\ b \in Nat /\ c \in Nat /\ d = b + c
      BY <1>3, <1>8
    <3>2. refs'[m] = refs[m] - c /\ refs[m] \in Int
      BY <1>4
    <3>3. Times(Tops(heads'), m) = a /\ Times(drops', m) = b
      BY <2>4
    <3> HIDE DEF a, b, c, d
    <3>4. refs'[m] = refs[m] + (a - a) + (b - d)
      BY <3>1, <3>2
    <3> QED
      BY <3>3, <3>4 DEF a, b, d
  <2> QED
    BY <1>2, <1>4, <1>7, <2>3, <2>5, Recounted DEF RInv
<1>10. CASE refs[n] = 1
  <2>1. Alive(refs') = Live \ {n}
    BY <1>1, <1>4, <1>5, <1>10 DEF Alive, Same
  <2>2. drops' = rest \o Targets(n)
    BY <1>2, <1>10
  <2>3. ASSUME NEW m \in Nodes
        PROVE  /\ IsFiniteSet(Into(links', Alive(refs'), m))
               /\ refs'[m] = Times(Tops(heads'), m) + Cardinality(Into(links', Alive(refs'), m))
                             + Times(drops', m) + Same(m, Base)
    <3> DEFINE c == Cardinality(Into(links, Live \ {n}, m))  x == Times(Targets(n), m)
    <3>1. /\ Targets(n) \in Seq(Nat) /\ IsFiniteSet(Into(links, Live \ {n}, m))
          /\ Cardinality(Into(links, Live, m)) = c + x /\ c \in Nat
      BY <1>1, OwnLinks
    <3>2. x \in Nat /\ Times(drops', m) = Times(rest, m) + x
      BY <1>3, <2>2, <3>1, PlacesFinite, TimesConcat
    <3>3. refs[m] = Times(Tops(heads), m) + Cardinality(Into(links, Live, m))
                   + Times(drops, m) + Same(m, Base) /\ Same(m, Base) \in Nat
      BY CountsTyped DEF Same
    <3>4. Times(drops, m) = Times(rest, m) + Same(n, m) /\ refs'[m] = refs[m] - Same(n, m)
      BY <1>3, <1>4
    <3>5. Into(links', Alive(refs'), m) = Into(links, Live \ {n}, m)
      BY <1>2, <2>1
    <3>6. heads' = heads
      BY <1>2
    <3> HIDE DEF c, x
    <3>7. refs'[m] = Times(Tops(heads), m) + c + (Times(rest, m) + x) + Same(m, Base)
      BY <1>8, <3>1, <3>2, <3>3, <3>4
    <3> QED
      BY <3>1, <3>2, <3>5, <3>6, <3>7 DEF c
  <2>4. Counted(links', refs', heads', drops')
    BY <1>1, <1>4, <2>3 DEF Counted
  <2>5. RefsExact' /\ LinksFinite'
    BY <2>4, CountedMeansNext DEF IInv
  <2> QED
    BY <1>7, <2>5 DEF RInv
<1> QED
  BY <1>9, <1>10

-----------------------------------------------------------------------------
(* Merging.                                                                *)

\* The nodes that a list of frames goes through are live.
Followed(cs, alive) == \A k \in 1 .. Len(cs) : cs[k].self \in alive /\ cs[k].from \in alive

\* Nothing is counted when every link leads where it did.
LEMMA SameLinksCounted ==
    ASSUME RInv, IInv', UNCHANGED <<node, refs, heads, drops>>,
           \A n \in Nodes : Len(links'[n]) = Len(links[n]),
           \A n \in Nodes : \A i \in 1 .. Len(links[n]) : links'[n][i].node = links[n][i].node
    PROVE  RefsExact' /\ LinksFinite' /\ Live' = Live
<1>1. Alive(refs') = Live /\ Live' = Live /\ Live \subseteq Nodes
  <2>1. Alive(refs) = Live
    BY CountsTyped
  <2> QED
    BY <2>1 DEF Live, Nodes
<1>2. ASSUME NEW m
      PROVE  Into(links', Live, m) = Into(links, Live, m)
  <2>1. ASSUME NEW p
        PROVE  p \in Into(links', Live, m) <=> p \in Into(links, Live, m)
    <3>1. p \in Into(links', Live, m) <=>
             \E k \in Live : \E i \in 1 .. Len(links'[k]) : p = <<k, i>> /\ links'[k][i].node = m
      BY IntoIs
    <3>2. p \in Into(links, Live, m) <=>
             \E k \in Live : \E i \in 1 .. Len(links[k]) : p = <<k, i>> /\ links[k][i].node = m
      BY IntoIs
    <3>3. \A k \in Live : /\ Len(links'[k]) = Len(links[k])
                          /\ \A i \in 1 .. Len(links[k]) : links'[k][i].node = links[k][i].node
      BY <1>1
    <3> QED
      BY <3>1, <3>2, <3>3
  <2> QED
    BY <2>1
<1>3. Counted(links, refs, heads, drops) /\ Alive(refs) = Live
  BY CountsTyped
<1>4. Counted(links', refs', heads', drops')
  BY <1>1, <1>2, <1>3 DEF Counted
<1> QED
  BY <1>1, <1>4, CountedMeansNext DEF IInv

\* A merge that counts nothing, and goes on through live nodes.
LEMMA CallsRInv ==
    ASSUME RInv, IInv', UNCHANGED <<node, links, refs, heads, drops, walk>>,
           Followed(calls', Live)
    PROVE  RInv'
<1>1. RefsExact' /\ LinksFinite' /\ Live' = Live
  BY SameLinksCounted
<1>2. WalkSound' /\ Resting'
  BY <1>1 DEF RInv, WalkSound, Resting, Followed
<1> QED
  BY <1>1, <1>2 DEF RInv

\* The frames of a running merge are such a list,
LEMMA CallsFollowed ==
    ASSUME RInv
    PROVE  /\ Followed(calls, Live) /\ calls \in Seq(Frame) /\ Len(calls) \in Nat
           /\ calls # <<>> => Top.self \in Live /\ Top.from \in Live /\ Len(calls) >= 1
<1>1. IInv /\ Followed(calls, Live)
  BY DEF RInv, WalkSound, Followed
<1>2. calls \in Seq(Frame) /\ Len(calls) \in Nat
  BY <1>1, CallsTyped DEF CallsGood
<1>3. ASSUME calls # <<>> PROVE Len(calls) >= 1
  BY <1>1, <1>3, CallsTyped
<1> QED
  BY <1>1, <1>2, <1>3 DEF Followed, Top

\* and the last one keeps its nodes as it goes on to its next link.
LEMMA NextFollowed ==
    ASSUME NEW cs \in Seq(Frame), cs # <<>>, NEW alive, Followed(cs, alive)
    PROVE  Followed([cs EXCEPT ![Len(cs)].next = @ + 1], alive)
<1> DEFINE n == Len(cs)  f == [cs[n] EXCEPT !.next = @ + 1]
<1>1. n \in 1 .. Len(cs) /\ n \in Nat
  BY LenProperties, EmptySeq
<1>2. cs[n] \in Frame
  BY <1>1, ElementOfSeq
<1>3. f \in Frame /\ f.self = cs[n].self /\ f.from = cs[n].from
  BY <1>2 DEF Frame
<1>4. [cs EXCEPT ![Len(cs)].next = @ + 1] = [cs EXCEPT ![n] = f]
  OBVIOUS
<1> HIDE DEF f
<1>5. /\ Len([cs EXCEPT ![n] = f]) = Len(cs)
      /\ \A j \in 1 .. Len(cs) : [cs EXCEPT ![n] = f][j] = IF j = n THEN f ELSE cs[j]
  BY <1>1, <1>3, ExceptSeq
<1> QED
  BY <1>1, <1>3, <1>4, <1>5 DEF Followed

\* merge starts between the nodes of two versions.
LEMMA MergeRInv ==
    ASSUME RInv, IInv', NEW v \in Versions, NEW w \in Versions, Merge(v, w)
    PROVE  RInv'
<1> DEFINE f == [self |-> heads[v].node, from |-> heads[w].node, next |-> 1]
<1>1. f.self \in Live /\ f.from \in Live
  BY NamedLive
<1>2. calls' = <<f>> /\ UNCHANGED <<node, links, refs, heads, drops, walk>>
  BY DEF Merge, graph
<1> HIDE DEF f
<1>3. Followed(calls', Live)
  BY <1>1, <1>2 DEF Followed
<1> QED
  BY <1>2, <1>3, CallsRInv

\* The steps of a merge that change no link and no version.
LEMMA PassingRInv ==
    ASSUME RInv, IInv', calls # <<>>, LinkToSelf \/ LikeNodeDone
    PROVE  RInv'
<1>1. Followed(calls, Live) /\ calls \in Seq(Frame) /\ Len(calls) \in Nat
  BY CallsFollowed
<1>2. CASE LinkToSelf
  <2>1. Followed(calls', Live)
    BY <1>1, <1>2, NextFollowed DEF LinkToSelf, NextLink
  <2> QED
    BY <1>2, <2>1, CallsRInv DEF LinkToSelf, graph
<1>3. CASE LikeNodeDone
  <2>1. /\ Below \in Seq(Frame) /\ Len(Below) = Len(calls) - 1 /\ Len(calls) > 1
        /\ \A k \in 1 .. Len(calls) - 1 : Below[k] = calls[k]
    <3>1. Len(calls) > 1 /\ \A k \in 1 .. Len(calls) - 1 : calls[k] \in Frame
      BY <1>1, <1>3, ElementOfSeq DEF LikeNodeDone
    <3> QED
      BY <1>1, <3>1, SubSeqProperties DEF Below
  <2>2. Followed(Below, Live) /\ Below # <<>>
    BY <1>1, <2>1 DEF Followed
  <2>3. Followed(calls', Live)
    BY <1>3, <2>1, <2>2, NextFollowed DEF LikeNodeDone
  <2> QED
    BY <1>3, <2>3, CallsRInv DEF LikeNodeDone
<1> QED
  BY <1>2, <1>3

\* The recursive call is between the targets of two links of live nodes.
LEMMA LinkToLikeNodeRInv ==
    ASSUME RInv, IInv', calls # <<>>, NEW i \in 1 .. Len(links[Top.self]), LinkToLikeNode(i)
    PROVE  RInv'
<1> DEFINE f == [self |-> links[Top.self][i].node, from |-> Given.node, next |-> 1]
<1>1. /\ Followed(calls, Live) /\ calls \in Seq(Frame) /\ Len(calls) \in Nat
      /\ Top.self \in Live /\ Top.from \in Live
  BY CallsFollowed
<1>2. Top.next \in 1 .. Len(links[Top.from]) /\ IInv
  BY GivenTyped DEF RInv, LinkToLikeNode
<1>3. links[Top.self][i].node \in Live /\ Given.node \in Live
  BY <1>1, <1>2, NamedLive DEF Given
<1>4. calls' = Append(calls, f) /\ UNCHANGED <<node, links, refs, heads, drops, walk>>
  BY DEF LinkToLikeNode, graph
<1>5. f \in Frame /\ f.self \in Live /\ f.from \in Live
  BY <1>2, <1>3, HeadsTyped DEF Frame, Live
<1> HIDE DEF f
<1>6. /\ Len(calls') = Len(calls) + 1 /\ calls'[Len(calls) + 1] = f
      /\ \A k \in 1 .. Len(calls) : calls'[k] = calls[k]
  BY <1>1, <1>4, <1>5, AppendProperties
<1>7. Followed(calls', Live)
  <2> SUFFICES ASSUME NEW k \in 1 .. Len(calls) + 1
               PROVE  calls'[k].self \in Live /\ calls'[k].from \in Live
    BY <1>6 DEF Followed
  <2>1. k \in 1 .. Len(calls) \/ k = Len(calls) + 1
    BY <1>1
  <2> QED
    BY <1>1, <1>5, <1>6, <2>1 DEF Followed
<1> QED
  BY <1>4, <1>7, CallsRInv

\* A subtree that replaces another leaves the link where it led.
LEMMA LinkToSameNodeRInv ==
    ASSUME RInv, IInv', calls # <<>>, NEW i \in 1 .. Len(links[Top.self]), LinkToSameNode(i)
    PROVE  RInv'
<1> DEFINE self == Top.self  sub == Given.sub
<1>1. Followed(calls, Live) /\ calls \in Seq(Frame) /\ self \in Live
  BY CallsFollowed
<1>2. Followed(calls', Live)
  BY <1>1, NextFollowed DEF LinkToSameNode, NextLink
<1>3. UNCHANGED <<node, refs, heads, drops, walk>>
  BY DEF LinkToSameNode
<1>4. links \in Seq(Seq(Link)) /\ self \in 1 .. Len(links) /\ links[self] \in Seq(Link)
  <2>1. TypeOK
    BY DEF RInv, IInv
  <2>2. self \in Nodes
    BY <1>1 DEF Live
  <2> QED
    BY <2>1, <2>2, GraphTyped DEF TypeOK, Nodes
<1>5. links' = links \/ links' = [links EXCEPT ![self] = [links[self] EXCEPT ![i] =
                                    [links[self][i] EXCEPT !.sub = sub]]]
  BY DEF LinkToSameNode
<1> HIDE DEF self, sub
<1>6. /\ \A n \in Nodes : Len(links'[n]) = Len(links[n])
      /\ \A n \in Nodes : \A j \in 1 .. Len(links[n]) : links'[n][j].node = links[n][j].node
  <2> DEFINE new == [links[self][i] EXCEPT !.sub = sub]  ls == [links[self] EXCEPT ![i] = new]
  <2>1. CASE links' = links
    BY <2>1
  <2>2. CASE links' = [links EXCEPT ![self] = ls]
    <3>1. links[self][i] \in Link /\ i \in 1 .. Len(links[self])
      BY <1>4, ElementOfSeq DEF self
    <3>2. new.node = links[self][i].node
      BY <3>1 DEF Link
    <3> HIDE DEF new
    <3>3. /\ Len(ls) = Len(links[self])
          /\ \A j \in 1 .. Len(links[self]) : ls[j] = IF j = i THEN new ELSE links[self][j]
      BY <1>4, <3>1
    <3> HIDE DEF ls
    <3>4. \A n \in 1 .. Len(links) : links'[n] = IF n = self THEN ls ELSE links[n]
      BY <1>4, <2>2
    <3>5. Nodes = 1 .. Len(links)
      BY DEF RInv, IInv, TypeOK, Nodes
    <3> QED
      BY <3>2, <3>3, <3>4, <3>5
  <2> QED
    BY <1>5, <2>1, <2>2
<1>7. RefsExact' /\ LinksFinite' /\ Live' = Live
  BY <1>3, <1>6, SameLinksCounted
<1>8. WalkSound' /\ Resting'
  BY <1>2, <1>3, <1>7 DEF RInv, WalkSound, Resting, Followed
<1> QED
  BY <1>7, <1>8 DEF RInv

\* stackNodeAddLink retains the node of the link it adds.
LEMMA LinkAddedRInv ==
    ASSUME RInv, IInv', calls # <<>>, LinkAdded
    PROVE  RInv'
<1> DEFINE self == Top.self  t == Given.node  last == Len(links[self]) + 1
<1>1. Followed(calls, Live) /\ calls \in Seq(Frame) /\ self \in Live /\ Top.from \in Live
  BY CallsFollowed
<1>2. Given \in Link /\ Top.next \in 1 .. Len(links[Top.from])
  BY GivenTyped DEF RInv, LinkAdded
<1>3. t \in Live
  BY <1>1, <1>2, NamedLive DEF Given
<1>4. Followed(calls', Live)
  BY <1>1, NextFollowed DEF LinkAdded, NextLink
<1>5. /\ UNCHANGED <<node, heads, drops, walk>> /\ refs' = [refs EXCEPT ![t] = @ + 1]
      /\ links' = [links EXCEPT ![self] = Append(links[self], Given)]
  BY DEF LinkAdded
<1>6. links \in Seq(Seq(Link)) /\ self \in 1 .. Len(links) /\ links[self] \in Seq(Link)
  <2>1. TypeOK
    BY DEF RInv, IInv
  <2>2. self \in Nodes
    BY <1>1 DEF Live
  <2> QED
    BY <2>1, <2>2, GraphTyped DEF TypeOK, Nodes
<1>7. /\ Len(links'[self]) = last /\ last \in Nat \ {0} /\ links'[self][last].node = t
      /\ \A j \in 1 .. Len(links[self]) : links'[self][j] = links[self][j]
      /\ \A n \in Nodes : n # self => links'[n] = links[n]
  <2> DEFINE ls == Append(links[self], Given)
  <2>1. /\ Len(ls) = last /\ ls[last] = Given /\ Len(links[self]) \in Nat
        /\ \A j \in 1 .. Len(links[self]) : ls[j] = links[self][j]
    BY <1>2, <1>6, AppendProperties, LenProperties
  <2> HIDE DEF ls
  <2>2. links'[self] = ls /\ \A n \in 1 .. Len(links) : n # self => links'[n] = links[n]
    BY <1>5, <1>6 DEF ls
  <2>3. Nodes = 1 .. Len(links)
    BY DEF RInv, IInv, TypeOK, Nodes
  <2> QED
    BY <2>1, <2>2, <2>3
<1> HIDE DEF self, t, last
<1>8. /\ Len(refs') = Len(refs) /\ Alive(refs') = Alive(refs)
      /\ \A m \in Nodes : refs'[m] = refs[m] + Same(t, m)
  BY <1>3, <1>5, OneMore
<1>9. Alive(refs) = Live /\ Live \subseteq Nodes /\ Nodes = 1 .. Len(refs)
  BY CountsTyped DEF Live
<1>10. ASSUME NEW m
       PROVE  /\ <<self, last>> \notin Into(links, Live, m)
              /\ \A p : p \in Into(links', Live, m) <=>
                           p \in Into(links, Live, m) \/ (p = <<self, last>> /\ t = m)
  <2>1. \A p : p \in Into(links', Live, m) <=>
           \E k \in Live : \E i \in 1 .. Len(links'[k]) : p = <<k, i>> /\ links'[k][i].node = m
    BY IntoIs
  <2>2. \A p : p \in Into(links, Live, m) <=>
           \E k \in Live : \E i \in 1 .. Len(links[k]) : p = <<k, i>> /\ links[k][i].node = m
    BY IntoIs
  <2>3. last \notin 1 .. Len(links[self]) /\ last \in 1 .. last
        /\ \A i : i \in 1 .. last <=> i \in 1 .. Len(links[self]) \/ i = last
    <3>1. Len(links[self]) \in Nat
      BY <1>6, LenProperties
    <3> QED
      BY <3>1 DEF last
  <2>4. <<self, last>> \notin Into(links, Live, m)
    BY <2>2, <2>3
  <2>5. ASSUME NEW p, p \in Into(links', Live, m)
        PROVE  p \in Into(links, Live, m) \/ (p = <<self, last>> /\ t = m)
    <3>1. PICK k \in Live :
             \E i \in 1 .. Len(links'[k]) : p = <<k, i>> /\ links'[k][i].node = m
      BY <2>1, <2>5
    <3>2. PICK i \in 1 .. Len(links'[k]) : p = <<k, i>> /\ links'[k][i].node = m
      BY <3>1
    <3>3. CASE k = self /\ i = last
      BY <1>7, <3>2, <3>3
    <3>4. CASE k # self
      BY <1>7, <1>9, <2>2, <3>2, <3>4
    <3>5. CASE k = self /\ i # last
      BY <1>7, <2>2, <2>3, <3>2, <3>5
    <3> QED
      BY <3>3, <3>4, <3>5
  <2>6. ASSUME NEW p, p \in Into(links, Live, m)
        PROVE  p \in Into(links', Live, m)
    <3>1. PICK k \in Live :
             \E i \in 1 .. Len(links[k]) : p = <<k, i>> /\ links[k][i].node = m
      BY <2>2, <2>6
    <3>2. PICK i \in 1 .. Len(links[k]) : p = <<k, i>> /\ links[k][i].node = m
      BY <3>1
    <3>3. i \in 1 .. Len(links'[k]) /\ links'[k][i].node = m
      BY <1>7, <1>9, <2>3, <3>2
    <3> QED
      BY <2>1, <3>2, <3>3
  <2>7. t = m => <<self, last>> \in Into(links', Live, m)
    BY <1>1, <1>7, <2>1, <2>3 DEF self
  <2> QED
    BY <2>4, <2>5, <2>6, <2>7
<1>11. Counted(links', refs', heads', drops')
  <2> SUFFICES ASSUME NEW m \in Nodes
               PROVE  /\ IsFiniteSet(Into(links', Live, m))
                      /\ refs'[m] = Times(Tops(heads'), m) + Cardinality(Into(links', Live, m))
                                    + Times(drops', m) + Same(m, Base)
    BY <1>8, <1>9 DEF Counted
  <2> DEFINE a == Times(Tops(heads), m)  b == Times(drops, m)
             c == Cardinality(Into(links, Live, m))  d == Cardinality(Into(links', Live, m))
  <2>1. /\ a \in Nat /\ b \in Nat /\ c \in Nat /\ IsFiniteSet(Into(links, Live, m))
        /\ refs[m] = a + c + b + Same(m, Base)
    BY CountsTyped
  <2>2. IsFiniteSet(Into(links', Live, m)) /\ d = c + Same(t, m)
    <3>1. IsFiniteSet(Into(links, Live, m))
      BY CountsTyped
    <3>2. <<self, last>> \notin Into(links, Live, m)
      BY <1>10
    <3>3. \A p : p \in Into(links', Live, m) <=>
                   p \in Into(links, Live, m) \/ (p = <<self, last>> /\ t = m)
      BY <1>10
    <3> QED
      BY <3>1, <3>2, <3>3, IntoMore
  <2>3. Same(t, m) \in Nat /\ Same(m, Base) \in Nat
    BY DEF Same
  <2>4. refs'[m] = refs[m] + Same(t, m)
    BY <1>8
  <2>5. heads' = heads /\ drops' = drops
    BY <1>5
  <2> HIDE DEF a, b, c, d
  <2>6. refs'[m] = a + d + b + Same(m, Base)
    BY <2>1, <2>2, <2>3, <2>4
  <2> QED
    BY <2>2, <2>5, <2>6 DEF a, b, d
<1>12. RefsExact' /\ LinksFinite'
  BY <1>11, CountedMeansNext DEF IInv
<1>13. Live' = Live
  BY <1>5, <1>8, <1>9 DEF Live, Alive, Nodes
<1>14. WalkSound' /\ Resting'
  BY <1>4, <1>5, <1>13 DEF RInv, WalkSound, Resting, Followed
<1> QED
  BY <1>12, <1>14 DEF RInv

\* The end of a merge leaves the node of the second version to be released.
LEMMA MergeDoneRInv ==
    ASSUME RInv, IInv', calls # <<>>, MergeDone
    PROVE  RInv'
<1> DEFINE v == merged[1]  w == merged[2]  c == weight[heads[v].node].count
           h == [heads[v] EXCEPT !.atError = c]  hs == [heads EXCEPT ![v] = h]
<1>1. drops = <<>> /\ v \in 1 .. Len(heads) /\ w \in 1 .. Len(heads)
  BY DEF RInv, IInv, OneTask, CallsAligned, Versions
<1>2. /\ heads \in Seq(Version) /\ heads[v] \in Version /\ heads[w].node \in Nodes /\ c \in Nat
      /\ heads[w] \in Version
  <2>1. /\ heads \in Seq(Version) /\ heads[v] \in Version /\ heads[w].node \in Nodes
        /\ heads[v].node \in Nodes /\ heads[w] \in Version
    BY <1>1, HeadsTyped DEF RInv, HeadsGood, Versions
  <2>2. weight[heads[v].node] \in Raised
    BY <2>1, GraphTyped DEF RInv, IInv
  <2> QED
    BY <2>1, <2>2 DEF Raised
<1>3. /\ heads' = Without(heads, w) \/ heads' = Without(hs, w)
      /\ drops' = <<heads[w].node>> /\ calls' = <<>>
      /\ UNCHANGED <<node, links, refs, walk>>
  BY DEF MergeDone, graph
<1> HIDE DEF c
<1>4. h \in Version /\ h.node = heads[v].node
  BY <1>2 DEF Version
<1> HIDE DEF h
<1>5. /\ hs \in Seq(Version) /\ Len(hs) = Len(heads) /\ hs[v].node = heads[v].node
      /\ \A j \in 1 .. Len(heads) : j # v => hs[j] = heads[j]
  BY <1>1, <1>2, <1>4, ExceptSeq
<1> HIDE DEF hs
<1>6. hs[w].node = heads[w].node
  BY <1>1, <1>5
<1>7. ASSUME NEW m
      PROVE  Times(Tops(hs), m) = Times(Tops(heads), m)
  BY <1>1, <1>2, <1>5, TimesOfSame
<1>8. ASSUME NEW gs \in Seq(Version), Len(gs) = Len(heads), gs[w].node = heads[w].node, NEW m
      PROVE  Times(Tops(Without(gs, w)), m) = Times(Tops(gs), m) - Same(heads[w].node, m)
  <2>1. w \in 1 .. Len(gs)
    BY <1>1, <1>8
  <2>2. /\ Tops(gs) \in Seq(Nat) /\ w \in 1 .. Len(Tops(gs))
        /\ Tops(gs)[w] = heads[w].node
    BY <1>8, <2>1, TopsTyped
  <2>3. Tops(Without(gs, w)) = Without(Tops(gs), w)
    BY <2>1, TopsWithout
  <2>4. Times(Without(Tops(gs), w), m) = Times(Tops(gs), m) - Same(Tops(gs)[w], m)
    BY <2>2, TimesWithout
  <2> QED
    BY <2>2, <2>3, <2>4
<1>9. ASSUME NEW m
      PROVE  Times(Tops(heads'), m) = Times(Tops(heads), m) - Same(heads[w].node, m)
  <2>1. CASE heads' = Without(heads, w)
    BY <1>2, <1>8, <2>1
  <2>2. CASE heads' = Without(hs, w)
    BY <1>5, <1>6, <1>7, <1>8, <2>2
  <2> QED
    BY <1>3, <2>1, <2>2
<1>10. RefsExact' /\ LinksFinite' /\ Live' = Live
  BY <1>1, <1>2, <1>3, <1>9, LeavingRInv
<1>11. WalkSound' /\ Resting'
  <2>1. Len(calls') = 0
    BY <1>3
  <2> QED
    BY <1>3, <1>10, <2>1 DEF RInv, WalkSound, Resting
<1> QED
  BY <1>10, <1>11 DEF RInv

-----------------------------------------------------------------------------
(* Iterating.                                                              *)

\* The nodes iterators are on are live; and slices are in the order of their versions.
Standing(its, alive) == \A k \in 1 .. Len(its) : its[k].node \in alive
Sorted(ss) == \A i, j \in 1 .. Len(ss) : i < j => ss[i].version <= ss[j].version

\* An iteration starts on the node of a version, without a slice.
LEMMA StartWalkRInv ==
    ASSUME RInv, IInv', NEW op \in Ops4, NEW v \in Versions, NEW goal, StartWalk(op, v, goal)
    PROVE  RInv'
<1> DEFINE it == [node |-> heads[v].node, subs |-> <<>>, count |-> 0, pending |-> TRUE]
<1>1. it.node \in Live
  BY NamedLive
<1>2. walk' = [op |-> op, version |-> v, goal |-> goal, its |-> <<it>>, at |-> 1, size |-> 1,
               slices |-> <<>>, found |-> FALSE, summary |-> <<>>]
  BY DEF StartWalk, NoWalk
<1>3. UNCHANGED <<node, links, refs, heads, calls, drops>>
  BY DEF StartWalk, graph
<1> HIDE DEF it
<1>4. walk'.its = <<it>> /\ walk'.slices = <<>> /\ walk'.op # "none"
  BY <1>2 DEF Ops4
<1>5. RefsExact' /\ LinksFinite' /\ Live' = Live
  BY <1>3, SameLinksCounted
<1>6. WalkSound' /\ Resting'
  <2>1. Len(<<it>>) = 1 /\ <<it>>[1] = it /\ Len(<<>>) = 0
    OBVIOUS
  <2> QED
    BY <1>1, <1>3, <1>4, <1>5, <2>1 DEF RInv, WalkSound, Resting
<1> QED
  BY <1>5, <1>6 DEF RInv

\* A callback leaves iterators where they are, or moves them along a link of the node of
\* the iterator it is called for.
LEMMA IteratorsStand ==
    ASSUME IInv, Walking, NEW alive, Standing(walk.its, alive),
           \A i \in 1 .. Len(links[It.node]) : links[It.node][i].node \in alive
    PROVE  Standing(Iterators, alive)
<1> DEFINE ls == links[It.node]  m == Len(walk.its)
           moved == [walk.its EXCEPT ![walk.at] = Along(It, ls[1])]
<1>1. /\ walk.its \in Seq(Iterator) /\ m \in Nat
      /\ walk.at \in 1 .. m /\ It \in Iterator /\ It.node \in Nodes
      /\ m <= MaxIterators
  BY ItTyped, WalkTyped DEF Walking, ItsGood
<1>2. CASE ShouldStop
  <2>1. /\ Len(Without(walk.its, walk.at)) = m - 1
        /\ \A j \in 1 .. m - 1 : Without(walk.its, walk.at)[j] =
              IF j < walk.at THEN walk.its[j] ELSE walk.its[j + 1]
    BY <1>1, WithoutProperties
  <2>2. ASSUME NEW j \in 1 .. m - 1
        PROVE  Without(walk.its, walk.at)[j].node \in alive
    <3>1. j \in 1 .. m /\ j + 1 \in 1 .. m
      BY <1>1
    <3> QED
      BY <2>1, <3>1 DEF Standing
  <2> QED
    BY <1>2, <2>1, <2>2 DEF Iterators, Standing
<1>3. CASE ~ShouldStop
  <2> DEFINE n == Len(Forks)
  <2>1. ls \in Seq(Link) /\ Len(ls) \in Nat \ {0} /\ \A j \in 1 .. Len(ls) : ls[j] \in Link
    <3>1. ls \in Seq(Link) /\ \A j \in 1 .. Len(ls) : ls[j] \in Link
      BY <1>1, GraphTyped DEF IInv
    <3>2. ls # <<>>
      BY <1>3 DEF ShouldStop
    <3> QED
      BY <3>1, <3>2, LenProperties, EmptySeq
  <2>2. \A j \in 1 .. Len(ls) : Along(It, ls[j]) \in Iterator /\ Along(It, ls[j]).node \in alive
    BY <1>1, <2>1, AlongTyped
  <2>3. /\ moved \in Seq(Iterator) /\ Len(moved) = m
        /\ \A k \in 1 .. m : moved[k].node \in alive
    <3>1. Along(It, ls[1]) \in Iterator /\ Along(It, ls[1]).node \in alive
      BY <2>1, <2>2
    <3> QED
      BY <1>1, <3>1, ExceptSeq DEF Standing
  <2>4. Forks \in Seq(Iterator) /\ n \in Nat /\ \A k \in 1 .. n : Forks[k].node \in alive
    <3> DEFINE room == MaxIterators - m
               c == IF Len(ls) - 1 <= room THEN Len(ls) - 1 ELSE room
    <3>1. room \in Nat
      BY <1>1, BoundsAssumption
    <3>2. c \in Nat /\ c <= Len(ls) - 1
      <4> HIDE DEF room, ls
      <4> QED
        BY <2>1, <3>1
    <3>3. Forks = [j \in 1 .. c |-> Along(It, ls[j + 1])]
      BY DEF Forks
    <3> HIDE DEF c
    <3>4. \A j \in 1 .. c : j + 1 \in 1 .. Len(ls)
      BY <2>1, <3>2
    <3>5. \A j \in 1 .. c : Along(It, ls[j + 1]) \in Iterator
      BY <2>2, <3>4
    <3>6. [j \in 1 .. c |-> Along(It, ls[j + 1])] \in Seq(Iterator)
      BY <3>2, <3>5, IsASeq
    <3> QED
      BY <2>2, <3>2, <3>3, <3>4, <3>6
  <2>5. Iterators = moved \o Forks
    BY <1>3 DEF Iterators
  <2> HIDE DEF moved, n, m
  <2>6. /\ Len(moved \o Forks) = m + n
        /\ \A k \in 1 .. m + n : (moved \o Forks)[k] =
              IF k <= m THEN moved[k] ELSE Forks[k - m]
    BY <2>3, <2>4, ConcatProperties DEF n
  <2>7. ASSUME NEW k \in 1 .. m + n
        PROVE  (moved \o Forks)[k].node \in alive
    <3>1. CASE k <= m
      BY <1>1, <2>3, <2>4, <2>6, <3>1
    <3>2. CASE k > m
      <4>1. k - m \in 1 .. n /\ (moved \o Forks)[k] = Forks[k - m]
        BY <1>1, <2>4, <2>6, <3>2
      <4> QED
        BY <2>4, <4>1
    <3>3. k <= m \/ k > m
      BY <1>1, <2>4
    <3> QED
      BY <3>1, <3>2, <3>3
  <2> QED
    BY <2>5, <2>6, <2>7 DEF Standing
<1> QED
  BY <1>2, <1>3

\* A callback, once what it adds is counted and its slices are in order.
LEMMA MovedRInv ==
    ASSUME RInv, IInv', Walking, NEW slices, Moved(slices), Sorted(slices), UNCHANGED calls,
           RefsExact', LinksFinite', Live' = Live
    PROVE  RInv'
<1>1. Standing(walk.its, Live)
  BY DEF RInv, WalkSound, Standing
<1>2. It.node \in Live
  BY <1>1, ItTyped DEF RInv, Standing, It
<1>3. \A i \in 1 .. Len(links[It.node]) : links[It.node][i].node \in Live
  BY <1>2, NamedLive
<1>4. Standing(Iterators, Live)
  BY <1>1, <1>3, IteratorsStand DEF RInv
<1>5. walk'.its = Iterators /\ walk'.slices = slices /\ walk'.op = walk.op
  <2> DEFINE last == IF ShouldStop THEN walk.size - 1 ELSE walk.size
             next == IF ShouldStop THEN walk.at ELSE walk.at + 1
             found == walk.found \/ (walk.op = "error" /\ ErrorFirst)
             at == IF next > last THEN 1 ELSE next
             size == IF next > last THEN Len(Iterators) ELSE last
  <2>1. walk \in Walk
    BY DEF RInv, IInv, TypeOK
  <2>2. walk' = [walk EXCEPT !.its = Iterators, !.slices = slices, !.summary = Summary,
                             !.found = found, !.at = at, !.size = size]
    BY DEF Moved
  <2> HIDE DEF found, at, size
  <2> QED
    BY <2>1, <2>2 DEF Walk
<1>6. WalkSound' /\ Resting'
  <2>1. walk.op # "none"
    BY DEF Walking
  <2> QED
    BY <1>4, <1>5, <2>1 DEF RInv, WalkSound, Resting, Standing, Sorted
<1> QED
  BY <1>6 DEF RInv

\* A callback that pops nothing.
LEMMA StepOverRInv ==
    ASSUME RInv, IInv', StepOver
    PROVE  RInv'
<1>1. UNCHANGED <<node, links, refs, heads, drops, calls>>
  BY DEF StepOver, graph
<1>2. RefsExact' /\ LinksFinite' /\ Live' = Live
  BY <1>1, SameLinksCounted
<1>3. Walking /\ Moved(walk.slices) /\ Sorted(walk.slices)
  BY DEF StepOver, RInv, WalkSound, Sorted
<1> QED
  BY <1>1, <1>2, <1>3, MovedRInv

\* stackAddSlice retains the node it puts a version on; that version comes after all others.
LEMMA PopToNewRInv ==
    ASSUME RInv, IInv', PopToNew
    PROVE  RInv'
<1> DEFINE h == NewHead(It.node, heads[walk.version])  ss == walk.slices
           s == [version |-> Len(heads) + 1, subs |-> Backwards(It.subs)]
           slices == Append(ss, s)
<1>1. /\ Walking /\ walk.version \in Versions /\ SlicesGood(ss, Len(heads))
      /\ It \in Iterator /\ walk.at \in 1 .. Len(walk.its) /\ Len(heads) \in Nat
  BY WalkTyped, ItTyped, HeadsTyped DEF PopToNew, Walking, RInv
<1>2. It.node \in Live
  BY <1>1 DEF RInv, WalkSound, It
<1>3. h \in Version /\ h.node = It.node
  <2>1. heads[walk.version] \in Version /\ It.node \in Nat /\ <<>> \in Seq(Entry)
    BY <1>1, HeadsTyped DEF RInv, Iterator
  <2> QED
    BY <2>1 DEF NewHead, Version
<1>4. UNCHANGED <<links, drops, calls>> /\ heads' = Append(heads, h) /\ Moved(slices)
  BY DEF PopToNew, graph
<1>5. refs' = [refs EXCEPT ![It.node] = @ + 1]
  BY DEF PopToNew
<1> HIDE DEF h
<1>6. RefsExact' /\ LinksFinite' /\ Live' = Live
  BY <1>2, <1>3, <1>4, <1>5, MoreHeadRInv
<1>7. Sorted(slices)
  <2>1. s.version = Len(heads) + 1 /\ s \in [version : Nat, subs : {Backwards(It.subs)}]
    BY <1>1
  <2>2. ss \in Seq(Slice) /\ Len(ss) \in Nat
        /\ \A k \in 1 .. Len(ss) : ss[k].version \in 1 .. Len(heads)
    BY <1>1, LenProperties DEF SlicesGood
  <2>3. s \in Slice
    <3>1. Backwards(It.subs) \in Seq(Subtree)
      BY <1>1, BackwardsTyped DEF Iterator
    <3> QED
      BY <1>1, <3>1 DEF Slice
  <2>4. \A i, j \in 1 .. Len(ss) : i < j => ss[i].version <= ss[j].version
    BY DEF RInv, WalkSound
  <2> HIDE DEF s, ss
  <2>5. /\ Len(slices) = Len(ss) + 1 /\ slices[Len(ss) + 1] = s
        /\ \A k \in 1 .. Len(ss) : slices[k] = ss[k]
    BY <2>2, <2>3, AppendProperties
  <2> HIDE DEF slices
  <2>6. ASSUME NEW i \in 1 .. Len(ss) + 1, NEW j \in 1 .. Len(ss) + 1, i < j
        PROVE  slices[i].version <= slices[j].version
    <3>1. i \in 1 .. Len(ss)
      BY <2>2, <2>6
    <3>2. CASE j \in 1 .. Len(ss)
      BY <2>4, <2>5, <2>6, <3>1, <3>2
    <3>3. CASE j = Len(ss) + 1
      <4>1. slices[i].version \in 1 .. Len(heads) /\ slices[j].version = Len(heads) + 1
        BY <2>1, <2>2, <2>5, <3>1, <3>3
      <4> QED
        BY <1>1, <4>1
    <3> QED
      BY <2>2, <3>2, <3>3
  <2> QED
    BY <2>5, <2>6 DEF Sorted
<1> HIDE DEF slices
<1> QED
  BY <1>1, <1>4, <1>6, <1>7, MovedRInv

\* A slice that joins those of a version comes right behind the last of them.
LEMMA PopToSameRInv ==
    ASSUME RInv, IInv', NEW i \in 1 .. Len(walk.slices), PopToSame(i)
    PROVE  RInv'
<1> DEFINE ss == walk.slices
           s == [version |-> ss[i].version, subs |-> Backwards(It.subs)]
           a == SubSeq(ss, 1, i)  b == SubSeq(ss, i + 1, Len(ss))
           slices == a \o <<s>> \o b
<1>1. /\ Walking /\ SlicesGood(ss, Len(heads)) /\ Moved(slices)
      /\ UNCHANGED <<node, links, refs, heads, drops, calls>>
  BY WalkTyped DEF PopToSame, Walking, RInv, graph
<1>2. RefsExact' /\ LinksFinite' /\ Live' = Live
  BY <1>1, SameLinksCounted
<1>3. /\ ss \in Seq(Slice) /\ Len(ss) \in Nat /\ i \in 1 .. Len(ss)
      /\ \A k \in 1 .. Len(ss) : ss[k] \in Slice /\ ss[k].version \in 1 .. Len(heads)
      /\ \A j, k \in 1 .. Len(ss) : j < k => ss[j].version <= ss[k].version
  BY <1>1, LenProperties, ElementOfSeq DEF SlicesGood, RInv, WalkSound
<1>4. s.version = ss[i].version /\ s \in Slice
  <2>1. It \in Iterator
    BY <1>1, ItTyped DEF RInv
  <2>2. Backwards(It.subs) \in Seq(Subtree)
    BY <2>1, BackwardsTyped DEF Iterator
  <2>3. ss[i].version \in Nat
    BY <1>3
  <2> HIDE DEF ss
  <2> QED
    BY <2>2, <2>3 DEF Slice
<1> HIDE DEF s, ss
<1>5. /\ a \in Seq(Slice) /\ Len(a) = i /\ \A k \in 1 .. i : a[k] = ss[k]
      /\ b \in Seq(Slice) /\ Len(b) = Len(ss) - i
      /\ \A k \in 1 .. Len(ss) - i : b[k] = ss[i + k]
  <2>1. \A k \in 1 .. i : ss[k] \in Slice
    BY <1>3
  <2>2. \A k \in i + 1 .. Len(ss) : ss[k] \in Slice
    BY <1>3
  <2>3. 1 \in Int /\ i \in Int /\ i + 1 \in Int /\ Len(ss) \in Int
    BY <1>3
  <2>4. a \in Seq(Slice) /\ Len(a) = (IF 1 <= i THEN i - 1 + 1 ELSE 0)
        /\ \A k \in 1 .. i - 1 + 1 : a[k] = ss[1 + k - 1]
    BY <2>1, <2>3, SubSeqProperties
  <2>5. b \in Seq(Slice)
        /\ Len(b) = (IF i + 1 <= Len(ss) THEN Len(ss) - (i + 1) + 1 ELSE 0)
        /\ \A k \in 1 .. Len(ss) - (i + 1) + 1 : b[k] = ss[(i + 1) + k - 1]
    BY <2>2, <2>3, SubSeqProperties
  <2> HIDE DEF a, b
  <2>6. Len(a) = i /\ \A k \in 1 .. i : a[k] = ss[k]
    <3>1. \A k \in 1 .. i : k \in 1 .. i - 1 + 1 /\ 1 + k - 1 = k
      BY <1>3
    <3>2. 1 <= i /\ i - 1 + 1 = i
      BY <1>3
    <3> QED
      BY <2>4, <3>1, <3>2
  <2>7. Len(b) = Len(ss) - i /\ \A k \in 1 .. Len(ss) - i : b[k] = ss[i + k]
    <3>1. \A k \in 1 .. Len(ss) - i :
             k \in 1 .. Len(ss) - (i + 1) + 1 /\ (i + 1) + k - 1 = i + k
      BY <1>3
    <3>2. (IF i + 1 <= Len(ss) THEN Len(ss) - (i + 1) + 1 ELSE 0) = Len(ss) - i
      BY <1>3
    <3> QED
      BY <2>5, <3>1, <3>2
  <2> QED
    BY <2>4, <2>5, <2>6, <2>7
<1> HIDE DEF a, b
<1> DEFINE g(k) == IF k <= i THEN k ELSE k - 1
<1>6. /\ Len(slices) = Len(ss) + 1
      /\ \A k \in 1 .. Len(ss) + 1 : slices[k].version = ss[g(k)].version
  <2> DEFINE c == a \o <<s>>
  <2>1. c \in Seq(Slice) /\ Len(c) = i + 1 /\ c[i + 1] = s /\ \A k \in 1 .. i : c[k] = ss[k]
    <3>1. /\ a \o <<s>> \in Seq(Slice) /\ Len(a \o <<s>>) = Len(a) + Len(<<s>>)
          /\ \A k \in 1 .. Len(a) + Len(<<s>>) : (a \o <<s>>)[k] =
                IF k <= Len(a) THEN a[k] ELSE <<s>>[k - Len(a)]
      BY <1>4, <1>5, ConcatProperties
    <3>2. Len(<<s>>) = 1 /\ <<s>>[1] = s /\ i + 1 - i = 1 /\ i \in Nat
      BY <1>3
    <3> QED
      BY <1>5, <3>1, <3>2
  <2> HIDE DEF c
  <2>2. /\ Len(c \o b) = Len(c) + Len(b)
        /\ \A k \in 1 .. Len(c) + Len(b) : (c \o b)[k] =
              IF k <= Len(c) THEN c[k] ELSE b[k - Len(c)]
    BY <1>5, <2>1, ConcatProperties
  <2>3. Len(c) + Len(b) = Len(ss) + 1
    BY <1>3, <1>5, <2>1
  <2>5. slices = c \o b
    BY DEF c
  <2>4. ASSUME NEW k \in 1 .. Len(ss) + 1
        PROVE  (c \o b)[k].version = ss[g(k)].version
    <3>1. CASE k <= i
      BY <1>3, <2>1, <2>2, <2>3, <3>1
    <3>2. CASE k = i + 1
      BY <1>3, <1>4, <2>1, <2>2, <2>3, <3>2
    <3>3. CASE k > i + 1
      <4>1. k - (i + 1) \in 1 .. Len(ss) - i /\ i + (k - (i + 1)) = k - 1
        BY <1>3, <3>3
      <4>2. (c \o b)[k] = b[k - (i + 1)]
        BY <1>3, <2>1, <2>2, <2>3, <3>3
      <4>3. (c \o b)[k] = ss[k - 1]
        BY <1>5, <4>1, <4>2
      <4>4. g(k) = k - 1
        BY <1>3, <3>3
      <4> QED
        BY <4>3, <4>4
    <3>4. k <= i \/ k = i + 1 \/ k > i + 1
      BY <1>3
    <3> QED
      BY <3>1, <3>2, <3>3, <3>4
  <2> QED
    BY <2>2, <2>3, <2>4, <2>5
<1>7. Sorted(slices)
  <2> HIDE DEF slices
  <2>1. ASSUME NEW j \in 1 .. Len(ss) + 1, NEW k \in 1 .. Len(ss) + 1, j < k
        PROVE  slices[j].version <= slices[k].version
    <3>1. g(j) \in 1 .. Len(ss) /\ g(k) \in 1 .. Len(ss) /\ g(j) <= g(k)
      BY <1>3, <2>1
    <3>2. /\ slices[j].version = ss[g(j)].version /\ slices[k].version = ss[g(k)].version
      BY <1>6
    <3> HIDE DEF g
    <3>3. g(j) < g(k) \/ g(j) = g(k)
      BY <3>1
    <3>4. ss[g(j)].version <= ss[g(k)].version
      <4>1. ss[g(k)].version \in Nat
        BY <1>3, <3>1
      <4> QED
        BY <1>3, <3>1, <3>3, <4>1
    <3> QED
      BY <3>2, <3>4
  <2> QED
    BY <1>6, <2>1 DEF Sorted
<1>8. Moved(slices)
  BY <1>1
<1> HIDE DEF slices
<1> QED
  BY <1>1, <1>2, <1>7, <1>8, MovedRInv

\* The end of an iteration: a version that is renumbered over leaves its node to be released.
LEMMA ReturnsRInv ==
    ASSUME RInv, IInv', ReturnSlices \/ ReturnRenumbered \/ KeepSummary
    PROVE  RInv'
<1>1. /\ walk.op # "none" /\ walk' = NoWalk /\ UNCHANGED <<node, links, refs, calls>>
  BY DEF ReturnSlices, ReturnRenumbered, KeepSummary, WalkOver, graph
<1>2. /\ walk.version \in Versions /\ SlicesGood(walk.slices, Len(heads)) /\ drops = <<>>
      /\ walk.summary \in Seq(Entry) /\ heads[walk.version] \in Version
      /\ heads[walk.version].node \in Nodes /\ heads \in Seq(Version)
  BY <1>1, WalkTyped, HeadsTyped DEF RInv, HeadsGood
<1>3. RefsExact' /\ LinksFinite' /\ Live' = Live
  <2>1. CASE ReturnSlices
    BY <1>1, <2>1, SameLinksCounted DEF ReturnSlices
  <2>2. CASE ReturnRenumbered
    <3> DEFINE v == walk.slices[1].version  w == walk.version
    <3>1. v \in 1 .. Len(heads) /\ w \in 1 .. Len(heads)
      <4>1. Len(walk.slices) \in Nat \ {0}
        BY <1>2, <2>2, LenProperties, EmptySeq DEF ReturnRenumbered, SlicesGood
      <4> QED
        BY <1>2, <4>1 DEF SlicesGood, Versions
    <3>2. heads' = Renumbered(heads, v, w) /\ drops' = <<heads[w].node>>
      BY <2>2 DEF ReturnRenumbered
    <3> HIDE DEF v, w
    <3>3. \A m : Times(Tops(heads'), m) = Times(Tops(heads), m) - Same(heads[w].node, m)
      BY <1>2, <3>1, <3>2, TimesRenumbered
    <3> QED
      BY <1>1, <1>2, <3>2, <3>3, LeavingRInv DEF w
  <2>3. CASE KeepSummary
    <3> DEFINE h == [heads[walk.version] EXCEPT !.summary = walk.summary]
    <3>1. h \in Version /\ h.node = heads[walk.version].node
      BY <1>2 DEF Version
    <3>2. heads' = [heads EXCEPT ![walk.version] = h] /\ UNCHANGED drops
      BY <2>3 DEF KeepSummary
    <3> HIDE DEF h
    <3> QED
      BY <1>1, <1>2, <3>1, <3>2, FieldsRInv
  <2> QED
    BY <2>1, <2>2, <2>3
<1>4. WalkSound' /\ Resting'
  <2>1. walk'.its = <<>> /\ walk'.slices = <<>> /\ Len(<<>>) = 0
    BY <1>1 DEF NoWalk
  <2> QED
    BY <1>1, <1>3, <2>1 DEF RInv, WalkSound, Resting
<1> QED
  BY <1>3, <1>4 DEF RInv

-----------------------------------------------------------------------------
(* Every step keeps RInv.                                                  *)

\* The steps of an operation that is running,
LEMMA RunningRInv == RInv /\ Running => RInv'
<1> SUFFICES ASSUME RInv, Running PROVE RInv'
  OBVIOUS
<1>1. IInv'
  BY RunningIInv DEF RInv
<1>2. CASE ReleaseStep
  BY <1>1, <1>2, ReleaseRInv
<1>3. CASE MergeStep
  <2>1. calls # <<>>
    BY <1>3 DEF MergeStep
  <2>2. ASSUME NEW i \in 1 .. Len(links[Top.self]), LinkToSameNode(i) \/ LinkToLikeNode(i)
        PROVE  RInv'
    BY <1>1, <2>1, <2>2, LinkToSameNodeRInv, LinkToLikeNodeRInv
  <2>3. CASE LinkToSelf \/ LikeNodeDone
    BY <1>1, <2>1, <2>3, PassingRInv
  <2>4. CASE LinkAdded
    BY <1>1, <2>1, <2>4, LinkAddedRInv
  <2>5. CASE MergeDone
    BY <1>1, <2>1, <2>5, MergeDoneRInv
  <2> QED
    BY <1>3, <2>2, <2>3, <2>4, <2>5 DEF MergeStep
<1>4. CASE WalkStep
  BY <1>1, <1>4, StepOverRInv, PopToNewRInv, PopToSameRInv, ReturnsRInv DEF WalkStep
<1> QED
  BY <1>2, <1>3, <1>4 DEF Running

\* the calls that start an iteration,
LEMMA WalksRInv ==
    ASSUME RInv, IInv', NEW v \in Versions,
           \/ \E n \in 0 .. MaxPop : PopCount(v, n)
           \/ PopPending(v) \/ PopError(v) \/ PopAll(v) \/ RecordSummary(v)
    PROVE  RInv'
<1>1. \E op \in Ops4 : \E goal : StartWalk(op, v, goal)
  BY DEF PopCount, PopPending, PopError, PopAll, RecordSummary, Ops4
<1> QED
  BY <1>1, StartWalkRInv

\* and all other calls.
LEMMA CallRInv == RInv /\ Call => RInv'
<1> SUFFICES ASSUME RInv, Call PROVE RInv'
  OBVIOUS
<1>1. IInv'
  BY CallIInv DEF RInv
<1>2. CASE Clear
  BY <1>1, <1>2, ClearRInv
<1>3. ASSUME NEW v \in Versions,
             \E t \in Trees, s \in State :
                Push(v, t, FALSE, s) \/ (Inner(t) /\ Push(v, t, TRUE, s))
      PROVE  RInv'
  BY <1>1, <1>3, PushRInv
<1>4. ASSUME NEW v \in Versions, RemoveVersion(v) \/ CopyVersion(v) PROVE RInv'
  BY <1>1, <1>4, RemoveRInv, CopyRInv
<1>5. ASSUME NEW v \in Versions, NEW w \in Versions,
             RenumberVersion(v, w) \/ SwapVersions(v, w) \/ Merge(v, w)
      PROVE  RInv'
  BY <1>1, <1>5, RemoveRInv, SwapRInv, MergeRInv
<1>6. ASSUME NEW v \in Versions,
             \/ Halt(v) \/ Pause(v) \/ Resume(v) \/ NodeCountSinceError(v)
             \/ \E t \in Token : SetLastExternalToken(v, t)
      PROVE  RInv'
  BY <1>1, <1>6, SettersRInv
<1>7. ASSUME NEW v \in Versions,
             \/ \E n \in 0 .. MaxPop : PopCount(v, n)
             \/ PopPending(v) \/ PopError(v) \/ PopAll(v) \/ RecordSummary(v)
      PROVE  RInv'
  BY <1>1, <1>7, WalksRInv
<1> QED
  BY <1>2, <1>3, <1>4, <1>5, <1>6, <1>7 DEF Call

\* RInv is inductive, and so always true.
THEOREM RefInvariant == Spec => []RInv
<1>1. ASSUME RInv, UNCHANGED vars PROVE RInv'
  <2>1. UNCHANGED <<node, links, weight, refs, heads, calls, merged, drops, walk>>
    BY <1>1 DEF vars
  <2>2. IInv'
    BY <1>1, <2>1 DEF RInv, IInv, TypeOK, LinkSums, Descends, HeadsPlaced, OneTask,
       CallsAligned, DropsPlaced, WalkPlaced, Nodes, Versions, Bytes, Cost, ZeroWidthRanked,
       Under
  <2>3. RefsExact' /\ LinksFinite' /\ Live' = Live
    BY <1>1, <2>1, <2>2, SameLinksCounted
  <2> QED
    BY <1>1, <2>1, <2>2, <2>3, StillSound DEF RInv
<1>2. RInv /\ [Next]_vars => RInv'
  BY <1>1, RunningRInv, CallRInv DEF Next
<1> QED
  BY InitRInv, <1>2, PTL DEF Spec

\* A node's count is exactly the references there are to it, in versions, in links of live
\* nodes and in releases under way: no pop, merge, renumbering or clear leaks a node or lets
\* one go that a version can still reach.
THEOREM RefsExactAlways == Spec => []RefsExact
<1>1. RInv => RefsExact
  BY DEF RInv
<1> QED
  BY <1>1, RefInvariant, PTL

\* The nodes a running merge or iteration points to are live, and the slices it has found
\* are in the order of their versions.
THEOREM WalkSoundAlways == Spec => []WalkSound
<1>1. RInv => WalkSound
  BY DEF RInv
<1> QED
  BY <1>1, RefInvariant, PTL

\* No version is ever on a node that was let go, and no link of a live node leads to one.
THEOREM NothingDangles ==
    Spec => [](/\ \A v \in Versions : heads[v].node \in Live
               /\ \A n \in Live : \A i \in 1 .. Len(links[n]) : links[n][i].node \in Live)
<1>1. RInv => /\ \A v \in Versions : heads[v].node \in Live
              /\ \A n \in Live : \A i \in 1 .. Len(links[n]) : links[n][i].node \in Live
  BY NamedLive
<1> QED
  BY <1>1, RefInvariant, PTL
=============================================================================
