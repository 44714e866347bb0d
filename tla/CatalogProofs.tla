--------------------------- MODULE CatalogProofs ---------------------------
(***************************************************************************)
(* Theorems about Catalog, for any connections, names, passwords, videos   *)
(* and bounds: every variable keeps its type; an account belongs to the    *)
(* first registration of its name for ever; a recommendation shows no      *)
(* video twice, fills its slots and brings fresh videos first; the play    *)
(* counters of a video do not drift from its log.                          *)
(***************************************************************************)
EXTENDS Catalog, FunctionTheorems, FiniteSetTheorems, WellFoundedInduction, TLAPS

-----------------------------------------------------------------------------
(* Sequences and the places in them.                                       *)

(* A nonempty set of naturals has a least element.                         *)
LEMMA Least ==
  ASSUME NEW S, S \subseteq Nat, S # {}
  PROVE  \E k \in S : \A j \in S : k <= j
  <1>1. \E k \in S : \A j \in S : ~(<<j, k>> \in OpToRel(<, Nat))
    BY NatLessThanWellFounded, WFMin, Zenon
  <1>2. PICK k \in S : \A j \in S : ~(<<j, k>> \in OpToRel(<, Nat))
    BY <1>1
  <1>3. ASSUME NEW j \in S PROVE k <= j
    <2>1. j \in Nat /\ k \in Nat /\ ~(j < k)
      BY <1>2, <1>3 DEF OpToRel
    <2>2. QED
      BY <2>1
  <1>4. QED
    BY <1>3

Below(I, i) == {j \in I : j <= i}

(* The rank of a place among the places I tells the places apart.          *)
LEMMA RankGrows ==
  ASSUME NEW I, I \subseteq Nat, IsFiniteSet(I), NEW i \in I
  PROVE  /\ Cardinality(Below(I, i)) \in 1 .. Cardinality(I)
         /\ \A j \in I : j < i => Cardinality(Below(I, j)) < Cardinality(Below(I, i))
  <1>1. Below(I, i) \subseteq I /\ i \in Below(I, i)
    BY DEF Below
  <1>2. /\ IsFiniteSet(Below(I, i)) /\ Cardinality(Below(I, i)) <= Cardinality(I)
        /\ Cardinality(Below(I, i)) \in Nat /\ Cardinality(I) \in Nat
    BY <1>1, FS_Subset, FS_CardinalityType
  <1>3. Cardinality(Below(I, i)) # 0
    BY <1>1, <1>2, FS_EmptySet
  <1>4. ASSUME NEW j \in I, j < i
        PROVE  Cardinality(Below(I, j)) < Cardinality(Below(I, i))
    <2>1. Below(I, j) \subseteq Below(I, i) /\ i \notin Below(I, j)
      <3>1. i \in Nat /\ j \in Nat /\ \A k \in I : k \in Nat
        BY <1>4
      <3>2. ASSUME NEW k \in Below(I, j) PROVE k \in Below(I, i)
        <4>1. k \in I /\ k <= j /\ j < i
          BY <1>4 DEF Below
        <4>2. k <= i
          BY <3>1, <4>1
        <4>3. QED
          BY <4>1, <4>2 DEF Below
      <3>3. i \notin Below(I, j)
        <4>1. ~(i <= j)
          BY <1>4, <3>1
        <4>2. QED
          BY <4>1 DEF Below
      <3>4. QED
        BY <3>2, <3>3
    <2>2. IsFiniteSet(Below(I, j)) /\ Cardinality(Below(I, j)) <= Cardinality(Below(I, i))
          /\ Cardinality(Below(I, j)) # Cardinality(Below(I, i))
      BY <1>1, <1>2, <2>1, FS_Subset
    <2>3. Cardinality(Below(I, j)) \in Nat
      BY <2>2, FS_CardinalityType
    <2>4. QED
      BY <1>2, <2>2, <2>3
  <1>5. QED
    BY <1>2, <1>3, <1>4

(* Nth enumerates a finite set of places, each once.                       *)
LEMMA NthEnumerates ==
  ASSUME NEW I, I \subseteq Nat, IsFiniteSet(I)
  PROVE  /\ Cardinality(I) \in Nat
         /\ \A k \in 1 .. Cardinality(I) : Nth(I, k) \in I
         /\ \A k, l \in 1 .. Cardinality(I) : Nth(I, k) = Nth(I, l) => k = l
         /\ \A i \in I : \E k \in 1 .. Cardinality(I) : Nth(I, k) = i
  <1> DEFINE m == Cardinality(I)
             rank == [i \in I |-> Cardinality(Below(I, i))]
  <1>1. m \in Nat
    BY FS_CardinalityType
  <1>2. rank \in [I -> 1 .. m]
    BY RankGrows
  <1>3. ASSUME NEW i \in I, NEW j \in I, rank[i] = rank[j] PROVE i = j
    <2>1. ~(i < j) /\ ~(j < i)
      <3>1. rank[i] \in Nat /\ rank[j] \in Nat
        BY <1>1, <1>2
      <3>2. i < j => rank[i] < rank[j]
        BY RankGrows
      <3>3. j < i => rank[j] < rank[i]
        BY RankGrows
      <3>4. QED
        BY <1>3, <3>1, <3>2, <3>3
    <2>2. QED
      BY <2>1
  <1>4. rank \in Injection(I, 1 .. m)
    BY <1>2, <1>3, Fun_IsInj
  <1>5. IsFiniteSet(1 .. m) /\ Cardinality(1 .. m) = m
    BY <1>1, FS_Interval
  <1>6. rank \in Surjection(I, 1 .. m)
    BY <1>4, <1>5, FS_Injection
  <1>7. ASSUME NEW k \in 1 .. m PROVE Nth(I, k) \in I /\ rank[Nth(I, k)] = k
    <2>1. \E i \in I : rank[i] = k
      BY <1>6 DEF Surjection
    <2>2. \E i \in I : Cardinality({j \in I : j <= i}) = k
      BY <2>1 DEF Below
    <2>3. Nth(I, k) \in I /\ Cardinality({j \in I : j <= Nth(I, k)}) = k
      BY <2>2 DEF Nth
    <2>4. QED
      BY <2>3 DEF Below
  <1>8. ASSUME NEW i \in I PROVE rank[i] \in 1 .. m /\ Nth(I, rank[i]) = i
    BY <1>2, <1>3, <1>7
  <1>9. QED
    BY <1>1, <1>7, <1>8

(* The places of a sequence are finitely many numbers.                     *)
LEMMA PlacesFinite ==
  ASSUME NEW V, NEW s \in Seq(V), NEW I, I \subseteq DOMAIN s
  PROVE  /\ IsFiniteSet(I) /\ I \subseteq Nat /\ Cardinality(I) \in Nat /\ Cardinality(I) <= Len(s)
  <1>1. DOMAIN s = 1 .. Len(s) /\ Len(s) \in Nat
    OBVIOUS
  <1>2. IsFiniteSet(1 .. Len(s)) /\ Cardinality(1 .. Len(s)) = Len(s)
    <2>1. /\ IsFiniteSet(1 .. Len(s))
          /\ Cardinality(1 .. Len(s)) = IF 1 > Len(s) THEN 0 ELSE Len(s) - 1 + 1
      BY <1>1, FS_Interval
    <2>2. QED
      BY <1>1, <2>1
  <1>3. IsFiniteSet(I) /\ Cardinality(I) <= Len(s)
    BY <1>1, <1>2, FS_Subset
  <1>4. QED
    BY <1>1, <1>3, FS_CardinalityType

EntriesAt(s, I) == {s[i] : i \in I}

(* The chosen entries are those at the places.                             *)
LEMMA ChosenIs ==
  ASSUME NEW V, NEW s \in Seq(V), NEW I, I \subseteq DOMAIN s
  PROVE  /\ Chosen(s, I) \in Seq(V) /\ Len(Chosen(s, I)) = Cardinality(I)
         /\ ToSet(Chosen(s, I)) = EntriesAt(s, I)
  <1> DEFINE m == Cardinality(I)
             t == Chosen(s, I)
  <1>1. IsFiniteSet(I) /\ I \subseteq Nat /\ m \in Nat
    BY PlacesFinite
  <1>2. /\ \A k \in 1 .. m : Nth(I, k) \in I
        /\ \A i \in I : \E k \in 1 .. m : Nth(I, k) = i
    BY <1>1, NthEnumerates
  <1>3. DOMAIN t = 1 .. m /\ \A k \in 1 .. m : t[k] = s[Nth(I, k)]
    BY DEF Chosen
  <1>4. \A i \in I : s[i] \in V
    OBVIOUS
  <1>5. \A k \in 1 .. m : t[k] \in V
    BY <1>2, <1>3, <1>4
  <1>6. t = [k \in 1 .. m |-> t[k]]
    BY DEF Chosen
  <1>7. t \in [1 .. m -> V]
    BY <1>5, <1>6
  <1>8. t \in Seq(V) /\ Len(t) = m
    BY <1>1, <1>7
  <1>9. ToSet(t) \subseteq EntriesAt(s, I)
    BY <1>2, <1>3 DEF ToSet, EntriesAt
  <1>10. EntriesAt(s, I) \subseteq ToSet(t)
    BY <1>2, <1>3 DEF ToSet, EntriesAt
  <1>11. QED
    BY <1>8, <1>9, <1>10

(* A sequence's set of entries is the entries at all its places.           *)
LEMMA WholeSet ==
  ASSUME NEW V, NEW s \in Seq(V)
  PROVE  /\ ToSet(s) = EntriesAt(s, DOMAIN s) /\ ToSet(s) \subseteq V
         /\ Cardinality(DOMAIN s) = Len(s) /\ Len(s) \in Nat
  <1>1. DOMAIN s = 1 .. Len(s) /\ Len(s) \in Nat /\ \A i \in DOMAIN s : s[i] \in V
    OBVIOUS
  <1>2. /\ IsFiniteSet(1 .. Len(s))
        /\ Cardinality(1 .. Len(s)) = IF 1 > Len(s) THEN 0 ELSE Len(s) - 1 + 1
    BY <1>1, FS_Interval
  <1>3. Cardinality(1 .. Len(s)) = Len(s)
    BY <1>1, <1>2
  <1>4. QED
    BY <1>1, <1>3 DEF ToSet, EntriesAt

(* Entries number at most their places, and as many when they differ.      *)
LEMMA EntriesCount ==
  ASSUME NEW V, NEW s \in Seq(V), NEW I, I \subseteq DOMAIN s
  PROVE  /\ IsFiniteSet(EntriesAt(s, I)) /\ Cardinality(EntriesAt(s, I)) \in Nat
         /\ Cardinality(EntriesAt(s, I)) <= Cardinality(I)
         /\ (\A i, j \in I : s[i] = s[j] => i = j) => Cardinality(EntriesAt(s, I)) = Cardinality(I)
  <1> DEFINE f == [i \in I |-> s[i]]
  <1>1. IsFiniteSet(I)
    BY PlacesFinite
  <1>2. f \in [I -> EntriesAt(s, I)] /\ \A v \in EntriesAt(s, I) : \E i \in I : f[i] = v
    BY DEF EntriesAt
  <1>3. f \in Surjection(I, EntriesAt(s, I))
    BY <1>2, Fun_IsSurj
  <1>4. /\ IsFiniteSet(EntriesAt(s, I)) /\ Cardinality(EntriesAt(s, I)) <= Cardinality(I)
        /\ Cardinality(EntriesAt(s, I)) = Cardinality(I) <=> f \in Injection(I, EntriesAt(s, I))
    BY <1>1, <1>3, FS_Surjection
  <1>5. (\A i, j \in I : s[i] = s[j] => i = j) => f \in Injection(I, EntriesAt(s, I))
    <2>1. SUFFICES ASSUME \A i, j \in I : s[i] = s[j] => i = j
                   PROVE  f \in Injection(I, EntriesAt(s, I))
      OBVIOUS
    <2>2. \A i, j \in I : f[i] = f[j] => i = j
      BY <2>1
    <2>3. QED
      BY <1>2, <2>2, Fun_IsInj
  <1>6. QED
    BY <1>4, <1>5, FS_CardinalityType

(* A part of a sequence repeats itself at most as often as the whole does. *)
LEMMA PartRepeatsLess ==
  ASSUME NEW V, NEW s \in Seq(V), NEW I, I \subseteq DOMAIN s
  PROVE  /\ Cardinality(I) - Cardinality(EntriesAt(s, I)) <= Len(s) - Cardinality(ToSet(s))
         /\ Cardinality(ToSet(s)) \in Nat /\ Cardinality(ToSet(s)) <= Len(s)
         /\ IsFiniteSet(ToSet(s))
  <1> DEFINE D == DOMAIN s
             R == D \ I
  <1>1. ToSet(s) = EntriesAt(s, D) /\ Cardinality(D) = Len(s) /\ Len(s) \in Nat
    BY WholeSet
  <1>2. D \subseteq D /\ R \subseteq D
    OBVIOUS
  <1>3. /\ IsFiniteSet(EntriesAt(s, D)) /\ Cardinality(EntriesAt(s, D)) \in Nat
        /\ Cardinality(EntriesAt(s, D)) <= Cardinality(D)
    BY <1>2, EntriesCount
  <1>4. /\ IsFiniteSet(EntriesAt(s, I)) /\ Cardinality(EntriesAt(s, I)) \in Nat
    BY EntriesCount
  <1>5. /\ IsFiniteSet(EntriesAt(s, R)) /\ Cardinality(EntriesAt(s, R)) \in Nat
        /\ Cardinality(EntriesAt(s, R)) <= Cardinality(R)
    BY <1>2, EntriesCount
  <1>6. EntriesAt(s, D) = EntriesAt(s, I) \cup EntriesAt(s, R)
    BY DEF EntriesAt
  <1>7. /\ Cardinality(EntriesAt(s, D))
             = Cardinality(EntriesAt(s, I)) + Cardinality(EntriesAt(s, R))
                 - Cardinality(EntriesAt(s, I) \cap EntriesAt(s, R))
    BY <1>4, <1>5, <1>6, FS_Union
  <1>8. Cardinality(EntriesAt(s, I) \cap EntriesAt(s, R)) \in Nat
    BY <1>4, FS_Intersection, FS_CardinalityType
  <1>9. IsFiniteSet(D) /\ IsFiniteSet(I) /\ Cardinality(I) \in Nat
    BY <1>2, PlacesFinite
  <1>10. D \cap I = I
    OBVIOUS
  <1>11. Cardinality(R) = Cardinality(D) - Cardinality(I) /\ Cardinality(D) \in Nat
    <2>1. Cardinality(D \ I) = Cardinality(D) - Cardinality(D \cap I)
      BY <1>9, FS_Difference
    <2>2. Cardinality(D) \in Nat
      BY <1>1
    <2>3. QED
      BY <1>10, <2>1, <2>2
  <1> HIDE DEF D, R
  <1>12. Cardinality(I) - Cardinality(EntriesAt(s, I)) <= Cardinality(D) - Cardinality(EntriesAt(s, D))
    BY <1>3, <1>4, <1>5, <1>7, <1>8, <1>9, <1>11
  <1>13. QED
    BY <1>1, <1>3, <1>12

(* A finite set written as a sequence has each element once.               *)
LEMMA SetToSeqIs ==
  ASSUME NEW P, IsFiniteSet(P)
  PROVE  /\ SetToSeq(P) \in Seq(P) /\ ToSet(SetToSeq(P)) = P
         /\ Len(SetToSeq(P)) = Cardinality(P) /\ Cardinality(P) \in Nat
  <1> DEFINE n == Cardinality(P)
             s == SetToSeq(P)
  <1>1. n \in Nat /\ ExistsBijection(1 .. n, P)
    BY FS_CardinalityType
  <1>2. Bijection(1 .. n, P) # {}
    BY <1>1, Fun_ExistsBij
  <1>3. \E f \in [1 .. n -> P] : IsInjective(f)
    BY <1>2 DEF Bijection, Injection
  <1>4. s \in [1 .. n -> P] /\ IsInjective(s)
    BY <1>3 DEF SetToSeq
  <1>5. s \in Injection(1 .. n, P)
    BY <1>4 DEF Injection
  <1>6. IsFiniteSet(1 .. n) /\ Cardinality(1 .. n) = n
    BY <1>1, FS_Interval
  <1>7. s \in Surjection(1 .. n, P)
    BY <1>5, <1>6, FS_Injection
  <1>8. \A x \in P : \E i \in 1 .. n : s[i] = x
    BY <1>7 DEF Surjection
  <1>9. s \in Seq(P) /\ Len(s) = n
    BY <1>1, <1>4
  <1>10. ToSet(s) = P
    BY <1>4, <1>8 DEF ToSet
  <1>11. QED
    BY <1>1, <1>9, <1>10

(* Leaving entries out leaves no more repetitions than there were.         *)
LEMMA WithoutIs ==
  ASSUME NEW V, NEW s \in Seq(V), NEW S
  PROVE  /\ Without(s, S) \in Seq(V) /\ ToSet(Without(s, S)) = ToSet(s) \ S
         /\ Len(Without(s, S)) - Cardinality(ToSet(Without(s, S))) <= Len(s) - Cardinality(ToSet(s))
  <1> DEFINE I == {i \in DOMAIN s : s[i] \notin S}
  <1>1. I \subseteq DOMAIN s /\ Without(s, S) = Chosen(s, I)
    BY DEF Without
  <1>2. /\ Chosen(s, I) \in Seq(V) /\ Len(Chosen(s, I)) = Cardinality(I)
        /\ ToSet(Chosen(s, I)) = EntriesAt(s, I)
    BY <1>1, ChosenIs
  <1>3. EntriesAt(s, I) = ToSet(s) \ S
    BY DEF EntriesAt, ToSet
  <1>4. Cardinality(I) - Cardinality(EntriesAt(s, I)) <= Len(s) - Cardinality(ToSet(s))
    BY <1>1, PartRepeatsLess
  <1>5. QED
    BY <1>1, <1>2, <1>3, <1>4

(* The first n entries, the LIMIT of a query.                              *)
LEMMA FirstEntries ==
  ASSUME NEW V, NEW s \in Seq(V), NEW n \in 0 .. Len(s)
  PROVE  LET t == SubSeq(s, 1, n) IN
         /\ t \in Seq(V) /\ Len(t) = n /\ ToSet(t) \subseteq ToSet(s)
         /\ n - Cardinality(ToSet(t)) <= Len(s) - Cardinality(ToSet(s))
         /\ n = Len(s) => ToSet(t) = ToSet(s)
  <1> DEFINE t == SubSeq(s, 1, n)
             I == 1 .. n
  <1>1. /\ t \in Seq(V) /\ Len(t) = n /\ DOMAIN t = I /\ n \in Nat
        /\ I \subseteq DOMAIN s /\ DOMAIN s = 1 .. Len(s)
        /\ \A i \in I : t[i] = s[i]
    OBVIOUS
  <1>2. ToSet(t) = EntriesAt(s, I) /\ ToSet(s) = EntriesAt(s, DOMAIN s)
    BY <1>1 DEF ToSet, EntriesAt
  <1>3. EntriesAt(s, I) \subseteq EntriesAt(s, DOMAIN s)
    BY <1>1 DEF EntriesAt
  <1>4. Cardinality(I) - Cardinality(EntriesAt(s, I)) <= Len(s) - Cardinality(ToSet(s))
    BY <1>1, PartRepeatsLess
  <1>5. Cardinality(I) = n
    <2>1. Cardinality(I) = IF 1 > n THEN 0 ELSE n - 1 + 1
      BY <1>1, FS_Interval
    <2>2. QED
      BY <1>1, <2>1
  <1>6. n = Len(s) => I = DOMAIN s
    BY <1>1
  <1>7. QED
    BY <1>1, <1>2, <1>3, <1>4, <1>5, <1>6

(* A batch as FetchVideos leaves it: every video once, and its thumbnail   *)
(* could be opened.                                                        *)
Showable(b) == /\ b \in Seq(Video) /\ Cardinality(ToSet(b)) = Len(b)
               /\ ToSet(b) \cap dirty = {}

(* The entries of two sequences in a row.                                  *)
LEMMA JoinIs ==
  ASSUME NEW V, NEW s \in Seq(V), NEW t \in Seq(V)
  PROVE  /\ s \o t \in Seq(V) /\ Len(s \o t) = Len(s) + Len(t)
         /\ ToSet(s \o t) = ToSet(s) \cup ToSet(t)
  <1>1. s \o t \in Seq(V) /\ Len(s \o t) = Len(s) + Len(t) /\ Len(s) \in Nat /\ Len(t) \in Nat
    OBVIOUS
  <1>2. /\ DOMAIN s = 1 .. Len(s) /\ DOMAIN t = 1 .. Len(t)
        /\ DOMAIN (s \o t) = 1 .. (Len(s) + Len(t))
    BY <1>1
  <1>3. ASSUME NEW i \in 1 .. Len(s)
        PROVE  i \in 1 .. (Len(s) + Len(t)) /\ (s \o t)[i] = s[i]
    BY <1>1
  <1>4. ASSUME NEW i \in 1 .. Len(t)
        PROVE  Len(s) + i \in 1 .. (Len(s) + Len(t)) /\ (s \o t)[Len(s) + i] = t[i]
    BY <1>1
  <1>5. ASSUME NEW i \in 1 .. (Len(s) + Len(t))
        PROVE  \/ i \in 1 .. Len(s) /\ (s \o t)[i] = s[i]
               \/ i - Len(s) \in 1 .. Len(t) /\ (s \o t)[i] = t[i - Len(s)]
    BY <1>1
  <1>6. ToSet(s \o t) \subseteq ToSet(s) \cup ToSet(t)
    BY <1>2, <1>5 DEF ToSet
  <1>7. ToSet(s) \cup ToSet(t) \subseteq ToSet(s \o t)
    BY <1>2, <1>3, <1>4 DEF ToSet
  <1>8. QED
    BY <1>1, <1>6, <1>7

(* FetchVideos adds every row with a thumbnail that was not picked before, *)
(* and adds it once.                                                       *)
LEMMA FetchAdds ==
  ASSUME NEW b, Showable(b), NEW rows \in Seq(Video)
  PROVE  LET new == FetchVideos(b, rows) IN
         /\ Showable(new) /\ ToSet(new) = ToSet(b) \cup (ToSet(rows) \ dirty)
         /\ Len(new) <= Len(b) + Len(rows)
  <1> DEFINE I == Picked(b, rows)
             t == Chosen(rows, I)
  <1>1. b \in Seq(Video) /\ Len(b) \in Nat /\ Len(rows) \in Nat
        /\ DOMAIN rows = 1 .. Len(rows) /\ I \subseteq DOMAIN rows
    BY DEF Showable, Picked
  <1>2. /\ t \in Seq(Video) /\ Len(t) = Cardinality(I) /\ ToSet(t) = EntriesAt(rows, I)
    BY <1>1, ChosenIs
  <1>3. EntriesAt(rows, I) \subseteq ToSet(rows) \ dirty /\ EntriesAt(rows, I) \cap ToSet(b) = {}
    BY DEF EntriesAt, ToSet, Picked
  <1>4. ASSUME NEW v \in ToSet(rows), v \notin dirty, v \notin ToSet(b) PROVE v \in EntriesAt(rows, I)
    <2> DEFINE S == {i \in DOMAIN rows : rows[i] = v}
    <2>1. S \subseteq Nat /\ S # {}
      BY <1>1 DEF ToSet
    <2>2. PICK k \in S : \A j \in S : k <= j
      BY <2>1, Least
    <2>3. k \in DOMAIN rows /\ rows[k] = v /\ k \in Nat
      BY <1>1
    <2>4. ASSUME NEW j \in 1 .. k - 1 PROVE rows[j] # rows[k]
      <3>1. j \in DOMAIN rows /\ ~(k <= j)
        BY <1>1, <2>3
      <3>2. QED
        BY <2>2, <2>3, <3>1
    <2>5. k \in I
      BY <1>4, <2>3, <2>4 DEF Picked
    <2>6. QED
      BY <2>3, <2>5 DEF EntriesAt
  <1>5. ASSUME NEW i \in I, NEW j \in I, rows[i] = rows[j] PROVE i = j
    <2>1. i \in Nat /\ j \in Nat /\ i >= 1 /\ j >= 1
      BY <1>1
    <2>2. /\ \A k \in 1 .. i - 1 : rows[k] # rows[i]
          /\ \A k \in 1 .. j - 1 : rows[k] # rows[j]
      BY DEF Picked
    <2>3. i \notin 1 .. j - 1 /\ j \notin 1 .. i - 1
      BY <1>5, <2>2
    <2>4. QED
      BY <2>1, <2>3
  <1>6. Cardinality(EntriesAt(rows, I)) = Cardinality(I) /\ IsFiniteSet(EntriesAt(rows, I))
        /\ Cardinality(I) \in Nat /\ Cardinality(I) <= Len(rows)
    BY <1>1, <1>5, EntriesCount, PlacesFinite
  <1>7. /\ b \o t \in Seq(Video) /\ Len(b \o t) = Len(b) + Len(t)
        /\ ToSet(b \o t) = ToSet(b) \cup ToSet(t)
    <2>1. b \in Seq(Video) /\ t \in Seq(Video)
      BY <1>1, <1>2
    <2> HIDE DEF t
    <2>2. QED
      BY <2>1, JoinIs
  <1>8. ToSet(b \o t) = ToSet(b) \cup (ToSet(rows) \ dirty)
    BY <1>2, <1>3, <1>4, <1>7 DEF Showable
  <1>9. Cardinality(ToSet(b \o t)) = Len(b \o t)
    <2>1. IsFiniteSet(ToSet(b))
      BY <1>1, PartRepeatsLess
    <2>2. Cardinality(ToSet(b) \cup ToSet(t))
            = Cardinality(ToSet(b)) + Cardinality(ToSet(t)) - Cardinality(ToSet(b) \cap ToSet(t))
      BY <1>2, <1>6, <2>1, FS_Union
    <2>3. Cardinality(ToSet(b) \cap ToSet(t)) = 0
      BY <1>2, <1>3, FS_EmptySet
    <2>4. Cardinality(ToSet(b)) = Len(b)
      BY DEF Showable
    <2>5. QED
      BY <1>1, <1>2, <1>6, <1>7, <2>2, <2>3, <2>4
  <1>10. (ToSet(b) \cup (ToSet(rows) \ dirty)) \cap dirty = {}
    BY DEF Showable
  <1>11. QED
    BY <1>1, <1>2, <1>6, <1>7, <1>8, <1>9, <1>10 DEF FetchVideos, Showable

-----------------------------------------------------------------------------
(* The rows of a query.                                                    *)

(* Fewer rows than the LIMIT come only when there are no others.           *)
LEMMA LimitRows ==
  ASSUME NEW S, S \subseteq Video, NEW n \in Int, NEW byTag, NEW rows \in Seqs(Limit(S, n, byTag))
  PROVE  /\ rows \in Seq(Video) /\ ToSet(rows) \subseteq S
         /\ Len(rows) <= n /\ Cardinality(ToSet(rows)) = Len(rows)
         /\ Len(rows) = n \/ ToSet(rows) = S
  <1>1. PICK P \in Limit(S, n, byTag) : rows = SetToSeq(P)
    BY DEF Seqs
  <1>2. /\ P \subseteq S
        /\ Cardinality(P) = IF n < Cardinality(S) THEN n ELSE Cardinality(S)
    BY <1>1 DEF Limit
  <1>3. IsFiniteSet(S) /\ Cardinality(S) \in Nat
    BY VideoAssumption, FS_Subset, FS_CardinalityType
  <1>4. IsFiniteSet(P) /\ (Cardinality(P) = Cardinality(S) => P = S)
    BY <1>2, <1>3, FS_Subset
  <1>5. /\ rows \in Seq(P) /\ ToSet(rows) = P
        /\ Len(rows) = Cardinality(P) /\ Cardinality(P) \in Nat
    BY <1>1, <1>4, SetToSeqIs
  <1>6. rows \in Seq(Video)
    BY <1>2, <1>5
  <1>7. Len(rows) <= n /\ (Len(rows) = n \/ ToSet(rows) = S)
    BY <1>2, <1>3, <1>4, <1>5
  <1>8. QED
    BY <1>2, <1>5, <1>6, <1>7

(* What a handler in a refresh has picked so far.                          *)
Shown(r) == ToSet(r.batch)
Sound(r) == /\ Showable(r.batch) /\ Len(r.batch) <= Slots
            /\ r.pc \in {"reset", "readLast", "tag"} => r.batch = << >>
Right(r) == r \in Handler /\ (r.pc \in Refreshing => Sound(r))
RefreshHandler == [pc : Refreshing, user : User, last : SUBSET Video, batch : Seq(Video)]

(* What a handler holds, by the statement it has come to.                  *)
LEMMA Shapes ==
  ASSUME NEW r \in Handler
  PROVE  /\ "pc" \in DOMAIN r
         /\ r.pc = "idle" => r = Idle
         /\ r.pc = "regInsert" => r.name \in Name /\ r.password \in Password
         /\ r.pc = "clickInsert" => r.user \in User /\ r.video \in Video
         /\ r.pc = "reportUpdate" => r.video \in Video
         /\ r.pc \in Refreshing => r \in RefreshHandler
  <1>1. CASE r = Idle
    BY <1>1 DEF Idle, Refreshing
  <1>2. CASE r \in [pc : {"regInsert"}, name : Name, password : Password]
    BY <1>2 DEF Refreshing
  <1>3. CASE r \in [pc : {"clickInsert"}, user : User, video : Video]
    BY <1>3 DEF Refreshing
  <1>4. CASE r \in [pc : {"reportUpdate"}, video : Video]
    BY <1>4 DEF Refreshing
  <1>5. CASE r \in RefreshHandler
    BY <1>5 DEF Refreshing, RefreshHandler
  <1>6. QED
    BY <1>1, <1>2, <1>3, <1>4, <1>5 DEF Handler, RefreshHandler

(* Handlers that are not in a refresh are right by their type.             *)
LEMMA OthersRight ==
  /\ Right(Idle)
  /\ \A n \in Name, p \in Password : Right([pc |-> "regInsert", name |-> n, password |-> p])
  /\ \A u \in User, v \in Video : Right([pc |-> "clickInsert", user |-> u, video |-> v])
  /\ \A v \in Video : Right([pc |-> "reportUpdate", video |-> v])
  BY DEF Right, Handler, Idle, Refreshing

Account == [name : Name, password : Password]
Registering == {d \in Conn : At(d, "regInsert")}

HandlersRight == DOMAIN h = Conn /\ \A d \in Conn : Right(h[d])
Room == /\ users \in Seq(Account) /\ id \in [Conn -> 0 .. MaxUsers]
        /\ Len(users) + Cardinality(Registering) <= MaxUsers
Stored == /\ dirty \subseteq Dirty
          /\ recv \in [User -> Seq(Video)]
          /\ log \in [Video -> [n : Nat, sum : Nat]]
          /\ count \in [Video -> Nat] /\ hot \in [Video -> Nat]
          /\ last \in [User -> SUBSET Video]
          /\ calm \subseteq Conn /\ stale \subseteq Video /\ faults \in 0 .. MaxFaults
          /\ asked \in 0 .. MaxRequests
TypeInv == HandlersRight /\ Room /\ Stored

(* The inductive invariant contains the types.                             *)
LEMMA TypeInvTypes == TypeInv => TypeOK
  BY DEF TypeInv, HandlersRight, Right, Room, Stored, TypeOK, Account

(* Registrations between their two statements are finitely many.           *)
LEMMA RegisteringCounts ==
  /\ IsFiniteSet(Registering) /\ Cardinality(Registering) \in Nat
  /\ \A c : IsFiniteSet(Registering \ {c}) /\ Cardinality(Registering \ {c}) \in Nat
  <1>1. Registering \subseteq Conn /\ \A c : Registering \ {c} \subseteq Conn
    BY DEF Registering
  <1>2. QED
    BY <1>1, ConnAssumption, FS_Subset, FS_CardinalityType

(* A handler that takes something else to hold than a registration.        *)
LEMMA HoldRight ==
  ASSUME TypeInv, NEW c \in Conn, NEW r, Right(r), Hold(c, r), UNCHANGED dirty
  PROVE  HandlersRight'
  <1>1. DOMAIN h' = Conn /\ \A d \in Conn : h'[d] = IF d = c THEN r ELSE h[d]
    BY DEF Hold, TypeInv, HandlersRight
  <1>2. ASSUME NEW d \in Conn PROVE Right(h[d])'
    <2>1. h'[d] = r \/ h'[d] = h[d]
      BY <1>1
    <2>2. Right(r) /\ Right(h[d])
      BY DEF TypeInv, HandlersRight
    <2>3. QED
      BY <2>1, <2>2 DEF Right, Sound, Showable
  <1>3. QED
    BY <1>1, <1>2 DEF HandlersRight

(* t_UserData keeps room for the registrations on their way.               *)
LEMMA RoomStays ==
  ASSUME TypeInv, NEW c \in Conn, NEW r, r.pc # "regInsert", Hold(c, r), UNCHANGED users,
         id' \in [Conn -> 0 .. MaxUsers]
  PROVE  Room'
  <1>1. \A d \in Conn : h'[d] = IF d = c THEN r ELSE h[d]
    BY DEF Hold, TypeInv, HandlersRight
  <1>2. Registering' \subseteq Registering
    BY <1>1 DEF Registering, At
  <1>3. Cardinality(Registering') <= Cardinality(Registering) /\ Cardinality(Registering') \in Nat
    BY <1>2, RegisteringCounts, FS_Subset, FS_CardinalityType
  <1>4. users \in Seq(Account) /\ Len(users) \in Nat /\ Cardinality(Registering) \in Nat
        /\ Len(users) + Cardinality(Registering) <= MaxUsers /\ MaxUsers \in Nat
    BY RegisteringCounts, BoundsAssumption DEF TypeInv, Room
  <1>5. Len(users) + Cardinality(Registering') <= MaxUsers
    BY <1>3, <1>4
  <1>6. QED
    BY <1>4, <1>5 DEF Room

(* The invariant of the types holds at first.                              *)
LEMMA TypeInit == Init => TypeInv
  <1> SUFFICES ASSUME Init PROVE TypeInv
    OBVIOUS
  <1>1. HandlersRight
    BY OthersRight DEF Init, HandlersRight
  <1>2. Room
    <2>1. Registering = {}
      BY DEF Registering, Init, At, Idle
    <2>2. Cardinality(Registering) = 0 /\ Len(users) = 0 /\ MaxUsers \in Nat
      BY <2>1, FS_EmptySet, BoundsAssumption DEF Init
    <2>3. users \in Seq(Account) /\ id \in [Conn -> 0 .. MaxUsers]
      BY <2>2 DEF Init
    <2>4. QED
      BY <2>2, <2>3 DEF Room
  <1>3. Stored
    BY BoundsAssumption DEF Init, Stored
  <1>4. QED
    BY <1>1, <1>2, <1>3 DEF TypeInv

(* RegisterRq's SELECT: the row it will insert has room.                   *)
LEMMA RegisterTypes ==
  ASSUME TypeInv, NEW c \in Conn, NEW n \in Name, NEW p \in Password, RegisterRq(c, n, p)
  PROVE  TypeInv'
  <1> DEFINE r == [pc |-> "regInsert", name |-> n, password |-> p]
  <1>1. /\ Hold(c, r) /\ UNCHANGED <<tables, last, id, calm, history, asked>>
        /\ Len(users) + Cardinality(Registering) < MaxUsers
    BY DEF RegisterRq, Registering
  <1>2. HandlersRight'
    BY <1>1, OthersRight, HoldRight DEF tables
  <1>3. Registering' = Registering \cup {c}
    BY <1>1 DEF Hold, At, Registering, TypeInv, HandlersRight
  <1>4. Cardinality(Registering') <= Cardinality(Registering) + 1 /\ Cardinality(Registering') \in Nat
    <2>1. /\ IsFiniteSet(Registering \cup {c})
          /\ Cardinality(Registering \cup {c})
               = IF c \in Registering THEN Cardinality(Registering) ELSE Cardinality(Registering) + 1
      BY RegisteringCounts, FS_AddElement
    <2>2. QED
      BY <1>3, <2>1, RegisteringCounts, FS_CardinalityType
  <1>5. Room'
    <2>1. users' = users /\ id' = id
      BY <1>1 DEF tables
    <2>2. users \in Seq(Account) /\ Len(users) \in Nat /\ MaxUsers \in Nat /\ Cardinality(Registering) \in Nat
      BY BoundsAssumption, RegisteringCounts DEF TypeInv, Room
    <2>3. Len(users) + Cardinality(Registering') <= MaxUsers
      BY <1>1, <1>4, <2>2
    <2>4. QED
      BY <2>1, <2>2, <2>3 DEF TypeInv, Room
  <1>6. Stored'
    BY <1>1 DEF TypeInv, Stored, tables, history
  <1>7. QED
    BY <1>2, <1>5, <1>6 DEF TypeInv

(* RegisterRq's INSERT.                                                    *)
LEMMA InsertTypes ==
  ASSUME TypeInv, NEW c \in Conn, RegisterInsert(c)
  PROVE  TypeInv'
  <1>1. /\ At(c, "regInsert") /\ Hold(c, Idle)
        /\ UNCHANGED <<dirty, recv, log, count, hot, last, id, calm, stale, asked>>
        /\ \/ Works /\ users' = Append(users, [name |-> h[c].name, password |-> h[c].password])
           \/ Fails /\ UNCHANGED users
    BY DEF RegisterInsert
  <1>2. HandlersRight'
    BY <1>1, OthersRight, HoldRight
  <1>3. Registering' = Registering \ {c} /\ c \in Registering
    BY <1>1 DEF Hold, At, Registering, TypeInv, HandlersRight, Idle
  <1>4. Cardinality(Registering') = Cardinality(Registering) - 1 /\ Cardinality(Registering) \in Nat
    BY <1>3, RegisteringCounts, FS_RemoveElement
  <1>5. [name |-> h[c].name, password |-> h[c].password] \in Account
    BY <1>1, Shapes DEF TypeInv, HandlersRight, Right, At, Account
  <1>6. users \in Seq(Account) /\ Len(users) \in Nat /\ MaxUsers \in Nat
        /\ Len(users) + Cardinality(Registering) <= MaxUsers
    BY BoundsAssumption DEF TypeInv, Room
  <1>7. users' \in Seq(Account) /\ Len(users') \in Nat /\ Len(users') <= Len(users) + 1
    BY <1>1, <1>5, <1>6
  <1>8. Len(users') + Cardinality(Registering') <= MaxUsers
    BY <1>4, <1>6, <1>7
  <1>9. Room'
    BY <1>1, <1>7, <1>8 DEF TypeInv, Room
  <1>10. faults' \in 0 .. MaxFaults
    BY <1>1, BoundsAssumption DEF Works, Fails, TypeInv, Stored
  <1>11. QED
    BY <1>1, <1>2, <1>9, <1>10 DEF TypeInv, Stored

(* LoginRq: the id it finds is that of a row.                              *)
LEMMA LoginTypes ==
  ASSUME TypeInv, NEW c \in Conn, NEW n \in Name, NEW p \in Password, LoginRq(c, n, p)
  PROVE  TypeInv'
  <1>1. /\ Rows(n) # {} /\ id' = [id EXCEPT ![c] = IdOf(n)]
        /\ UNCHANGED <<tables, last, h, calm, history, asked>>
    BY DEF LoginRq
  <1>2. users \in Seq(Account) /\ Len(users) \in Nat /\ MaxUsers \in Nat
        /\ Len(users) <= MaxUsers /\ Rows(n) \subseteq 1 .. Len(users)
    <2>1. users \in Seq(Account) /\ MaxUsers \in Nat /\ Cardinality(Registering) \in Nat
          /\ Len(users) + Cardinality(Registering) <= MaxUsers
      BY BoundsAssumption, RegisteringCounts DEF TypeInv, Room
    <2>2. QED
      BY <2>1 DEF Rows
  <1>3. PICK k \in Rows(n) : \A j \in Rows(n) : k <= j
    BY <1>1, <1>2, Least
  <1>4. IdOf(n) \in Rows(n)
    BY <1>3 DEF IdOf
  <1>5. IdOf(n) \in 0 .. MaxUsers
    BY <1>2, <1>4
  <1>6. id' \in [Conn -> 0 .. MaxUsers]
    BY <1>1, <1>5 DEF TypeInv, Room
  <1>7. Room'
    BY <1>1, <1>6 DEF TypeInv, Room, tables, Registering, At
  <1>8. HandlersRight' /\ Stored'
    BY <1>1 DEF TypeInv, HandlersRight, Right, Sound, Showable, Stored, tables, history
  <1>9. QED
    BY <1>7, <1>8 DEF TypeInv

(* Handler c takes r to hold, which is no registration.                    *)
Takes(c, r) == /\ Hold(c, r) /\ Right(r) /\ r.pc # "regInsert" /\ UNCHANGED <<dirty, users, id>>

(* A step that leaves accounts alone, once its tables are right.           *)
LEMMA TakesTypes ==
  ASSUME TypeInv, NEW c \in Conn, NEW r, Takes(c, r), Stored'
  PROVE  TypeInv'
  <1>1. HandlersRight'
    BY HoldRight DEF Takes
  <1>2. Room'
    BY RoomStays DEF Takes, TypeInv, Room
  <1>3. QED
    BY <1>1, <1>2 DEF TypeInv

(* Bounds of the model.                                                    *)
LEMMA FaultTypes ==
  ASSUME TypeInv, Works \/ Fails
  PROVE  faults' \in 0 .. MaxFaults
  BY BoundsAssumption DEF Works, Fails, TypeInv, Stored

LEMMA AskTypes ==
  ASSUME TypeInv, Ask
  PROVE  asked' \in 0 .. MaxRequests
  BY BoundsAssumption DEF Ask, TypeInv, Stored

(* VideoClickRq's DELETE.                                                  *)
LEMMA ClickTypes ==
  ASSUME TypeInv, NEW c \in Conn, NEW v \in Video, VideoClickRq(c, v)
  PROVE  TypeInv'
  <1> DEFINE u == id[c]
             r == [pc |-> "clickInsert", user |-> u, video |-> v]
  <1>1. /\ u # 0 /\ Ask /\ Hold(c, r) /\ (Works \/ Fails)
        /\ recv' = [recv EXCEPT ![u] = Without(recv[u], {v})] \/ UNCHANGED recv
        /\ calm' \subseteq calm
        /\ UNCHANGED <<dirty, users, log, count, hot, last, id, stale>>
    BY DEF VideoClickRq, Disturb
  <1>2. u \in User
    BY <1>1, BoundsAssumption DEF TypeInv, Room, User
  <1>3. Takes(c, r)
    BY <1>1, <1>2, OthersRight DEF Takes
  <1>4. recv \in [User -> Seq(Video)]
    BY DEF TypeInv, Stored
  <1>5. Without(recv[u], {v}) \in Seq(Video)
    BY <1>2, <1>4, WithoutIs
  <1>6. recv' \in [User -> Seq(Video)]
    BY <1>1, <1>4, <1>5
  <1>7. Stored'
    BY <1>1, <1>6, FaultTypes, AskTypes DEF TypeInv, Stored
  <1>8. QED
    BY <1>3, <1>7, TakesTypes

(* VideoClickRq's INSERT.                                                  *)
LEMMA ClickInsertTypes ==
  ASSUME TypeInv, NEW c \in Conn, ClickInsert(c)
  PROVE  TypeInv'
  <1> DEFINE u == h[c].user
             v == h[c].video
  <1>1. /\ At(c, "clickInsert") /\ Hold(c, Idle) /\ (Works \/ Fails)
        /\ recv' = [recv EXCEPT ![u] = Append(recv[u], v)] \/ UNCHANGED recv
        /\ calm' \subseteq calm
        /\ UNCHANGED <<dirty, users, log, count, hot, last, id, stale, asked>>
    BY DEF ClickInsert, Disturb
  <1>2. u \in User /\ v \in Video
    BY <1>1, Shapes DEF TypeInv, HandlersRight, Right, At
  <1>3. Takes(c, Idle)
    BY <1>1, OthersRight DEF Takes, Idle
  <1>4. recv \in [User -> Seq(Video)]
    BY DEF TypeInv, Stored
  <1>5. Append(recv[u], v) \in Seq(Video)
    BY <1>2, <1>4
  <1>6. recv' \in [User -> Seq(Video)]
    BY <1>1, <1>4, <1>5
  <1>7. Stored'
    BY <1>1, <1>6, FaultTypes DEF TypeInv, Stored
  <1>8. QED
    BY <1>3, <1>7, TakesTypes

(* PlayReportRq's INSERT.                                                  *)
LEMMA ReportTypes ==
  ASSUME TypeInv, NEW c \in Conn, NEW v \in Video, NEW k \in Completion, PlayReportRq(c, v, k)
  PROVE  TypeInv'
  <1> DEFINE r == [pc |-> "reportUpdate", video |-> v]
  <1>1. /\ Ask /\ Hold(c, r) /\ (Works \/ Fails)
        /\ log' = [log EXCEPT ![v] = [n |-> log[v].n + 1, sum |-> log[v].sum + k]] \/ UNCHANGED log
        /\ UNCHANGED <<dirty, users, recv, count, hot, last, id, calm, stale>>
    BY DEF PlayReportRq
  <1>2. Takes(c, r)
    BY <1>1, OthersRight DEF Takes
  <1>3. log \in [Video -> [n : Nat, sum : Nat]] /\ k \in Nat
    BY CompletionAssumption DEF TypeInv, Stored
  <1>4. [n |-> log[v].n + 1, sum |-> log[v].sum + k] \in [n : Nat, sum : Nat]
    BY <1>3
  <1>5. log' \in [Video -> [n : Nat, sum : Nat]]
    BY <1>1, <1>3, <1>4
  <1>6. Stored'
    BY <1>1, <1>5, FaultTypes, AskTypes DEF TypeInv, Stored
  <1>7. QED
    BY <1>2, <1>6, TakesTypes

(* GREATEST(0, ..): hotdegree is never negative.                           *)
LEMMA HeatTypes ==
  ASSUME NEW r \in [n : Nat, sum : Nat]
  PROVE  Heat(r) \in Nat
  <1>1. r.n \in Nat /\ r.sum \in Nat
    OBVIOUS
  <1>2. CASE r.sum <= 30 * r.n
    BY <1>2 DEF Heat
  <1>3. CASE ~(r.sum <= 30 * r.n)
    <2> DEFINE a == 25 * (r.sum - 30 * r.n) + 50
    <2>1. a \in Nat
      BY <1>1, <1>3
    <2>2. Heat(r) = a \div 100
      BY <1>3 DEF Heat
    <2> HIDE DEF a
    <2>3. QED
      BY <2>1, <2>2
  <1>4. QED
    BY <1>2, <1>3

(* PlayReportRq's UPDATE.                                                  *)
LEMMA UpdateTypes ==
  ASSUME TypeInv, NEW c \in Conn, ReportUpdate(c)
  PROVE  TypeInv'
  <1> DEFINE v == h[c].video
  <1>1. /\ At(c, "reportUpdate") /\ Hold(c, Idle)
        /\ \/ /\ Works /\ count' = [count EXCEPT ![v] = log[v].n]
              /\ hot' = [hot EXCEPT ![v] = Heat(log[v])]
              /\ stale' = stale \ {v}
           \/ Fails /\ stale' = stale \cup {v} /\ UNCHANGED <<count, hot>>
        /\ UNCHANGED <<dirty, users, recv, log, last, id, calm, asked>>
    BY DEF ReportUpdate, Plays
  <1>2. v \in Video
    BY <1>1, Shapes DEF TypeInv, HandlersRight, Right, At
  <1>3. Takes(c, Idle)
    BY <1>1, OthersRight DEF Takes, Idle
  <1>4. log \in [Video -> [n : Nat, sum : Nat]] /\ count \in [Video -> Nat] /\ hot \in [Video -> Nat]
        /\ stale \subseteq Video
    BY DEF TypeInv, Stored
  <1>5. log[v].n \in Nat /\ Heat(log[v]) \in Nat
    BY <1>2, <1>4, HeatTypes
  <1>6. count' \in [Video -> Nat] /\ hot' \in [Video -> Nat] /\ stale' \subseteq Video
    BY <1>1, <1>2, <1>4, <1>5
  <1>7. faults' \in 0 .. MaxFaults
    BY <1>1, FaultTypes
  <1>8. Stored'
    BY <1>1, <1>6, <1>7 DEF TypeInv, Stored
  <1>9. QED
    BY <1>3, <1>8, TakesTypes

-----------------------------------------------------------------------------
(* GetFileList keeps the types.                                            *)

(* What a handler in a refresh holds.                                      *)
LEMMA RefreshHandlerIs ==
  ASSUME TypeInv, NEW c \in Conn, h[c].pc \in Refreshing
  PROVE  /\ h[c] \in RefreshHandler /\ Sound(h[c])
         /\ h[c].user \in User /\ h[c].last \subseteq Video /\ h[c].batch \in Seq(Video)
         /\ recv[h[c].user] \in Seq(Video)
  <1>1. h[c] \in RefreshHandler /\ Sound(h[c])
    BY Shapes DEF TypeInv, HandlersRight, Right
  <1>2. h[c].user \in User /\ h[c].last \subseteq Video /\ h[c].batch \in Seq(Video)
    BY <1>1 DEF RefreshHandler
  <1>3. recv \in [User -> Seq(Video)]
    BY DEF TypeInv, Stored
  <1>4. QED
    BY <1>1, <1>2, <1>3

(* A handler that goes on to its next statement.                           *)
LEMMA GoesTo ==
  ASSUME NEW r \in RefreshHandler, NEW to \in Refreshing
  PROVE  LET s == [r EXCEPT !.pc = to] IN
         s \in RefreshHandler /\ s.pc = to /\ s.user = r.user /\ s.last = r.last /\ s.batch = r.batch
  BY DEF RefreshHandler

(* A sound refresh is a right handler.                                     *)
LEMMA SoundIsRight ==
  ASSUME NEW r \in RefreshHandler, Showable(r.batch), Len(r.batch) <= Slots,
         r.pc \in {"reset", "readLast", "tag"} => r.batch = << >>
  PROVE  Right(r)
  BY DEF Right, Sound, Handler, RefreshHandler

(* The batch a refresh begins with.                                        *)
LEMMA EmptyShowable == Showable(<< >>) /\ Len(<< >>) = 0 /\ ToSet(<< >>) = {}
  <1>1. ToSet(<< >>) = {}
    BY DEF ToSet
  <1>2. Cardinality(ToSet(<< >>)) = 0
    BY <1>1, FS_EmptySet
  <1>3. << >> \in Seq(Video) /\ Len(<< >>) = 0
    OBVIOUS
  <1>4. QED
    BY <1>1, <1>2, <1>3 DEF Showable

(* GetFileList's first SELECT.                                             *)
LEMMA RefreshTypes ==
  ASSUME TypeInv, NEW c \in Conn, Refresh(c)
  PROVE  TypeInv'
  <1> DEFINE to == IF Unwatched(id[c]) = {} THEN "reset" ELSE "readLast"
             r == [pc |-> to, user |-> id[c], last |-> {}, batch |-> << >>]
  <1>1. /\ id[c] # 0 /\ Ask /\ Hold(c, r) /\ calm' = calm \cup {c}
        /\ UNCHANGED <<tables, last, id, history>>
    BY DEF Refresh
  <1>2. id[c] \in User
    BY <1>1, BoundsAssumption DEF TypeInv, Room, User
  <1>3. to \in Refreshing /\ {} \in SUBSET Video /\ Len(<< >>) <= Slots
    BY SlotsAssumption DEF Refreshing
  <1>4. Right(r) /\ r.pc # "regInsert"
    <2> HIDE DEF to
    <2>1. r \in RefreshHandler /\ r.pc = to /\ r.batch = << >>
      BY <1>2, <1>3, EmptyShowable DEF RefreshHandler, Showable
    <2>2. Right(r)
      BY <1>3, <2>1, EmptyShowable, SoundIsRight
    <2>3. QED
      BY <1>3, <2>1, <2>2 DEF Refreshing
  <1>5. Takes(c, r)
    BY <1>1, <1>4 DEF Takes, tables
  <1>6. Stored'
    BY <1>1, AskTypes DEF TypeInv, Stored, tables, history
  <1>7. QED
    BY <1>5, <1>6, TakesTypes

(* The DELETE when all is watched.                                         *)
LEMMA ResetTypes ==
  ASSUME TypeInv, NEW c \in Conn, Reset(c)
  PROVE  TypeInv'
  <1> DEFINE u == h[c].user
             r == [h[c] EXCEPT !.pc = "readLast"]
  <1>1. /\ At(c, "reset") /\ (Works \/ Fails) /\ (Hold(c, Idle) \/ Hold(c, r)) /\ calm' \subseteq calm
        /\ recv' = [recv EXCEPT ![u] = << >>] \/ UNCHANGED recv
        /\ UNCHANGED <<dirty, users, log, count, hot, last, id, stale, asked>>
    BY DEF Reset, Disturb
  <1>2. /\ h[c] \in RefreshHandler /\ Sound(h[c]) /\ h[c].batch = << >> /\ u \in User
        /\ "readLast" \in Refreshing
    BY <1>1, RefreshHandlerIs DEF At, Refreshing, Sound
  <1>3. Right(r) /\ r.pc = "readLast"
    BY <1>2, GoesTo, SoundIsRight DEF Sound
  <1>4. Takes(c, Idle) \/ Takes(c, r)
    BY <1>1, <1>3, OthersRight DEF Takes, Idle
  <1>5. recv \in [User -> Seq(Video)]
    BY DEF TypeInv, Stored
  <1>6. recv' \in [User -> Seq(Video)]
    <2>1. << >> \in Seq(Video)
      OBVIOUS
    <2>2. QED
      BY <1>1, <1>2, <1>5, <2>1
  <1>7. Stored'
    BY <1>1, <1>6, FaultTypes DEF TypeInv, Stored
  <1>8. QED
    BY <1>4, <1>7, TakesTypes

(* The first lock of m_recMutex.                                           *)
LEMMA ReadLastTypes ==
  ASSUME TypeInv, NEW c \in Conn, ReadLast(c)
  PROVE  TypeInv'
  <1> DEFINE u == h[c].user
             r == [h[c] EXCEPT !.pc = "tag", !.last = last[u]]
  <1>1. /\ At(c, "readLast") /\ Hold(c, r)
        /\ UNCHANGED <<tables, last, id, calm, history, asked>>
    BY DEF ReadLast
  <1>2. /\ h[c] \in RefreshHandler /\ Sound(h[c]) /\ h[c].batch = << >> /\ u \in User
        /\ "tag" \in Refreshing
    BY <1>1, RefreshHandlerIs DEF At, Refreshing, Sound
  <1>3. last[u] \in SUBSET Video
    BY <1>2 DEF TypeInv, Stored
  <1>4. Right(r) /\ r.pc = "tag"
    <2>1. r \in RefreshHandler /\ r.pc = "tag" /\ r.batch = << >>
      BY <1>2, <1>3 DEF RefreshHandler
    <2>2. Len(<< >>) <= Slots
      BY SlotsAssumption
    <2> HIDE DEF r
    <2>3. Right(r)
      BY <2>1, <2>2, EmptyShowable, SoundIsRight
    <2>4. QED
      BY <2>1, <2>3
  <1>5. Takes(c, r)
    BY <1>1, <1>4 DEF Takes, tables
  <1>6. Stored'
    BY <1>1 DEF TypeInv, Stored, tables, history
  <1>7. QED
    BY <1>5, <1>6, TakesTypes

(* The second lock of m_recMutex.                                          *)
LEMMA WriteLastTypes ==
  ASSUME TypeInv, NEW c \in Conn, WriteLast(c)
  PROVE  TypeInv'
  <1> DEFINE u == h[c].user
             r == [h[c] EXCEPT !.pc = "send"]
  <1>1. /\ At(c, "writeLast") /\ Hold(c, r) /\ last' = [last EXCEPT ![u] = ToSet(h[c].batch)]
        /\ UNCHANGED <<tables, id, calm, history, asked>>
    BY DEF WriteLast
  <1>2. /\ h[c] \in RefreshHandler /\ Sound(h[c]) /\ h[c].batch \in Seq(Video) /\ u \in User
        /\ "send" \in Refreshing
    BY <1>1, RefreshHandlerIs DEF At, Refreshing
  <1>3. Right(r) /\ r.pc = "send"
    BY <1>2, GoesTo, SoundIsRight DEF Sound
  <1>4. Takes(c, r)
    BY <1>1, <1>3 DEF Takes, tables
  <1>5. ToSet(h[c].batch) \subseteq Video
    BY <1>2, WholeSet
  <1>6. last \in [User -> SUBSET Video]
    BY DEF TypeInv, Stored
  <1>7. last' \in [User -> SUBSET Video]
    BY <1>1, <1>5, <1>6
  <1>8. Stored'
    BY <1>1, <1>7 DEF TypeInv, Stored, tables, history
  <1>9. QED
    BY <1>4, <1>8, TakesTypes

(* The list is sent.                                                       *)
LEMMA SendTypes ==
  ASSUME TypeInv, NEW c \in Conn, Send(c)
  PROVE  TypeInv'
  <1>1. Hold(c, Idle) /\ calm' \subseteq calm /\ UNCHANGED <<tables, last, id, history, asked>>
    BY DEF Send
  <1>2. Takes(c, Idle)
    BY <1>1, OthersRight DEF Takes, Idle, tables
  <1>3. Stored'
    BY <1>1 DEF TypeInv, Stored, tables, history
  <1>4. QED
    BY <1>2, <1>3, TakesTypes

(* A query's rows fit into the free slots.                                 *)
Fit(r, rows) == rows \in Seq(Video) /\ Len(r.batch) + Len(rows) <= Slots
Later == {"hot", "seen", "watched", "writeLast"}
Fetched(r, rows, to) == [r EXCEPT !.pc = to, !.batch = FetchVideos(r.batch, rows)]

(* What a handler holds after FetchVideos.                                 *)
LEMMA FetchedIs ==
  ASSUME NEW r \in RefreshHandler, Sound(r), NEW rows, Fit(r, rows), NEW to \in Later
  PROVE  LET s == Fetched(r, rows, to) IN
         /\ Right(s) /\ s \in RefreshHandler /\ Sound(s) /\ s.pc = to /\ s.user = r.user /\ s.last = r.last
         /\ Shown(s) = Shown(r) \cup (ToSet(rows) \ dirty)
  <1> DEFINE b == FetchVideos(r.batch, rows)
             s == Fetched(r, rows, to)
  <1>1. Showable(r.batch) /\ rows \in Seq(Video) /\ to \in Refreshing
    BY DEF Sound, Fit, Later, Refreshing
  <1>2. /\ Showable(b) /\ ToSet(b) = ToSet(r.batch) \cup (ToSet(rows) \ dirty)
        /\ Len(b) <= Len(r.batch) + Len(rows)
    BY <1>1, FetchAdds
  <1>3. r.batch \in Seq(Video) /\ b \in Seq(Video)
    BY <1>1, <1>2 DEF Showable
  <1>4. Len(b) <= Slots
    <2>1. Len(b) \in Nat /\ Len(r.batch) \in Nat /\ Len(rows) \in Nat /\ Slots \in Nat
      BY <1>1, <1>3, SlotsAssumption
    <2>2. QED
      BY <1>2, <2>1 DEF Fit
  <1>5. s \in RefreshHandler /\ s.pc = to /\ s.user = r.user /\ s.last = r.last /\ s.batch = b
    <2>1. s = [r EXCEPT !.pc = to, !.batch = b]
      BY DEF Fetched
    <2> HIDE DEF b, s
    <2>2. QED
      BY <1>1, <1>3, <2>1 DEF RefreshHandler
  <1>6. to \notin {"reset", "readLast", "tag"}
    BY DEF Later
  <1> HIDE DEF b, s
  <1>7. Right(s)
    BY <1>2, <1>4, <1>5, <1>6, SoundIsRight
  <1>8. QED
    <2>1. Sound(s)
      BY <1>1, <1>5, <1>7 DEF Right
    <2>2. QED
      BY <1>2, <1>5, <1>7, <2>1 DEF Shown, s

(* A query whose rows fit keeps the types.                                 *)
LEMMA QueryTypes ==
  ASSUME TypeInv, NEW c \in Conn, NEW from \in Refreshing, NEW results, NEW to \in Later,
         Query(c, from, results, to), \A rows \in results : Fit(h[c], rows)
  PROVE  TypeInv'
  <1> DEFINE r == [h[c] EXCEPT !.pc = to]
  <1>1. /\ At(c, from) /\ calm' \subseteq calm /\ (Works \/ Fails)
        /\ Hold(c, r) \/ \E rows \in results : Hold(c, Fetched(h[c], rows, to))
        /\ UNCHANGED <<tables, last, id, stale, asked>>
    BY DEF Query, Fetched
  <1>2. h[c] \in RefreshHandler /\ Sound(h[c]) /\ to \in Refreshing
        /\ to \notin {"reset", "readLast", "tag", "regInsert"}
    BY <1>1, RefreshHandlerIs DEF At, Later, Refreshing
  <1>3. Right(r) /\ r.pc = to
    BY <1>2, GoesTo, SoundIsRight DEF Sound
  <1>4. ASSUME NEW rows \in results
        PROVE  Right(Fetched(h[c], rows, to)) /\ Fetched(h[c], rows, to).pc = to
    BY <1>2, FetchedIs
  <1>5. Takes(c, r) \/ \E rows \in results : Takes(c, Fetched(h[c], rows, to))
    BY <1>1, <1>2, <1>3, <1>4 DEF Takes, tables
  <1>6. Stored'
    BY <1>1, FaultTypes DEF TypeInv, Stored, tables
  <1>7. QED
    BY <1>5, <1>6, TakesTypes

-----------------------------------------------------------------------------
(* The four queries.                                                       *)

(* The slots are those of the batch and the free ones.                     *)
LEMMA FreeSlots ==
  ASSUME NEW r \in RefreshHandler, Sound(r)
  PROVE  /\ Len(r.batch) \in Nat /\ Free(r) \in Nat /\ Len(r.batch) + Free(r) = Slots
         /\ Cardinality(Shown(r)) = Len(r.batch) /\ IsFiniteSet(Shown(r)) /\ Shown(r) \subseteq Video
         /\ Shown(r) \cap dirty = {}
  <1>1. /\ r.batch \in Seq(Video) /\ Cardinality(Shown(r)) = Len(r.batch) /\ Shown(r) \cap dirty = {}
        /\ Len(r.batch) <= Slots
    BY DEF Sound, Showable, Shown
  <1>2. Len(r.batch) \in Nat /\ Slots \in Nat
    BY <1>1, SlotsAssumption
  <1>3. Shown(r) \subseteq Video
    BY <1>1, WholeSet DEF Shown
  <1>4. IsFiniteSet(Shown(r))
    BY <1>3, VideoAssumption, FS_Subset
  <1>5. QED
    BY <1>1, <1>2, <1>3, <1>4 DEF Free

(* Rows that a LIMIT gives.                                                *)
Limited(rows, S, n) == /\ rows \in Seq(Video) /\ ToSet(rows) \subseteq S /\ Len(rows) <= n
                       /\ Cardinality(ToSet(rows)) = Len(rows)
                       /\ Len(rows) = n \/ ToSet(rows) = S

(* The first query: at most seven rows, and the batch is empty.            *)
LEMMA TagRows ==
  ASSUME NEW r \in RefreshHandler, Sound(r), r.pc = "tag",
         NEW rows \in Seqs(Limit(FreshRows(r), TagSlots, TRUE))
  PROVE  Fit(r, rows) /\ Limited(rows, FreshRows(r), TagSlots)
  <1>1. FreshRows(r) \subseteq Video /\ TagSlots \in Int /\ Slots \in Nat /\ TagSlots <= Slots
    BY SlotsAssumption DEF FreshRows, Unwatched
  <1>2. Limited(rows, FreshRows(r), TagSlots)
    BY <1>1, LimitRows DEF Limited
  <1>3. r.batch = << >> /\ Len(r.batch) = 0 /\ Len(rows) \in Nat
    BY <1>2 DEF Sound, Limited
  <1>4. QED
    BY <1>1, <1>2, <1>3 DEF Fit, Limited

(* The queries with a LIMIT of the free slots.                             *)
LEMMA FreeRows ==
  ASSUME NEW r \in RefreshHandler, Sound(r), NEW S, S \subseteq Video,
         NEW rows \in Seqs(Limit(S, Free(r), FALSE))
  PROVE  Fit(r, rows) /\ Limited(rows, S, Free(r))
  <1>1. Free(r) \in Nat /\ Len(r.batch) \in Nat /\ Len(r.batch) + Free(r) = Slots
    BY FreeSlots
  <1>2. Limited(rows, S, Free(r))
    <2>1. Free(r) \in Int
      BY <1>1
    <2>2. QED
      BY <2>1, LimitRows DEF Limited
  <1>3. Len(rows) \in Nat /\ Len(rows) <= Free(r)
    BY <1>2 DEF Limited
  <1>4. QED
    BY <1>1, <1>2, <1>3 DEF Fit, Limited

OldestOf(r) == LET w == WatchedRows(r)
               IN SubSeq(w, 1, IF Free(r) < Len(w) THEN Free(r) ELSE Len(w))
Repeats(s) == Len(s) - Cardinality(ToSet(s))

(* The oldest watched rows repeat a video at most as often as t_UserRecv.  *)
LEMMA OldestRows ==
  ASSUME NEW r \in RefreshHandler, Sound(r), recv[r.user] \in Seq(Video)
  PROVE  LET rows == OldestOf(r) IN
         /\ Fit(r, rows) /\ Len(rows) <= Free(r)
         /\ ToSet(rows) \subseteq Watched(r.user) \ Shown(r)
         /\ Repeats(rows) <= Repeats(recv[r.user])
         /\ Len(rows) = Free(r) \/ ToSet(rows) = Watched(r.user) \ Shown(r)
  <1> DEFINE w == WatchedRows(r)
             n == IF Free(r) < Len(w) THEN Free(r) ELSE Len(w)
             rows == OldestOf(r)
             s == recv[r.user]
  <1>1. Free(r) \in Nat /\ Len(r.batch) \in Nat /\ Len(r.batch) + Free(r) = Slots
    BY FreeSlots
  <1>2. /\ w \in Seq(Video) /\ ToSet(w) = Watched(r.user) \ Shown(r)
        /\ Len(w) - Cardinality(ToSet(w)) <= Len(s) - Cardinality(ToSet(s))
    BY WithoutIs DEF WatchedRows, Watched, Shown
  <1>3. Len(w) \in Nat
    BY <1>2
  <1>4. n \in 0 .. Len(w) /\ n <= Free(r) /\ (n = Free(r) \/ n = Len(w))
    BY <1>1, <1>3
  <1>5. rows = SubSeq(w, 1, n)
    BY DEF OldestOf
  <1> HIDE DEF w, n, rows
  <1>6. /\ rows \in Seq(Video) /\ Len(rows) = n /\ ToSet(rows) \subseteq ToSet(w)
        /\ n - Cardinality(ToSet(rows)) <= Len(w) - Cardinality(ToSet(w))
        /\ n = Len(w) => ToSet(rows) = ToSet(w)
    BY <1>2, <1>4, <1>5, FirstEntries
  <1>7. Repeats(rows) <= Repeats(s)
    <2>1. Cardinality(ToSet(rows)) \in Nat /\ Cardinality(ToSet(w)) \in Nat /\ Cardinality(ToSet(s)) \in Nat
          /\ Len(s) \in Nat
      BY <1>2, <1>6, WholeSet, PartRepeatsLess
    <2>2. n \in Nat
      BY <1>4
    <2>3. QED
      BY <1>2, <1>3, <1>6, <2>1, <2>2 DEF Repeats
  <1>8. Fit(r, rows)
    BY <1>1, <1>4, <1>6 DEF Fit
  <1>9. QED
    BY <1>2, <1>4, <1>6, <1>7, <1>8 DEF rows

(* All steps of GetFileList.                                               *)
LEMMA RefreshStepTypes ==
  ASSUME TypeInv, NEW c \in Conn, GetFileList(c)
  PROVE  TypeInv'
  <1> DEFINE r == h[c]
  <1>1. CASE ByTag(c)
    <2>1. At(c, "tag") /\ "tag" \in Refreshing /\ "hot" \in Later
      BY <1>1 DEF ByTag, Query, Refreshing, Later
    <2>2. r \in RefreshHandler /\ Sound(r) /\ r.pc = "tag"
      BY <2>1, RefreshHandlerIs DEF At
    <2>3. QED
      BY <1>1, <2>1, <2>2, TagRows, QueryTypes DEF ByTag
  <1>2. CASE ByHeat(c)
    <2>1. At(c, "hot") /\ "hot" \in Refreshing /\ "seen" \in Later
      BY <1>2 DEF ByHeat, Query, Refreshing, Later
    <2>2. r \in RefreshHandler /\ Sound(r) /\ FreshRows(r) \subseteq Video
      BY <2>1, RefreshHandlerIs DEF At, FreshRows, Unwatched
    <2>3. QED
      BY <1>2, <2>1, <2>2, FreeRows, QueryTypes DEF ByHeat
  <1>3. CASE Seen(c)
    <2>1. At(c, "seen") /\ "seen" \in Refreshing /\ "watched" \in Later
      BY <1>3 DEF Seen, Query, Refreshing, Later
    <2>2. r \in RefreshHandler /\ Sound(r) /\ SeenRows(r) \subseteq Video
      BY <2>1, RefreshHandlerIs DEF At, SeenRows, Unwatched
    <2>3. QED
      BY <1>3, <2>1, <2>2, FreeRows, QueryTypes DEF Seen
  <1>4. CASE OldestWatched(c)
    <2>1. At(c, "watched") /\ "watched" \in Refreshing /\ "writeLast" \in Later
      BY <1>4 DEF OldestWatched, Query, Refreshing, Later
    <2>2. r \in RefreshHandler /\ Sound(r) /\ recv[r.user] \in Seq(Video)
      BY <2>1, RefreshHandlerIs DEF At
    <2>3. Fit(r, OldestOf(r))
      BY <2>2, OldestRows
    <2>4. Query(c, "watched", {OldestOf(r)}, "writeLast")
      BY <1>4 DEF OldestWatched, OldestOf
    <2>5. QED
      BY <2>1, <2>3, <2>4, QueryTypes
  <1>5. QED
    BY <1>1, <1>2, <1>3, <1>4, RefreshTypes, ResetTypes, ReadLastTypes, WriteLastTypes, SendTypes
       DEF GetFileList

(* The process ends and begins anew.                                       *)
LEMMA CrashTypes ==
  ASSUME TypeInv, Crash
  PROVE  TypeInv'
  <1>1. /\ Fails /\ h' = [c \in Conn |-> Idle] /\ id' = [c \in Conn |-> 0] /\ calm' = {}
        /\ stale' \subseteq stale \cup Video /\ last' = [u \in User |-> {}] /\ UNCHANGED <<tables, asked>>
    BY DEF Crash
  <1>2. HandlersRight'
    BY <1>1, OthersRight DEF HandlersRight, Right, Sound, Showable, Idle, Refreshing
  <1>3. Registering' = {}
    BY <1>1 DEF Registering, At, Idle
  <1>4. Cardinality(Registering') = 0
    BY <1>3, FS_EmptySet
  <1>5. Len(users) <= MaxUsers /\ users \in Seq(Account) /\ Len(users) \in Nat /\ MaxUsers \in Nat
    <2>1. users \in Seq(Account) /\ Cardinality(Registering) \in Nat /\ MaxUsers \in Nat
          /\ Len(users) + Cardinality(Registering) <= MaxUsers
      BY RegisteringCounts, BoundsAssumption DEF TypeInv, Room
    <2>2. QED
      BY <2>1
  <1>6. Room'
    BY <1>1, <1>4, <1>5 DEF Room, tables
  <1>7. Stored'
    BY <1>1, FaultTypes DEF TypeInv, Stored, tables
  <1>8. QED
    BY <1>2, <1>6, <1>7 DEF TypeInv

(* The invariant of the types is inductive.                                *)
LEMMA TypeNext == TypeInv /\ [Next]_vars => TypeInv'
  <1> SUFFICES ASSUME TypeInv, [Next]_vars PROVE TypeInv'
    OBVIOUS
  <1>1. CASE UNCHANGED vars
    BY <1>1 DEF vars, TypeInv, HandlersRight, Right, Sound, Showable, Room, Registering, At, Stored
  <1>2. QED
    BY <1>1, RegisterTypes, LoginTypes, ClickTypes, ReportTypes, InsertTypes, ClickInsertTypes,
       UpdateTypes, RefreshStepTypes, CrashTypes DEF Next

(* Every variable keeps its type: accounts stay within their bound however *)
(* registrations interleave (clogic.cpp:183), and handlers, batches,       *)
(* watched lists, log and counters hold what the statements of clogic.cpp  *)
(* read and write.                                                         *)
THEOREM TypesHold == Spec => []TypeOK
  <1>1. QED
    BY TypeInit, TypeNext, TypeInvTypes, PTL DEF Spec

-----------------------------------------------------------------------------
(* Accounts.                                                               *)

RowsOf(t, n) == {k \in DOMAIN t : t[k].name = n}
FirstOf(t, n) == CHOOSE k \in RowsOf(t, n) : \A j \in RowsOf(t, n) : k <= j

(* The row a login finds stays the same when rows are appended.            *)
LEMMA FirstKept ==
  ASSUME NEW t \in Seq(Account), NEW r \in Account, NEW n, RowsOf(t, n) # {}
  PROVE  FirstOf(Append(t, r), n) = FirstOf(t, n)
  <1> DEFINE old == RowsOf(t, n)
             new == RowsOf(Append(t, r), n)
  <1>1. old \subseteq new /\ new \subseteq old \cup {Len(t) + 1} /\ new \subseteq Nat
    BY DEF RowsOf
  <1>2. \A k \in old : k \in Nat /\ k < Len(t) + 1
    BY DEF RowsOf
  <1>3. PICK k \in old : \A j \in old : k <= j
    BY <1>2, Least
  <1>4. k \in new /\ \A j \in new : k <= j
    BY <1>1, <1>2, <1>3
  <1>5. \A l \in old : (\A j \in old : l <= j) => l = k
    BY <1>2, <1>3
  <1>6. \A l \in new : (\A j \in new : l <= j) => l = k
    BY <1>1, <1>4
  <1>7. FirstOf(t, n) = k
    BY <1>3, <1>5 DEF FirstOf
  <1>8. FirstOf(Append(t, r), n) = k
    BY <1>4, <1>6 DEF FirstOf
  <1>9. QED
    BY <1>7, <1>8

(* A step leaves t_UserData or appends one row to it.                      *)
LEMMA UsersGrow ==
  ASSUME TypeInv, [Next]_vars
  PROVE  UNCHANGED users \/ \E r \in Account : users' = Append(users, r)
  <1>1. CASE Crash \/ UNCHANGED vars
    BY <1>1 DEF Crash, vars, tables
  <1>2. ASSUME NEW c \in Conn, RegisterInsert(c)
        PROVE  UNCHANGED users \/ \E r \in Account : users' = Append(users, r)
    <2>1. h[c].name \in Name /\ h[c].password \in Password
      BY <1>2, Shapes DEF RegisterInsert, TypeInv, HandlersRight, Right, At
    <2>2. QED
      BY <1>2, <2>1 DEF RegisterInsert, Account
  <1>3. ASSUME NEW c \in Conn, NEW n \in Name, NEW p \in Password,
               RegisterRq(c, n, p) \/ LoginRq(c, n, p)
        PROVE  UNCHANGED users
    BY <1>3 DEF RegisterRq, LoginRq, tables
  <1>4. ASSUME NEW c \in Conn, NEW v \in Video,
               VideoClickRq(c, v) \/ \E k \in Completion : PlayReportRq(c, v, k)
        PROVE  UNCHANGED users
    BY <1>4 DEF VideoClickRq, PlayReportRq
  <1>5. ASSUME NEW c \in Conn, ClickInsert(c) \/ ReportUpdate(c) PROVE UNCHANGED users
    BY <1>5 DEF ClickInsert, ReportUpdate
  <1>6. ASSUME NEW c \in Conn, GetFileList(c) PROVE UNCHANGED users
    BY <1>6 DEF GetFileList, Refresh, Reset, ReadLast, ByTag, ByHeat, Seen, OldestWatched, Query,
                WriteLast, Send, tables
  <1>7. QED
    BY <1>1, <1>2, <1>3, <1>4, <1>5, <1>6 DEF Next

(* No step changes whom a login finds.                                     *)
LEMMA LoginKept ==
  ASSUME TypeInv, [Next]_vars, NEW n \in Name, Rows(n) # {}
  PROVE  IdOf(n)' = IdOf(n)
  <1>1. /\ IdOf(n) = FirstOf(users, n) /\ IdOf(n)' = FirstOf(users', n)
        /\ RowsOf(users, n) # {} /\ users \in Seq(Account)
    BY DEF IdOf, FirstOf, Rows, RowsOf, TypeInv, Room
  <1>2. QED
    BY <1>1, UsersGrow, FirstKept

(* A second registration of a name, which may slip in between the SELECT   *)
(* and the INSERT of the first (clogic.cpp:193-207), never takes its       *)
(* account over, whatever statements fail or are cut off.                  *)
THEOREM AccountSafe == Spec => AccountKept
  <1>1. TypeInv /\ [Next]_vars => [\A n \in Name : Rows(n) # {} => IdOf(n)' = IdOf(n)]_vars
    BY LoginKept
  <1>2. QED
    BY <1>1, TypeInit, TypeNext, PTL DEF Spec, AccountKept

-----------------------------------------------------------------------------
(* What a refresh that nobody disturbs has served.                         *)

Fresh(r) == (Unwatched(r.user) \ r.last) \ dirty

OnlyFresh(r) == r.pc \in {"hot", "seen"} => Shown(r) \subseteq Fresh(r)
OnlyUnwatched(r) == r.pc = "watched" => Shown(r) \subseteq Unwatched(r.user)
FreshServed(r) ==
  r.pc \in {"seen", "watched", "writeLast", "send"} =>
    \/ Fresh(r) \subseteq Shown(r)
    \/ Cardinality(Shown(r) \cap Fresh(r)) + Cardinality(dirty) >= Slots
UnwatchedServed(r) ==
  r.pc = "watched" =>
    \/ Unwatched(r.user) \ dirty \subseteq Shown(r)
    \/ Len(r.batch) + Cardinality(dirty) >= Slots
Filled(r) ==
  r.pc \in {"writeLast", "send"} =>
    Len(r.batch) + Cardinality(dirty) + Repeats(recv[r.user]) >= Fewest(Slots, Cardinality(Video))

Served(r) == /\ OnlyFresh(r) /\ OnlyUnwatched(r) /\ FreshServed(r)
             /\ UnwatchedServed(r) /\ Filled(r)
CalmInv == \A c \in calm : h[c].pc \in Refreshing /\ Served(h[c])

(* Videos are finitely many.                                               *)
LEMMA VideosFinite ==
  ASSUME TypeInv
  PROVE  /\ IsFiniteSet(dirty) /\ Cardinality(dirty) \in Nat /\ dirty \subseteq Video
         /\ Cardinality(Video) \in Nat
  BY VideoAssumption, FS_Subset, FS_CardinalityType DEF TypeInv, Stored

(* A batch grows by its new rows, but for those without a thumbnail.       *)
LEMMA Grows ==
  ASSUME TypeInv, NEW r \in RefreshHandler, Sound(r), NEW rows \in Seq(Video),
         ToSet(rows) \cap Shown(r) = {}
  PROVE  Cardinality(Shown(r) \cup (ToSet(rows) \ dirty)) + Cardinality(dirty)
           >= Len(r.batch) + Cardinality(ToSet(rows))
  <1> DEFINE S == Shown(r)
             R == ToSet(rows)
             N == R \ dirty
  <1>1. /\ IsFiniteSet(S) /\ Cardinality(S) = Len(r.batch) /\ Len(r.batch) \in Nat
    BY FreeSlots
  <1>2. IsFiniteSet(R) /\ Cardinality(R) \in Nat
    BY PartRepeatsLess
  <1>3. /\ IsFiniteSet(N) /\ Cardinality(N) = Cardinality(R) - Cardinality(R \cap dirty)
    BY <1>2, FS_Difference
  <1>4. Cardinality(R \cap dirty) <= Cardinality(dirty) /\ Cardinality(R \cap dirty) \in Nat
        /\ Cardinality(dirty) \in Nat
    <2>1. R \cap dirty \subseteq dirty
      OBVIOUS
    <2>2. IsFiniteSet(dirty) /\ Cardinality(dirty) \in Nat
      BY VideosFinite
    <2>3. IsFiniteSet(R \cap dirty) /\ Cardinality(R \cap dirty) <= Cardinality(dirty)
      BY <2>1, <2>2, FS_Subset
    <2>4. QED
      BY <2>2, <2>3, FS_CardinalityType
  <1>5. Cardinality(S \cup N) = Cardinality(S) + Cardinality(N) - Cardinality(S \cap N)
    BY <1>1, <1>3, FS_Union
  <1>6. S \cap N = {} /\ Cardinality(S \cap N) = 0
    BY FS_EmptySet
  <1> HIDE DEF S, R, N
  <1>7. Cardinality(S \cup N) + Cardinality(dirty) >= Len(r.batch) + Cardinality(R)
    BY <1>1, <1>2, <1>3, <1>4, <1>5, <1>6
  <1>8. QED
    BY <1>7 DEF S, R, N

(* Fresh videos once served stay in the batch.                             *)
LEMMA FreshStays ==
  ASSUME TypeInv, NEW r \in RefreshHandler, NEW s \in RefreshHandler, Sound(r), Sound(s),
         s.user = r.user, s.last = r.last, Shown(r) \subseteq Shown(s),
         r.pc \in {"seen", "watched", "writeLast", "send"}, FreshServed(r)
  PROVE  FreshServed(s)
  <1>1. Fresh(s) = Fresh(r)
    BY DEF Fresh
  <1>2. CASE Fresh(r) \subseteq Shown(r)
    BY <1>1, <1>2 DEF FreshServed
  <1>3. CASE Cardinality(Shown(r) \cap Fresh(r)) + Cardinality(dirty) >= Slots
    <2>1. Shown(r) \cap Fresh(r) \subseteq Shown(s) \cap Fresh(r)
      OBVIOUS
    <2>2. IsFiniteSet(Shown(s) \cap Fresh(r)) /\ IsFiniteSet(Shown(r) \cap Fresh(r))
      BY FreeSlots, FS_Intersection
    <2>3. /\ Cardinality(Shown(r) \cap Fresh(r)) <= Cardinality(Shown(s) \cap Fresh(r))
          /\ Cardinality(Shown(r) \cap Fresh(r)) \in Nat /\ Cardinality(Shown(s) \cap Fresh(r)) \in Nat
      BY <2>1, <2>2, FS_Subset, FS_CardinalityType
    <2>4. Cardinality(Shown(s) \cap Fresh(r)) + Cardinality(dirty) >= Slots
      BY <1>3, <2>3, VideosFinite, SlotsAssumption
    <2>5. QED
      BY <1>1, <2>4 DEF FreshServed
  <1>4. QED
    BY <1>2, <1>3 DEF FreshServed

(* After the first query only fresh videos are shown.                      *)
LEMMA TagServes ==
  ASSUME TypeInv, NEW r \in RefreshHandler, Sound(r), r.pc = "tag",
         NEW rows \in Seqs(Limit(FreshRows(r), TagSlots, TRUE))
  PROVE  Served(Fetched(r, rows, "hot")) /\ Fetched(r, rows, "hot").pc = "hot"
  <1> DEFINE s == Fetched(r, rows, "hot")
  <1>1. Fit(r, rows) /\ Limited(rows, FreshRows(r), TagSlots)
    BY TagRows
  <1>2. /\ s.pc = "hot" /\ s.user = r.user /\ s.last = r.last
        /\ Shown(s) = Shown(r) \cup (ToSet(rows) \ dirty)
    BY <1>1, FetchedIs DEF Later
  <1>3. Shown(r) = {}
    BY EmptyShowable DEF Sound, Shown
  <1>4. ToSet(rows) \subseteq FreshRows(r) /\ Fresh(s) = (Unwatched(r.user) \ r.last) \ dirty
    BY <1>1, <1>2 DEF Limited, Fresh
  <1>5. Shown(s) \subseteq Fresh(s)
    BY <1>2, <1>3, <1>4 DEF FreshRows
  <1> HIDE DEF s
  <1>6. Served(s)
    BY <1>2, <1>5 DEF Served, OnlyFresh, OnlyUnwatched, FreshServed, UnwatchedServed, Filled
  <1>7. QED
    BY <1>2, <1>6 DEF s

(* After the second all fresh ones are, or the slots are full.             *)
LEMMA HeatServes ==
  ASSUME TypeInv, NEW r \in RefreshHandler, Sound(r), r.pc = "hot", OnlyFresh(r),
         NEW rows \in Seqs(Limit(FreshRows(r), Free(r), FALSE))
  PROVE  Served(Fetched(r, rows, "seen")) /\ Fetched(r, rows, "seen").pc = "seen"
  <1> DEFINE s == Fetched(r, rows, "seen")
  <1>1. FreshRows(r) \subseteq Video
    BY DEF FreshRows, Unwatched
  <1>2. Fit(r, rows) /\ Limited(rows, FreshRows(r), Free(r))
    BY <1>1, FreeRows
  <1>3. /\ s.pc = "seen" /\ s.user = r.user /\ s.last = r.last
        /\ Shown(s) = Shown(r) \cup (ToSet(rows) \ dirty)
    BY <1>2, FetchedIs DEF Later
  <1>4. Fresh(s) = Fresh(r) /\ Fresh(r) = (Unwatched(r.user) \ r.last) \ dirty
    BY <1>3 DEF Fresh
  <1>5. Shown(r) \subseteq Fresh(r)
    BY DEF OnlyFresh
  <1>6. ToSet(rows) \subseteq FreshRows(r) /\ rows \in Seq(Video)
        /\ FreshRows(r) = (Unwatched(r.user) \ r.last) \ Shown(r)
    BY <1>2 DEF Limited, FreshRows, Shown
  <1>7. Shown(s) \subseteq Fresh(s)
    BY <1>3, <1>4, <1>5, <1>6
  <1>8. FreshServed(s)
    <2>1. CASE ToSet(rows) = FreshRows(r)
      <3>1. Fresh(s) \subseteq Shown(s)
        BY <1>3, <1>4, <1>6, <2>1
      <3>2. QED
        BY <3>1 DEF FreshServed
    <2>2. CASE Len(rows) = Free(r)
      <3>1. ToSet(rows) \cap Shown(r) = {}
        BY <1>6
      <3>2. Cardinality(Shown(s)) + Cardinality(dirty) >= Len(r.batch) + Cardinality(ToSet(rows))
        BY <1>3, <1>6, <3>1, Grows
      <3>3. Cardinality(ToSet(rows)) = Free(r) /\ Len(r.batch) + Free(r) = Slots
        BY <1>2, <2>2, FreeSlots DEF Limited
      <3>4. Shown(s) \cap Fresh(s) = Shown(s)
        BY <1>7
      <3>5. QED
        BY <3>2, <3>3, <3>4 DEF FreshServed
    <2>3. QED
      BY <1>2, <2>1, <2>2 DEF Limited
  <1> HIDE DEF s
  <1>9. Served(s)
    BY <1>3, <1>7, <1>8 DEF Served, OnlyFresh, OnlyUnwatched, UnwatchedServed, Filled
  <1>10. QED
    BY <1>3, <1>9 DEF s

(* After the third all unwatched ones are, or the slots are full.          *)
LEMMA SeenServes ==
  ASSUME TypeInv, NEW r \in RefreshHandler, Sound(r), r.pc = "seen", OnlyFresh(r), FreshServed(r),
         NEW rows \in Seqs(Limit(SeenRows(r), Free(r), FALSE))
  PROVE  Served(Fetched(r, rows, "watched")) /\ Fetched(r, rows, "watched").pc = "watched"
  <1> DEFINE s == Fetched(r, rows, "watched")
             U == Unwatched(r.user)
  <1>1. SeenRows(r) \subseteq Video
    BY DEF SeenRows, Unwatched
  <1>2. Fit(r, rows) /\ Limited(rows, SeenRows(r), Free(r))
    BY <1>1, FreeRows
  <1>3. /\ s \in RefreshHandler /\ Sound(s) /\ s.pc = "watched" /\ s.user = r.user /\ s.last = r.last
        /\ Shown(s) = Shown(r) \cup (ToSet(rows) \ dirty)
    BY <1>2, FetchedIs DEF Later
  <1>4. Shown(r) \subseteq U
    BY DEF OnlyFresh, Fresh
  <1>5. ToSet(rows) \subseteq SeenRows(r) /\ rows \in Seq(Video) /\ SeenRows(r) = U \ Shown(r)
    BY <1>2 DEF Limited, SeenRows, Shown
  <1>6. Shown(s) \subseteq U /\ Shown(r) \subseteq Shown(s)
    BY <1>3, <1>4, <1>5
  <1>7. FreshServed(s)
    BY <1>3, <1>6, FreshStays
  <1>8. UnwatchedServed(s)
    <2>1. CASE ToSet(rows) = SeenRows(r)
      <3>1. U \ dirty \subseteq Shown(s)
        BY <1>3, <1>5, <2>1
      <3>2. QED
        BY <1>3, <3>1 DEF UnwatchedServed
    <2>2. CASE Len(rows) = Free(r)
      <3>1. ToSet(rows) \cap Shown(r) = {}
        BY <1>5
      <3>2. Cardinality(Shown(s)) + Cardinality(dirty) >= Len(r.batch) + Cardinality(ToSet(rows))
        BY <1>3, <1>5, <3>1, Grows
      <3>3. Cardinality(ToSet(rows)) = Free(r) /\ Len(r.batch) + Free(r) = Slots
        BY <1>2, <2>2, FreeSlots DEF Limited
      <3>4. Cardinality(Shown(s)) = Len(s.batch)
        BY <1>3, FreeSlots
      <3>5. QED
        BY <3>2, <3>3, <3>4 DEF UnwatchedServed
    <2>3. QED
      BY <1>2, <2>1, <2>2 DEF Limited
  <1> HIDE DEF s
  <1>9. Served(s)
    BY <1>3, <1>6, <1>7, <1>8 DEF Served, OnlyFresh, OnlyUnwatched, Filled
  <1>10. QED
    BY <1>3, <1>9 DEF s

(* After the fourth all videos are, or the slots are full.                 *)
LEMMA WatchedServes ==
  ASSUME TypeInv, NEW r \in RefreshHandler, Sound(r), r.pc = "watched", recv[r.user] \in Seq(Video),
         FreshServed(r), UnwatchedServed(r)
  PROVE  /\ Served(Fetched(r, OldestOf(r), "writeLast"))
         /\ Fetched(r, OldestOf(r), "writeLast").pc = "writeLast"
  <1> DEFINE rows == OldestOf(r)
             s == Fetched(r, rows, "writeLast")
             W == Watched(r.user)
             two == Repeats(recv[r.user])
  <1>1. /\ Fit(r, rows) /\ ToSet(rows) \subseteq W \ Shown(r) /\ Repeats(rows) <= two
        /\ Len(rows) = Free(r) \/ ToSet(rows) = W \ Shown(r)
    BY OldestRows
  <1>2. /\ s \in RefreshHandler /\ Sound(s) /\ s.pc = "writeLast" /\ s.user = r.user /\ s.last = r.last
        /\ Shown(s) = Shown(r) \cup (ToSet(rows) \ dirty)
    BY <1>1, FetchedIs DEF Later
  <1>3. FreshServed(s)
    BY <1>2, FreshStays
  <1>4. /\ Len(r.batch) \in Nat /\ Free(r) \in Nat /\ Len(r.batch) + Free(r) = Slots
        /\ Cardinality(Shown(r)) = Len(r.batch) /\ IsFiniteSet(Shown(s))
        /\ Cardinality(Shown(s)) = Len(s.batch) /\ Len(s.batch) \in Nat
    BY <1>2, FreeSlots
  <1>5. rows \in Seq(Video) /\ Len(rows) \in Nat /\ Cardinality(ToSet(rows)) \in Nat
    <2>1. rows \in Seq(Video)
      BY <1>1 DEF Fit
    <2> HIDE DEF rows
    <2>2. {} \subseteq DOMAIN rows /\ Len(rows) \in Nat
      BY <2>1
    <2>3. QED
      BY <2>1, <2>2, PartRepeatsLess
  <1>6. two \in Nat
    <2>1. /\ Cardinality(ToSet(recv[r.user])) \in Nat /\ Len(recv[r.user]) \in Nat
          /\ Cardinality(ToSet(recv[r.user])) <= Len(recv[r.user])
      BY WholeSet, PartRepeatsLess
    <2>2. QED
      BY <2>1 DEF Repeats
  <1>7. /\ Cardinality(dirty) \in Nat /\ Cardinality(Video) \in Nat /\ IsFiniteSet(dirty)
        /\ Slots \in Nat /\ dirty \subseteq Video
    BY VideosFinite, SlotsAssumption
  <1>8. Len(s.batch) + Cardinality(dirty) + two >= Fewest(Slots, Cardinality(Video))
    <2>1. CASE Len(rows) = Free(r)
      <3>1. ToSet(rows) \cap Shown(r) = {}
        BY <1>1
      <3>2. Cardinality(Shown(s)) + Cardinality(dirty) >= Len(r.batch) + Cardinality(ToSet(rows))
        BY <1>2, <1>5, <3>1, Grows
      <3>3. Len(rows) - Cardinality(ToSet(rows)) <= two
        BY <1>1 DEF Repeats
      <3> HIDE DEF two, rows, s
      <3>4. Len(s.batch) + Cardinality(dirty) >= Len(r.batch) + Cardinality(ToSet(rows))
        BY <1>4, <3>2
      <3>5. Cardinality(ToSet(rows)) >= Free(r) - two
        BY <1>4, <1>5, <1>6, <2>1, <3>3
      <3>6. Len(s.batch) + Cardinality(dirty) + two >= Slots
        <4>1. \A a, d, t, b, c, f \in Nat : a + d >= b + c /\ c >= f - t => a + d + t >= b + f
          OBVIOUS
        <4>2. Len(s.batch) + Cardinality(dirty) + two >= Len(r.batch) + Free(r)
          BY <1>4, <1>5, <1>6, <1>7, <3>4, <3>5, <4>1
        <4>3. QED
          BY <1>4, <4>2
      <3>7. QED
        BY <1>4, <1>6, <1>7, <3>6 DEF Fewest
    <2>2. CASE Len(r.batch) + Cardinality(dirty) >= Slots
      <3>1. Cardinality(Shown(r)) <= Cardinality(Shown(s))
        BY <1>2, <1>4, FS_Subset
      <3> HIDE DEF two, rows, s
      <3>2. Len(s.batch) >= Len(r.batch)
        BY <1>4, <3>1
      <3>3. Len(s.batch) + Cardinality(dirty) + two >= Slots
        <4>1. \A a, d, t, b, f \in Nat : a >= b /\ b + d >= f => a + d + t >= f
          OBVIOUS
        <4>2. QED
          BY <1>4, <1>6, <1>7, <2>2, <3>2, <4>1
      <3>4. QED
        BY <1>4, <1>6, <1>7, <3>3 DEF Fewest
    <2>3. CASE ToSet(rows) = W \ Shown(r) /\ Unwatched(r.user) \ dirty \subseteq Shown(r)
      <3>1. Video \ dirty \subseteq Shown(s)
        BY <1>2, <2>3 DEF Unwatched
      <3>2. Cardinality(Video \ dirty) <= Cardinality(Shown(s))
        BY <1>4, <3>1, FS_Subset
      <3>3. Video \cap dirty = dirty
        BY <1>7
      <3>4. Cardinality(Video \ dirty) = Cardinality(Video) - Cardinality(dirty)
        BY <3>3, VideoAssumption, FS_Difference
      <3> HIDE DEF two, rows, s
      <3>5. Len(s.batch) + Cardinality(dirty) + two >= Cardinality(Video)
        BY <1>4, <1>6, <1>7, <3>2, <3>4
      <3>6. QED
        BY <1>4, <1>6, <1>7, <3>5 DEF Fewest
    <2>4. QED
      BY <1>1, <2>1, <2>2, <2>3 DEF UnwatchedServed
  <1> HIDE DEF s
  <1>9. Served(s)
    BY <1>2, <1>3, <1>8 DEF Served, OnlyFresh, OnlyUnwatched, UnwatchedServed, Filled
  <1>10. QED
    BY <1>2, <1>9 DEF s

(* A refresh goes on undisturbed only when its own handler does, or when   *)
(* a step of another connection leaves its user's rows alone.              *)
OthersCalm(c) ==
  /\ UNCHANGED dirty /\ calm' \subseteq calm \cup {c}
  /\ \A d \in Conn \ {c} : h'[d] = h[d]
  /\ \A d \in calm' \ {c} : recv'[h[d].user] = recv[h[d].user]

(* A step keeps the promises of the other connections' refreshes.          *)
LEMMA CalmGoesOn ==
  ASSUME CalmInv, TypeInv, NEW c \in Conn, OthersCalm(c),
         c \in calm' => h'[c].pc \in Refreshing /\ Served(h[c])'
  PROVE  CalmInv'
  <1>1. ASSUME NEW d \in calm', d # c PROVE h'[d].pc \in Refreshing /\ Served(h[d])'
    <2>1. d \in calm /\ d \in Conn
      BY <1>1 DEF OthersCalm, TypeInv, Stored
    <2>2. h[d].pc \in Refreshing /\ Served(h[d])
      BY <2>1 DEF CalmInv
    <2>3. h'[d] = h[d] /\ dirty' = dirty /\ recv'[h[d].user] = recv[h[d].user]
      BY <1>1, <2>1 DEF OthersCalm
    <2>4. Unwatched(h[d].user)' = Unwatched(h[d].user)
      BY <2>3 DEF Unwatched, Watched
    <2>5. Served(h[d])'
      BY <2>2, <2>3, <2>4
         DEF Served, OnlyFresh, OnlyUnwatched, FreshServed, UnwatchedServed, Filled, Fresh, Shown
    <2>6. QED
      BY <2>2, <2>3, <2>5
  <1>2. QED
    BY <1>1 DEF CalmInv

(* A step writes its own handler only.                                     *)
LEMMA HoldOthers ==
  ASSUME TypeInv, NEW c \in Conn, NEW r, Hold(c, r)
  PROVE  h'[c] = r /\ \A d \in Conn \ {c} : h'[d] = h[d]
  BY DEF Hold, TypeInv, HandlersRight

(* A handler that is in no refresh is not calm.                            *)
LEMMA OutsideStays ==
  ASSUME CalmInv, TypeInv, NEW c \in Conn, h[c].pc \notin Refreshing, OthersCalm(c),
         calm' \subseteq calm
  PROVE  CalmInv'
  <1>1. c \notin calm'
    BY DEF CalmInv
  <1>2. QED
    BY <1>1, CalmGoesOn

(* A statement that writes the rows of user u disturbs u's other refreshes. *)
LEMMA WriteDisturbs ==
  ASSUME CalmInv, TypeInv, NEW c \in Conn, NEW r, Hold(c, r), NEW u, UNCHANGED dirty, NEW s,
         recv' = [recv EXCEPT ![u] = s] \/ UNCHANGED recv, Disturb(c, u)
  PROVE  OthersCalm(c)
  <1>1. calm' = calm \ {d \in Conn \ {c} : h[d].pc \in Refreshing /\ h[d].user = u}
    BY DEF Disturb
  <1>2. ASSUME NEW d \in calm', d # c PROVE recv'[h[d].user] = recv[h[d].user]
    <2>1. d \in calm /\ d \in Conn \ {c} /\ h[d].pc \in Refreshing
      BY <1>1, <1>2 DEF CalmInv, TypeInv, Stored
    <2>2. h[d].user # u /\ h[d].user \in User
      BY <1>1, <1>2, <2>1, RefreshHandlerIs
    <2>3. recv \in [User -> Seq(Video)]
      BY DEF TypeInv, Stored
    <2>4. QED
      BY <2>2, <2>3
  <1>3. QED
    BY <1>1, <1>2, HoldOthers DEF OthersCalm

(* A step that writes no watched list disturbs nobody.                     *)
LEMMA RestCalm ==
  ASSUME TypeInv, NEW c \in Conn, NEW r, Hold(c, r), UNCHANGED <<dirty, recv>>,
         calm' \subseteq calm \cup {c}
  PROVE  OthersCalm(c)
  BY HoldOthers DEF OthersCalm

(* Registrations and reports disturb no refresh.                           *)
LEMMA AccountsCalm ==
  ASSUME CalmInv, TypeInv, NEW c \in Conn,
         \/ \E n \in Name, p \in Password : RegisterRq(c, n, p)
         \/ RegisterInsert(c) \/ ReportUpdate(c)
         \/ \E v \in Video, k \in Completion : PlayReportRq(c, v, k)
  PROVE  CalmInv'
  <1>1. /\ h[c].pc \notin Refreshing /\ UNCHANGED <<dirty, recv, calm>> /\ \E r : Hold(c, r)
    BY DEF RegisterRq, RegisterInsert, ReportUpdate, PlayReportRq, At, Refreshing, tables
  <1>2. OthersCalm(c)
    BY <1>1, RestCalm
  <1>3. QED
    BY <1>1, <1>2, OutsideStays

(* A login disturbs no refresh.                                            *)
LEMMA LoginCalm ==
  ASSUME CalmInv, NEW c \in Conn, NEW n \in Name, NEW p \in Password, LoginRq(c, n, p)
  PROVE  CalmInv'
  <1>1. UNCHANGED <<dirty, recv, calm, h>>
    BY DEF LoginRq, tables
  <1>2. QED
    BY <1>1 DEF CalmInv, Served, OnlyFresh, OnlyUnwatched, FreshServed, UnwatchedServed, Filled,
                Fresh, Shown, Unwatched, Watched

(* A click ends the calm of its user's refreshes only.                     *)
LEMMA ClickCalm ==
  ASSUME CalmInv, TypeInv, NEW c \in Conn, NEW v \in Video, VideoClickRq(c, v)
  PROVE  CalmInv'
  <1> DEFINE u == id[c]
             s == Without(recv[u], {v})
             r == [pc |-> "clickInsert", user |-> u, video |-> v]
  <1>1. /\ h[c].pc \notin Refreshing /\ Hold(c, r) /\ UNCHANGED dirty /\ Disturb(c, u)
        /\ recv' = [recv EXCEPT ![u] = s] \/ UNCHANGED recv
    BY DEF VideoClickRq, At, Refreshing
  <1> HIDE DEF u, s, r
  <1>2. OthersCalm(c)
    BY <1>1, WriteDisturbs
  <1>3. QED
    BY <1>1, <1>2, OutsideStays DEF Disturb

(* So does its second statement.                                           *)
LEMMA ClickInsertCalm ==
  ASSUME CalmInv, TypeInv, NEW c \in Conn, ClickInsert(c)
  PROVE  CalmInv'
  <1> DEFINE u == h[c].user
             s == Append(recv[u], h[c].video)
  <1>1. /\ h[c].pc \notin Refreshing /\ Hold(c, Idle) /\ UNCHANGED dirty /\ Disturb(c, u)
        /\ recv' = [recv EXCEPT ![u] = s] \/ UNCHANGED recv
    BY DEF ClickInsert, At, Refreshing
  <1> HIDE DEF u, s
  <1>2. OthersCalm(c)
    BY <1>1, WriteDisturbs
  <1>3. QED
    BY <1>1, <1>2, OutsideStays DEF Disturb

(* Nothing is promised before the first query.                             *)
LEMMA NothingYet ==
  ASSUME NEW c, h'[c].pc \in {"reset", "readLast", "tag"}
  PROVE  h'[c].pc \in Refreshing /\ Served(h[c])'
  BY DEF Refreshing, Served, OnlyFresh, OnlyUnwatched, FreshServed, UnwatchedServed, Filled

(* The steps before the first query.                                       *)
LEMMA BeginCalm ==
  ASSUME CalmInv, TypeInv, NEW c \in Conn, Refresh(c) \/ Reset(c) \/ ReadLast(c)
  PROVE  CalmInv'
  <1>1. CASE Refresh(c)
    <2> DEFINE to == IF Unwatched(id[c]) = {} THEN "reset" ELSE "readLast"
               r == [pc |-> to, user |-> id[c], last |-> {}, batch |-> << >>]
    <2>1. Hold(c, r) /\ UNCHANGED <<dirty, recv>> /\ calm' = calm \cup {c}
      BY <1>1 DEF Refresh, tables
    <2>2. h'[c] = r /\ OthersCalm(c) /\ r.pc \in {"reset", "readLast"}
      BY <2>1, HoldOthers, RestCalm
    <2> HIDE DEF r
    <2>3. h'[c].pc \in Refreshing /\ Served(h[c])'
      BY <2>2, NothingYet
    <2>4. QED
      BY <2>2, <2>3, CalmGoesOn
  <1>2. CASE Reset(c)
    <2> DEFINE u == h[c].user
               r == [h[c] EXCEPT !.pc = "readLast"]
    <2>1. h[c].pc = "reset" /\ UNCHANGED dirty
          /\ \/ recv' = [recv EXCEPT ![u] = << >>] /\ Hold(c, r) /\ Disturb(c, u)
             \/ Hold(c, Idle) /\ calm' = calm \ {c} /\ UNCHANGED recv
      BY <1>2 DEF Reset, At
    <2>2. h[c] \in RefreshHandler /\ r.pc = "readLast"
      BY <2>1, RefreshHandlerIs DEF Refreshing, RefreshHandler
    <2> HIDE DEF u, r
    <2>3. CASE recv' = [recv EXCEPT ![u] = << >>] /\ Hold(c, r) /\ Disturb(c, u)
      <3>1. OthersCalm(c) /\ h'[c] = r
        BY <2>1, <2>3, WriteDisturbs, HoldOthers
      <3>2. h'[c].pc \in Refreshing /\ Served(h[c])'
        BY <2>2, <3>1, NothingYet
      <3>3. QED
        BY <3>1, <3>2, CalmGoesOn
    <2>4. CASE Hold(c, Idle) /\ calm' = calm \ {c} /\ UNCHANGED recv
      <3>1. OthersCalm(c) /\ c \notin calm'
        BY <2>1, <2>4, RestCalm
      <3>2. QED
        BY <3>1, CalmGoesOn
    <2>5. QED
      BY <2>1, <2>3, <2>4
  <1>3. CASE ReadLast(c)
    <2> DEFINE r == [h[c] EXCEPT !.pc = "tag", !.last = last[h[c].user]]
    <2>1. h[c].pc = "readLast" /\ Hold(c, r) /\ UNCHANGED <<dirty, recv, calm>>
      BY <1>3 DEF ReadLast, At, tables
    <2>2. h[c] \in RefreshHandler
      BY <2>1, RefreshHandlerIs DEF Refreshing
    <2>3. r.pc = "tag"
      BY <2>2 DEF RefreshHandler
    <2> HIDE DEF r
    <2>4. h'[c] = r /\ OthersCalm(c)
      BY <2>1, HoldOthers, RestCalm
    <2>5. h'[c].pc \in Refreshing /\ Served(h[c])'
      BY <2>3, <2>4, NothingYet
    <2>6. QED
      BY <2>4, <2>5, CalmGoesOn
  <1>4. QED
    BY <1>1, <1>2, <1>3

(* A promise of what a handler holds is one about the next state when      *)
(* neither the user's rows nor the thumbnails change.                      *)
LEMMA ServedNext ==
  ASSUME NEW c, NEW s, h'[c] = s, Served(s), s.pc \in Refreshing, UNCHANGED <<dirty, recv>>
  PROVE  h'[c].pc \in Refreshing /\ Served(h[c])'
  <1>1. Unwatched(h[c].user)' = Unwatched(s.user) /\ dirty' = dirty /\ recv' = recv
    BY DEF Unwatched, Watched
  <1>2. QED
    BY <1>1 DEF Served, OnlyFresh, OnlyUnwatched, FreshServed, UnwatchedServed, Filled, Fresh, Shown

(* A query that serves what it promises keeps the calm invariant.          *)
LEMMA QueryCalm ==
  ASSUME CalmInv, TypeInv, NEW c \in Conn, NEW from \in Refreshing, NEW results, NEW to \in Later,
         Query(c, from, results, to),
         c \in calm =>
           \A rows \in results : /\ Served(Fetched(h[c], rows, to))
                                 /\ Fetched(h[c], rows, to).pc = to
  PROVE  CalmInv'
  <1>1. /\ UNCHANGED <<dirty, recv>> /\ to \in Refreshing
        /\ \/ (\E rows \in results : Hold(c, Fetched(h[c], rows, to))) /\ UNCHANGED calm
           \/ Hold(c, [h[c] EXCEPT !.pc = to]) /\ calm' = calm \ {c}
    BY DEF Query, Fetched, tables, Later, Refreshing
  <1>2. CASE (\E rows \in results : Hold(c, Fetched(h[c], rows, to))) /\ UNCHANGED calm
    <2>1. PICK rows \in results : Hold(c, Fetched(h[c], rows, to))
      BY <1>2
    <2>2. h'[c] = Fetched(h[c], rows, to) /\ OthersCalm(c)
      BY <1>1, <1>2, <2>1, HoldOthers, RestCalm
    <2>3. c \in calm' => h'[c].pc \in Refreshing /\ Served(h[c])'
      BY <1>1, <1>2, <2>2, ServedNext
    <2>4. QED
      BY <2>2, <2>3, CalmGoesOn
  <1>3. CASE Hold(c, [h[c] EXCEPT !.pc = to]) /\ calm' = calm \ {c}
    <2>1. OthersCalm(c) /\ c \notin calm'
      BY <1>1, <1>3, RestCalm
    <2>2. QED
      BY <2>1, CalmGoesOn
  <1>4. QED
    BY <1>1, <1>2, <1>3

(* The four queries do.                                                    *)
LEMMA QueriesCalm ==
  ASSUME CalmInv, TypeInv, NEW c \in Conn, ByTag(c) \/ ByHeat(c) \/ Seen(c) \/ OldestWatched(c)
  PROVE  CalmInv'
  <1> DEFINE r == h[c]
  <1>1. CASE ByTag(c)
    <2> DEFINE R == Seqs(Limit(FreshRows(r), TagSlots, TRUE))
    <2>1. Query(c, "tag", R, "hot") /\ "tag" \in Refreshing /\ "hot" \in Later /\ r.pc = "tag"
      BY <1>1 DEF ByTag, Query, At, Refreshing, Later
    <2>2. r \in RefreshHandler /\ Sound(r)
      BY <2>1, RefreshHandlerIs
    <2>3. ASSUME NEW rows \in R
          PROVE  Served(Fetched(r, rows, "hot")) /\ Fetched(r, rows, "hot").pc = "hot"
      BY <2>1, <2>2, TagServes
    <2> HIDE DEF R
    <2>4. QED
      BY <2>1, <2>3, QueryCalm
  <1>2. CASE ByHeat(c)
    <2> DEFINE R == Seqs(Limit(FreshRows(r), Free(r), FALSE))
    <2>1. Query(c, "hot", R, "seen") /\ "hot" \in Refreshing /\ "seen" \in Later /\ r.pc = "hot"
      BY <1>2 DEF ByHeat, Query, At, Refreshing, Later
    <2>2. r \in RefreshHandler /\ Sound(r) /\ FreshRows(r) \subseteq Video
      BY <2>1, RefreshHandlerIs DEF FreshRows, Unwatched
    <2>3. c \in calm => OnlyFresh(r)
      BY DEF CalmInv, Served
    <2>4. ASSUME NEW rows \in R
          PROVE  c \in calm => /\ Served(Fetched(r, rows, "seen"))
                              /\ Fetched(r, rows, "seen").pc = "seen"
      BY <2>1, <2>2, <2>3, HeatServes
    <2> HIDE DEF R
    <2>5. QED
      BY <2>1, <2>4, QueryCalm
  <1>3. CASE Seen(c)
    <2> DEFINE R == Seqs(Limit(SeenRows(r), Free(r), FALSE))
    <2>1. Query(c, "seen", R, "watched") /\ "seen" \in Refreshing /\ "watched" \in Later /\ r.pc = "seen"
      BY <1>3 DEF Seen, Query, At, Refreshing, Later
    <2>2. r \in RefreshHandler /\ Sound(r) /\ SeenRows(r) \subseteq Video
      BY <2>1, RefreshHandlerIs DEF SeenRows, Unwatched
    <2>3. c \in calm => OnlyFresh(r) /\ FreshServed(r)
      BY DEF CalmInv, Served
    <2>4. ASSUME NEW rows \in R
          PROVE  c \in calm => /\ Served(Fetched(r, rows, "watched"))
                              /\ Fetched(r, rows, "watched").pc = "watched"
      BY <2>1, <2>2, <2>3, SeenServes
    <2> HIDE DEF R
    <2>5. QED
      BY <2>1, <2>4, QueryCalm
  <1>4. CASE OldestWatched(c)
    <2> DEFINE R == {OldestOf(r)}
    <2>1. /\ Query(c, "watched", R, "writeLast") /\ "watched" \in Refreshing /\ "writeLast" \in Later
          /\ r.pc = "watched"
      BY <1>4 DEF OldestWatched, OldestOf, Query, At, Refreshing, Later
    <2>2. r \in RefreshHandler /\ Sound(r) /\ recv[r.user] \in Seq(Video)
      BY <2>1, RefreshHandlerIs
    <2>3. c \in calm => FreshServed(r) /\ UnwatchedServed(r)
      BY DEF CalmInv, Served
    <2>4. ASSUME NEW rows \in R
          PROVE  c \in calm => /\ Served(Fetched(r, rows, "writeLast"))
                              /\ Fetched(r, rows, "writeLast").pc = "writeLast"
      BY <2>1, <2>2, <2>3, WatchedServes
    <2> HIDE DEF R
    <2>5. QED
      BY <2>1, <2>4, QueryCalm
  <1>5. QED
    BY <1>1, <1>2, <1>3, <1>4

(* The steps after the last query.                                         *)
LEMMA EndCalm ==
  ASSUME CalmInv, TypeInv, NEW c \in Conn, WriteLast(c) \/ Send(c)
  PROVE  CalmInv'
  <1>1. CASE WriteLast(c)
    <2> DEFINE s == [h[c] EXCEPT !.pc = "send"]
    <2>1. h[c].pc = "writeLast" /\ Hold(c, s) /\ UNCHANGED <<dirty, recv, calm>>
      BY <1>1 DEF WriteLast, At, tables
    <2>2. h[c] \in RefreshHandler /\ "send" \in Refreshing
      BY <2>1, RefreshHandlerIs DEF Refreshing
    <2>3. s.pc = "send" /\ s.user = h[c].user /\ s.last = h[c].last /\ s.batch = h[c].batch
      BY <2>2, GoesTo
    <2>4. h'[c] = s /\ OthersCalm(c)
      BY <2>1, HoldOthers, RestCalm
    <2> HIDE DEF s
    <2>5. c \in calm => Served(s)
      <3>1. c \in calm => FreshServed(h[c]) /\ Filled(h[c])
        BY DEF CalmInv, Served
      <3>2. Shown(s) = Shown(h[c]) /\ Fresh(s) = Fresh(h[c])
        BY <2>3 DEF Shown, Fresh
      <3>3. QED
        BY <2>1, <2>3, <3>1, <3>2
           DEF Served, OnlyFresh, OnlyUnwatched, FreshServed, UnwatchedServed, Filled
    <2>6. c \in calm' => h'[c].pc \in Refreshing /\ Served(h[c])'
      BY <2>1, <2>2, <2>3, <2>4, <2>5, ServedNext
    <2>7. QED
      BY <2>4, <2>6, CalmGoesOn
  <1>2. CASE Send(c)
    <2>1. Hold(c, Idle) /\ calm' = calm \ {c} /\ UNCHANGED <<dirty, recv>>
      BY <1>2 DEF Send, tables
    <2>2. OthersCalm(c) /\ c \notin calm'
      BY <2>1, RestCalm
    <2>3. QED
      BY <2>2, CalmGoesOn
  <1>3. QED
    BY <1>1, <1>2

(* The promises to undisturbed refreshes are inductive.                    *)
LEMMA CalmNext == CalmInv /\ TypeInv /\ [Next]_vars => CalmInv'
  <1> SUFFICES ASSUME CalmInv, TypeInv, [Next]_vars PROVE CalmInv'
    OBVIOUS
  <1>1. CASE UNCHANGED vars
    BY <1>1 DEF vars, CalmInv, Served, OnlyFresh, OnlyUnwatched, FreshServed, UnwatchedServed, Filled,
                Fresh, Shown, Unwatched, Watched
  <1>2. CASE Crash
    BY <1>2 DEF Crash, CalmInv
  <1>3. ASSUME NEW c \in Conn, GetFileList(c) PROVE CalmInv'
    BY <1>3, BeginCalm, QueriesCalm, EndCalm DEF GetFileList
  <1>4. ASSUME NEW c \in Conn, RegisterInsert(c) \/ ReportUpdate(c) PROVE CalmInv'
    BY <1>4, AccountsCalm
  <1>5. ASSUME NEW c \in Conn, NEW n \in Name, NEW p \in Password, RegisterRq(c, n, p) PROVE CalmInv'
    BY <1>5, AccountsCalm
  <1>6. ASSUME NEW c \in Conn, NEW v \in Video, NEW k \in Completion, PlayReportRq(c, v, k) PROVE CalmInv'
    BY <1>6, AccountsCalm
  <1>7. QED
    BY <1>1, <1>2, <1>3, <1>4, <1>5, <1>6, LoginCalm, ClickCalm, ClickInsertCalm DEF Next

(* No refresh is on its way at first.                                      *)
LEMMA CalmInit == Init => CalmInv
  BY DEF Init, CalmInv

(* What the invariant says of a finished list.                             *)
LEMMA NoBlankFollows == TypeInv /\ CalmInv => NoBlank
  <1> SUFFICES ASSUME TypeInv, CalmInv, NEW c \in Conn, Ready(c)
               PROVE  LET r == h[c]
                          twice == Len(recv[r.user]) - Cardinality(Watched(r.user))
                      IN /\ Len(r.batch) <= Slots /\ Cardinality(ToSet(r.batch)) = Len(r.batch)
                         /\ c \in calm =>
                              Len(r.batch) + Cardinality(dirty) + twice
                                >= Fewest(Slots, Cardinality(Video))
    BY DEF NoBlank
  <1>1. h[c].pc = "send" /\ h[c].pc \in Refreshing
    BY DEF Ready, At, Refreshing
  <1>2. Len(h[c].batch) <= Slots /\ Cardinality(ToSet(h[c].batch)) = Len(h[c].batch)
    BY <1>1, RefreshHandlerIs DEF Sound, Showable
  <1>3. c \in calm => Filled(h[c])
    BY DEF CalmInv, Served
  <1>4. QED
    BY <1>1, <1>2, <1>3 DEF Filled, Repeats, Watched

(* Videos that are not fresh fill only what fresh ones could not.          *)
LEMMA FreshFirstFollows == TypeInv /\ CalmInv => FreshFirst
  <1> SUFFICES ASSUME TypeInv, CalmInv, NEW c \in calm, Ready(c),
                      Cardinality(Shown(h[c]) \ Fresh(h[c])) > Cardinality(dirty)
               PROVE  Fresh(h[c]) \subseteq Shown(h[c])
    BY DEF FreshFirst, Shown, Fresh
  <1> DEFINE S == Shown(h[c])
             F == Fresh(h[c])
  <1>1. c \in Conn /\ h[c].pc = "send" /\ h[c].pc \in Refreshing /\ FreshServed(h[c])
    BY DEF Ready, At, Refreshing, TypeInv, Stored, CalmInv, Served
  <1>2. h[c] \in RefreshHandler /\ Sound(h[c])
    BY <1>1, RefreshHandlerIs
  <1>3. IsFiniteSet(S) /\ Cardinality(S) \in Nat /\ Cardinality(S) <= Slots
    BY <1>2, FreeSlots DEF Sound
  <1>4. Cardinality(S \ F) = Cardinality(S) - Cardinality(S \cap F)
    BY <1>3, FS_Difference
  <1>5. Cardinality(S \cap F) \in Nat
    BY <1>3, FS_Intersection, FS_CardinalityType
  <1>6. F \subseteq S \/ Cardinality(S \cap F) + Cardinality(dirty) >= Slots
    BY <1>1 DEF FreshServed
  <1>7. Cardinality(dirty) \in Nat /\ Slots \in Nat
    BY VideosFinite, SlotsAssumption
  <1> HIDE DEF S, F
  <1>8. ~(Cardinality(S \cap F) + Cardinality(dirty) >= Slots)
    <2>1. Cardinality(S \ F) > Cardinality(dirty)
      BY DEF S, F
    <2>2. QED
      BY <1>3, <1>4, <1>5, <1>7, <2>1
  <1>9. QED
    BY <1>6, <1>8 DEF S, F

(* The list GetFileList sends shows no video twice, never more than the    *)
(* ten slots, and leaves none blank (clogic.cpp:1019) while nobody else    *)
(* writes the user's rows: a slot is empty only for want of videos, for    *)
(* one without a thumbnail, or for a row that is in t_UserRecv twice.      *)
THEOREM BatchesFill == Spec => []NoBlank
  <1>1. QED
    BY TypeInit, CalmInit, TypeNext, CalmNext, NoBlankFollows, PTL DEF Spec

(* Another batch each time (clogic.cpp:931): in an undisturbed refresh the *)
(* videos watched or pushed last come only after all others, up to the     *)
(* places that videos without a thumbnail take in a LIMIT.                 *)
THEOREM FreshComesFirst == Spec => []FreshFirst
  <1>1. QED
    BY TypeInit, CalmInit, TypeNext, CalmNext, FreshFirstFollows, PTL DEF Spec

-----------------------------------------------------------------------------
(* Play counters.                                                          *)

(* A handler between the two statements of a report of v.                  *)
Reporting(c, v) == At(c, "reportUpdate") /\ h[c].video = v

Counters ==
  /\ log \in [Video -> [n : Nat, sum : Nat]] /\ DOMAIN count = Video /\ DOMAIN hot = Video
  /\ DOMAIN h = Conn
  /\ HotFromLog

(* A step that writes neither log nor counters and ends no report.         *)
LEMMA CountersStay ==
  ASSUME Counters, UNCHANGED <<log, count, hot, stale>>, DOMAIN h' = Conn,
         \A c \in Conn, v \in Video : Reporting(c, v) => Reporting(c, v)'
  PROVE  Counters'
  BY DEF Counters, HotFromLog, Reporting

(* A handler that is not in a report takes something else to hold.         *)
LEMMA HoldStays ==
  ASSUME Counters, UNCHANGED <<log, count, hot, stale>>, NEW c \in Conn, NEW r, Hold(c, r),
         ~At(c, "reportUpdate")
  PROVE  Counters'
  <1>1. DOMAIN h' = Conn /\ \A d \in Conn, v \in Video : Reporting(d, v) => Reporting(d, v)'
    BY DEF Counters, Hold, Reporting, At
  <1>2. QED
    BY <1>1, CountersStay

(* PlayReportRq's INSERT: the report is still to be worked off.            *)
LEMMA ReportCounts ==
  ASSUME Counters, NEW c \in Conn, NEW v \in Video, NEW k \in Completion, PlayReportRq(c, v, k)
  PROVE  Counters'
  <1>1. /\ Hold(c, [pc |-> "reportUpdate", video |-> v]) /\ At(c, "idle")
        /\ UNCHANGED <<count, hot, stale>>
        /\ log' \in [Video -> [n : Nat, sum : Nat]]
        /\ \A w \in Video : w # v => log'[w] = log[w]
    BY CompletionAssumption DEF PlayReportRq, Counters
  <1>2. Reporting(c, v)' /\ DOMAIN h' = Conn
        /\ \A d \in Conn, w \in Video : Reporting(d, w) => Reporting(d, w)'
    BY <1>1 DEF Hold, Reporting, At, Counters
  <1>3. QED
    BY <1>1, <1>2 DEF Counters, HotFromLog, Reporting

(* PlayReportRq's UPDATE: the counters are the log's, or it failed.        *)
LEMMA UpdateCounts ==
  ASSUME Counters, NEW c \in Conn, ReportUpdate(c)
  PROVE  Counters'
  <1> DEFINE v == h[c].video
  <1>1. /\ Hold(c, Idle) /\ At(c, "reportUpdate") /\ UNCHANGED log
        /\ \/ /\ count' = [count EXCEPT ![v] = log[v].n]
              /\ hot' = [hot EXCEPT ![v] = Heat(log[v])]
              /\ stale' = stale \ {v}
           \/ stale' = (stale \cup {v}) /\ UNCHANGED <<count, hot>>
    BY DEF ReportUpdate, Plays
  <1>2. DOMAIN h' = Conn
        /\ \A d \in Conn, w \in Video : w # v /\ Reporting(d, w) => Reporting(d, w)'
    BY <1>1 DEF Hold, Reporting, At, Counters
  <1>3. DOMAIN count' = Video /\ DOMAIN hot' = Video
    BY <1>1 DEF Counters
  <1>4. QED
    BY <1>1, <1>2, <1>3 DEF Counters, HotFromLog, Reporting

(* A query writes no counter.                                              *)
LEMMA QueryCounts ==
  ASSUME Counters, NEW c \in Conn, NEW from, from # "reportUpdate", NEW results, NEW to,
         Query(c, from, results, to)
  PROVE  Counters'
  <1>1. UNCHANGED <<log, count, hot, stale>> /\ ~At(c, "reportUpdate")
    BY DEF Query, tables, At
  <1>2. \E r : Hold(c, r)
    BY DEF Query
  <1>3. QED
    BY <1>1, <1>2, HoldStays

(* Nor does any other step of GetFileList.                                 *)
LEMMA RefreshCounts ==
  ASSUME Counters, NEW c \in Conn, GetFileList(c)
  PROVE  Counters'
  <1>1. CASE ByTag(c) \/ ByHeat(c) \/ Seen(c) \/ OldestWatched(c)
    BY <1>1, QueryCounts DEF ByTag, ByHeat, Seen, OldestWatched
  <1>2. CASE Refresh(c) \/ Reset(c) \/ ReadLast(c) \/ WriteLast(c) \/ Send(c)
    <2>1. UNCHANGED <<log, count, hot, stale>> /\ ~At(c, "reportUpdate")
      BY <1>2 DEF Refresh, Reset, ReadLast, WriteLast, Send, tables, history, At
    <2>2. \E r : Hold(c, r)
      BY <1>2 DEF Refresh, Reset, ReadLast, WriteLast, Send
    <2>3. QED
      BY <2>1, <2>2, HoldStays
  <1>3. QED
    BY <1>1, <1>2 DEF GetFileList

(* The invariant of the counters is inductive.                             *)
LEMMA CountersNext == Counters /\ [Next]_vars => Counters'
  <1> SUFFICES ASSUME Counters, [Next]_vars PROVE Counters'
    OBVIOUS
  <1>1. CASE Crash
    BY <1>1 DEF Crash, tables, Counters, HotFromLog, At, Idle
  <1>2. CASE UNCHANGED vars
    BY <1>2 DEF vars, Counters, HotFromLog, At
  <1>3. ASSUME NEW c \in Conn, NEW n \in Name, NEW p \in Password, RegisterRq(c, n, p)
        PROVE  Counters'
    <2>1. UNCHANGED <<log, count, hot, stale>> /\ ~At(c, "reportUpdate") /\ \E r : Hold(c, r)
      BY <1>3 DEF RegisterRq, tables, history, At
    <2>2. QED
      BY <2>1, HoldStays
  <1>4. ASSUME NEW c \in Conn, NEW n \in Name, NEW p \in Password, LoginRq(c, n, p)
        PROVE  Counters'
    BY <1>4 DEF LoginRq, tables, history, Counters, HotFromLog, At
  <1>5. ASSUME NEW c \in Conn, NEW v \in Video, VideoClickRq(c, v)
        PROVE  Counters'
    <2>1. UNCHANGED <<log, count, hot, stale>> /\ ~At(c, "reportUpdate") /\ \E r : Hold(c, r)
      BY <1>5 DEF VideoClickRq, At
    <2>2. QED
      BY <2>1, HoldStays
  <1>6. ASSUME NEW c \in Conn, RegisterInsert(c) \/ ClickInsert(c) PROVE Counters'
    <2>1. UNCHANGED <<log, count, hot, stale>> /\ ~At(c, "reportUpdate") /\ Hold(c, Idle)
      BY <1>6 DEF RegisterInsert, ClickInsert, At
    <2>2. QED
      BY <2>1, HoldStays
  <1>7. QED
    BY <1>1, <1>2, <1>3, <1>4, <1>5, <1>6, ReportCounts, UpdateCounts, RefreshCounts DEF Next

(* playCount and hotdegree do not drift from t_VideoPlayLog (PlayReportRq,  *)
(* clogic.cpp:1192): however the INSERTs and UPDATEs of reports of a video  *)
(* interleave, and whichever fail or are cut off, once its reports are      *)
(* worked off and the last did not fail, both are what the log says.        *)
THEOREM HeatIsTrue == Spec => []HotFromLog
  <1>1. Init => Counters
    BY DEF Init, Counters, HotFromLog, Heat
  <1>2. Counters => HotFromLog
    BY DEF Counters
  <1>3. QED
    BY <1>1, <1>2, CountersNext, PTL DEF Spec
=============================================================================
