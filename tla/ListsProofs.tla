----------------------------- MODULE ListsProofs -----------------------------
(***************************************************************************)
(* What Lists' operators return, for every list.  An element's key counts  *)
(* the elements up to it; that count is a one-to-one map into 1..n, hence  *)
(* onto it, and so every place from 1 to n is taken by exactly one element.*)
(***************************************************************************)
EXTENDS Lists, SequencesExt, FiniteSetTheorems, FunctionTheorems, TLAPS

(* The elements up to x, and how many they are. *)
UpTo(S, key, x) == {y \in S : key[y] <= key[x]}
Rank(S, key) == [x \in S |-> Cardinality(UpTo(S, key, x))]

Keyed(S, key) == /\ \A x \in S : key[x] \in Nat
                 /\ \A x, y \in S : key[x] = key[y] => x = y

(* A larger key has a higher rank. *)
LEMMA RankGrows ==
  ASSUME NEW S, NEW key, IsFiniteSet(S), Keyed(S, key),
         NEW x \in S, NEW y \in S, key[x] < key[y]
  PROVE  Rank(S, key)[x] < Rank(S, key)[y]
<1>1. UpTo(S, key, x) \in SUBSET UpTo(S, key, y)
  BY DEF UpTo, Keyed
<1>2. UpTo(S, key, y) \in SUBSET S
  BY DEF UpTo
<1>3. IsFiniteSet(UpTo(S, key, y)) /\ Cardinality(UpTo(S, key, y)) \in Nat
  BY <1>2, FS_Subset, FS_CardinalityType
<1>4. /\ Cardinality(UpTo(S, key, x)) \in Nat
      /\ Cardinality(UpTo(S, key, x)) <= Cardinality(UpTo(S, key, y))
      /\ Cardinality(UpTo(S, key, y)) = Cardinality(UpTo(S, key, x))
           => UpTo(S, key, y) = UpTo(S, key, x)
  BY <1>1, <1>3, FS_Subset, FS_CardinalityType
<1>5. y \in UpTo(S, key, y) /\ y \notin UpTo(S, key, x)
  BY DEF UpTo, Keyed
<1> QED
  BY <1>3, <1>4, <1>5 DEF Rank

(* The ranks number the elements of a finite set whose keys differ. *)
LEMMA RankInjects ==
  ASSUME NEW S, NEW key, IsFiniteSet(S), Keyed(S, key)
  PROVE  Rank(S, key) \in Bijection(S, 1..Cardinality(S))
<1> DEFINE n == Cardinality(S)
<1>1. n \in Nat
  BY FS_CardinalityType
<1>2. ASSUME NEW x \in S
      PROVE  Rank(S, key)[x] \in 1..n
  <2>1. UpTo(S, key, x) \in SUBSET S
    BY DEF UpTo
  <2>2. IsFiniteSet(UpTo(S, key, x)) /\ Cardinality(UpTo(S, key, x)) <= n
    BY <2>1, FS_Subset
  <2>3. Cardinality(UpTo(S, key, x)) \in Nat
    BY <2>2, FS_CardinalityType
  <2>4. x \in UpTo(S, key, x)
    BY DEF UpTo, Keyed
  <2>5. Cardinality(UpTo(S, key, x)) # 0
    BY <2>2, <2>4, FS_EmptySet
  <2> QED
    BY <1>1, <2>2, <2>3, <2>5 DEF Rank
<1>3. Rank(S, key) \in [S -> 1..n]
  BY <1>2 DEF Rank
<1>4. ASSUME NEW x \in S, NEW y \in S, Rank(S, key)[x] = Rank(S, key)[y]
      PROVE  x = y
  <2>1. Rank(S, key)[x] \in Nat /\ Rank(S, key)[y] \in Nat
    BY <1>2, <1>1
  <2>2. ~(key[x] < key[y])
    BY <1>4, <2>1, RankGrows
  <2>3. ~(key[y] < key[x])
    BY <1>4, <2>1, RankGrows
  <2>4. key[x] = key[y]
    BY <2>2, <2>3 DEF Keyed
  <2> QED
    BY <2>4 DEF Keyed
<1>5. Rank(S, key) \in Injection(S, 1..n)
  BY <1>3, <1>4 DEF Injection, IsInjective
<1>6. IsFiniteSet(1..n) /\ Cardinality(1..n) = n
  BY <1>1, FS_Interval
<1>7. Rank(S, key) \in Surjection(S, 1..n)
  BY <1>5, <1>6, FS_Injection
<1> QED
  BY <1>5, <1>7 DEF Bijection

(* InOrder lists every element of the set once, in the order of the keys. *)
THEOREM InOrderLists ==
  ASSUME NEW S, NEW key, IsFiniteSet(S), Keyed(S, key)
  PROVE  /\ InOrder(S, key) \in Bijection(1..Cardinality(S), S)
         /\ \A i, j \in 1..Cardinality(S) :
              i < j => key[InOrder(S, key)[i]] < key[InOrder(S, key)[j]]
<1> DEFINE n == Cardinality(S)
           list == InOrder(S, key)
<1>1. n \in Nat
  BY FS_CardinalityType
<1>2. Rank(S, key) \in Bijection(S, 1..n)
  BY RankInjects
<1>3. \A x \in S : Cardinality({y \in S : key[y] <= key[x]}) = Rank(S, key)[x]
  BY DEF Rank, UpTo
<1>4. ASSUME NEW k \in 1..n
      PROVE  list[k] \in S /\ Rank(S, key)[list[k]] = k
  <2>1. PICK x \in S : Rank(S, key)[x] = k
    BY <1>2 DEF Bijection, Surjection
  <2>2. list[k] = CHOOSE y \in S : Cardinality({z \in S : key[z] <= key[y]}) = k
    BY DEF InOrder
  <2> QED
    BY <1>3, <2>1, <2>2
<1>5. list \in [1..n -> S]
  BY <1>4 DEF InOrder
<1>6. ASSUME NEW x \in S
      PROVE  \E k \in 1..n : list[k] = x
  <2>1. Rank(S, key)[x] \in 1..n
    BY <1>2 DEF Bijection, Injection
  <2>2. /\ list[Rank(S, key)[x]] \in S
        /\ Rank(S, key)[list[Rank(S, key)[x]]] = Rank(S, key)[x]
    BY <1>4, <2>1
  <2>3. list[Rank(S, key)[x]] = x
    BY <1>2, <2>2 DEF Bijection, Injection, IsInjective
  <2> QED
    BY <2>1, <2>3
<1>7. ASSUME NEW i \in 1..n, NEW j \in 1..n, list[i] = list[j]
      PROVE  i = j
  BY <1>4, <1>7
<1>8. list \in Bijection(1..n, S)
  BY <1>5, <1>6, <1>7 DEF Bijection, Injection, Surjection, IsInjective
<1>9. ASSUME NEW i \in 1..n, NEW j \in 1..n, i < j
      PROVE  key[list[i]] < key[list[j]]
  <2>1. /\ list[i] \in S /\ Rank(S, key)[list[i]] = i
        /\ list[j] \in S /\ Rank(S, key)[list[j]] = j
    BY <1>4
  <2>2. ~(key[list[j]] < key[list[i]])
    BY <1>9, <2>1, RankGrows
  <2>3. key[list[i]] # key[list[j]]
    BY <1>9, <2>1 DEF Keyed
  <2> QED
    BY <2>1, <2>2, <2>3 DEF Keyed
<1> QED
  BY <1>8, <1>9

(* A set of numbers up to n has a least one. *)
LEMMA LeastNumber ==
  ASSUME NEW n \in Nat, NEW I \in SUBSET (0..n), I # {}
  PROVE  \E i \in I : \A j \in I : i <= j
<1> DEFINE key == [i \in 0..n |-> i]
           list == InOrder(I, key)
<1>1. IsFiniteSet(I) /\ Cardinality(I) \in Nat /\ Cardinality(I) # 0
  <2>1. IsFiniteSet(0..n)
    BY FS_Interval
  <2>2. IsFiniteSet(I)
    BY <2>1, FS_Subset
  <2> QED
    BY <2>2, FS_CardinalityType, FS_EmptySet
<1>2. Keyed(I, key) /\ \A i \in I : key[i] = i /\ i \in Nat
  BY DEF Keyed
<1>3. /\ list \in Bijection(1..Cardinality(I), I)
      /\ \A i, j \in 1..Cardinality(I) : i < j => key[list[i]] < key[list[j]]
  BY <1>1, <1>2, InOrderLists
<1> HIDE DEF list, key
<1>4. /\ \A i \in 1..Cardinality(I) : list[i] \in I
      /\ \A x \in I : \E i \in 1..Cardinality(I) : list[i] = x
  BY <1>3 DEF Bijection, Injection, Surjection
<1>5. 1 \in 1..Cardinality(I)
  BY <1>1
<1>6. ASSUME NEW j \in I
      PROVE  list[1] <= j
  <2>1. PICK i \in 1..Cardinality(I) : list[i] = j
    BY <1>4
  <2>2. i = 1 \/ 1 < i
    BY <1>1
  <2>3. 1 < i => key[list[1]] < key[list[i]]
    BY <1>3, <1>5
  <2>4. list[1] \in I /\ key[list[1]] = list[1] /\ list[1] \in Nat
    BY <1>2, <1>4, <1>5
  <2>5. key[list[i]] = j /\ j \in Nat
    BY <1>2, <2>1
  <2> QED
    BY <2>1, <2>2, <2>3, <2>4, <2>5
<1> QED
  BY <1>4, <1>5, <1>6

(* FirstPlace finds an element of T, unless the list has none. *)
THEOREM FirstPlaceFinds ==
  ASSUME NEW S, NEW s \in Seq(S), NEW T
  PROVE  \/ FirstPlace(s, T) = 0 /\ ToSet(s) \cap T = {}
         \/ /\ FirstPlace(s, T) \in 1..Len(s)
            /\ s[FirstPlace(s, T)] \in T \cap ToSet(s)
            /\ \A j \in 1..Len(s) : s[j] \in T => FirstPlace(s, T) <= j
<1>1. DOMAIN s = 1..Len(s) /\ Len(s) \in Nat
  OBVIOUS
<1>2. CASE Places(s, T) = {}
  BY <1>2 DEF FirstPlace, Places, ToSet
<1>3. CASE Places(s, T) # {}
  <2>1. Places(s, T) \in SUBSET (0..Len(s))
    BY <1>1 DEF Places
  <2>2. \E i \in Places(s, T) : \A j \in Places(s, T) : i <= j
    BY <1>1, <1>3, <2>1, LeastNumber
  <2>3. /\ FirstPlace(s, T) \in Places(s, T)
        /\ \A j \in Places(s, T) : FirstPlace(s, T) <= j
    BY <1>3, <2>2 DEF FirstPlace
  <2> QED
    BY <1>1, <2>3 DEF Places, ToSet
<1> QED
  BY <1>2, <1>3

(* How the places that Only keeps lie in the list. *)
LEMMA PlacesKept ==
  ASSUME NEW S, NEW s \in Seq(S), NEW T
  PROVE  \E places \in Bijection(1..Cardinality(Places(s, T)), Places(s, T)) :
           /\ Cardinality(Places(s, T)) \in Nat
           /\ Cardinality(Places(s, T)) <= Len(s)
           /\ Places(s, T) = DOMAIN s <=> Cardinality(Places(s, T)) = Len(s)
           /\ Only(s, T) = [k \in 1..Cardinality(Places(s, T)) |-> s[places[k]]]
           /\ \A i, j \in 1..Cardinality(Places(s, T)) : i < j => places[i] < places[j]
<1> DEFINE P == Places(s, T)
           key == [i \in DOMAIN s |-> i]
           places == InOrder(P, key)
<1>1. Len(s) \in Nat /\ DOMAIN s = 1..Len(s)
  OBVIOUS
<1>2. IsFiniteSet(DOMAIN s) /\ Cardinality(DOMAIN s) = Len(s)
  BY <1>1, FS_Interval
<1>3. P \in SUBSET DOMAIN s
  BY DEF Places
<1>4. /\ IsFiniteSet(P)
      /\ Cardinality(P) <= Len(s)
      /\ Len(s) = Cardinality(P) => DOMAIN s = P
  BY <1>2, <1>3, FS_Subset
<1>5. Cardinality(P) \in Nat
  BY <1>4, FS_CardinalityType
<1>6. Keyed(P, key) /\ \A i \in P : key[i] = i
  BY <1>1, <1>3 DEF Keyed
<1>7. /\ places \in Bijection(1..Cardinality(P), P)
      /\ \A i, j \in 1..Cardinality(P) : i < j => key[places[i]] < key[places[j]]
  BY <1>4, <1>6, InOrderLists
<1>8. \A i, j \in 1..Cardinality(P) : i < j => places[i] < places[j]
  BY <1>6, <1>7 DEF Bijection, Injection
<1>9. Only(s, T) = [k \in DOMAIN places |-> s[places[k]]]
  BY DEF Only
<1>10. DOMAIN places = 1..Cardinality(P)
  BY <1>7 DEF Bijection, Injection
<1> HIDE DEF places, key
<1> QED
  BY <1>2, <1>4, <1>5, <1>7, <1>8, <1>9, <1>10

(* Only keeps the elements that are in T: none is added, lost or repeated, and the
   list grows no longer. *)
THEOREM OnlyKeeps ==
  ASSUME NEW S, NEW s \in Seq(S), NEW T
  PROVE  /\ Only(s, T) \in Seq(S)
         /\ ToSet(Only(s, T)) = ToSet(s) \cap T
         /\ Len(Only(s, T)) <= Len(s)
         /\ IsInjective(s) => IsInjective(Only(s, T))
<1> DEFINE n == Cardinality(Places(s, T))
<1>1. PICK places \in Bijection(1..n, Places(s, T)) :
        /\ n \in Nat /\ n <= Len(s)
        /\ Only(s, T) = [k \in 1..n |-> s[places[k]]]
  BY PlacesKept
<1>2. /\ places \in [1..n -> Places(s, T)]
      /\ \A i, j \in 1..n : places[i] = places[j] => i = j
      /\ \A p \in Places(s, T) : \E k \in 1..n : places[k] = p
  BY DEF Bijection, Injection, Surjection, IsInjective
<1>3. Places(s, T) \in SUBSET DOMAIN s /\ \A p \in Places(s, T) : s[p] \in S \cap T
  BY DEF Places
<1> HIDE DEF n
<1>4. Only(s, T) \in [1..n -> S]
  BY <1>1, <1>2, <1>3
<1>5. Only(s, T) \in Seq(S) /\ Len(Only(s, T)) = n
  BY <1>1, <1>4
<1>6. ToSet(Only(s, T)) \subseteq ToSet(s) \cap T
  BY <1>1, <1>2, <1>3 DEF ToSet
<1>7. ASSUME NEW x \in ToSet(s) \cap T
      PROVE  x \in ToSet(Only(s, T))
  <2>1. PICK p \in DOMAIN s : s[p] = x
    BY DEF ToSet
  <2>2. p \in Places(s, T)
    BY <2>1 DEF Places
  <2>3. PICK k \in 1..n : places[k] = p
    BY <1>2, <2>2
  <2> QED
    BY <1>1, <2>1, <2>3 DEF ToSet
<1>8. ASSUME IsInjective(s)
      PROVE  IsInjective(Only(s, T))
  BY <1>1, <1>2, <1>3, <1>8 DEF IsInjective
<1> QED
  BY <1>1, <1>5, <1>6, <1>7, <1>8

(* The same, for the elements that are dropped. *)
THEOREM DroppingKeeps ==
  ASSUME NEW S, NEW s \in Seq(S), NEW D
  PROVE  /\ Dropping(s, D) \in Seq(S)
         /\ ToSet(Dropping(s, D)) = ToSet(s) \ D
         /\ Len(Dropping(s, D)) <= Len(s)
         /\ IsInjective(s) => IsInjective(Dropping(s, D))
<1> DEFINE T == {s[i] : i \in DOMAIN s} \ D
<1>1. ToSet(s) \cap T = ToSet(s) \ D
  BY DEF ToSet
<1>2. Dropping(s, D) = Only(s, T)
  BY DEF Dropping
<1> HIDE DEF T
<1> QED
  BY <1>1, <1>2, OnlyKeeps

-----------------------------------------------------------------------------
(* The sequences themselves *)

(* Append adds one element, and no repetition if it is new. *)
LEMMA AppendKeeps ==
  ASSUME NEW S, NEW s \in Seq(S), NEW x \in S
  PROVE  /\ Append(s, x) \in Seq(S)
         /\ ToSet(Append(s, x)) = ToSet(s) \cup {x}
         /\ Len(Append(s, x)) = Len(s) + 1
         /\ IsInjective(s) /\ x \notin ToSet(s) => IsInjective(Append(s, x))
<1>1. /\ DOMAIN Append(s, x) = 1..(Len(s) + 1)
      /\ \A i \in 1..Len(s) : Append(s, x)[i] = s[i]
      /\ Append(s, x)[Len(s) + 1] = x
      /\ Append(s, x) \in Seq(S)
      /\ DOMAIN s = 1..Len(s) /\ Len(s) \in Nat
  OBVIOUS
<1>2. ToSet(Append(s, x)) = ToSet(s) \cup {x}
  BY <1>1 DEF ToSet
<1>3. ASSUME IsInjective(s), x \notin ToSet(s)
      PROVE  IsInjective(Append(s, x))
  BY <1>1, <1>3 DEF IsInjective, ToSet
<1> QED
  BY <1>1, <1>2, <1>3

(* Lists of one element and of none. *)
LEMMA Singles ==
  ASSUME NEW S, NEW x \in S
  PROVE  /\ <<x>> \in Seq(S) /\ ToSet(<<x>>) = {x} /\ IsInjective(<<x>>) /\ Len(<<x>>) = 1
         /\ <<>> \in Seq(S) /\ ToSet(<<>>) = {} /\ IsInjective(<<>>) /\ Len(<<>>) = 0
  BY DEF ToSet, IsInjective

(* A list is empty when its set of elements is, and its head is one of them. *)
LEMMA Heads ==
  ASSUME NEW S, NEW s \in Seq(S)
  PROVE  /\ s # <<>> <=> ToSet(s) # {}
         /\ s # <<>> => Head(s) \in ToSet(s) /\ Head(s) \in S
         /\ ToSet(s) \subseteq S
         /\ Len(s) \in Nat
<1>1. DOMAIN s = 1..Len(s) /\ Len(s) \in Nat /\ \A i \in 1..Len(s) : s[i] \in S
  OBVIOUS
<1>2. s # <<>> => Len(s) > 0 /\ Head(s) = s[1]
  OBVIOUS
<1>3. s = <<>> => DOMAIN s = {}
  OBVIOUS
<1> QED
  BY <1>1, <1>2, <1>3 DEF ToSet

(* As many places as elements, in a list that repeats none. *)
LEMMA InjectiveLength ==
  ASSUME NEW S, NEW s \in Seq(S), IsInjective(s)
  PROVE  IsFiniteSet(ToSet(s)) /\ Cardinality(ToSet(s)) = Len(s)
<1>1. DOMAIN s = 1..Len(s) /\ Len(s) \in Nat
  OBVIOUS
<1>2. s \in [1..Len(s) -> ToSet(s)]
  BY <1>1 DEF ToSet
<1>3. s \in Surjection(1..Len(s), ToSet(s)) /\ s \in Injection(1..Len(s), ToSet(s))
  BY <1>1, <1>2 DEF Surjection, Injection, ToSet
<1>4. IsFiniteSet(1..Len(s)) /\ Cardinality(1..Len(s)) = Len(s)
  BY <1>1, FS_Interval
<1> QED
  BY <1>3, <1>4, FS_Surjection

(* One list after another. *)
LEMMA ConcatKeeps ==
  ASSUME NEW S, NEW s \in Seq(S), NEW t \in Seq(S)
  PROVE  /\ s \o t \in Seq(S)
         /\ ToSet(s \o t) = ToSet(s) \cup ToSet(t)
         /\ IsInjective(s) /\ IsInjective(t) /\ ToSet(s) \cap ToSet(t) = {} => IsInjective(s \o t)
<1> DEFINE m == Len(s)
           n == Len(t)
           c == s \o t
<1>1. /\ m \in Nat /\ n \in Nat /\ DOMAIN s = 1..m /\ DOMAIN t = 1..n /\ DOMAIN c = 1..(m + n)
      /\ c \in Seq(S)
      /\ \A i \in 1..(m + n) : c[i] = IF i <= m THEN s[i] ELSE t[i - m]
  OBVIOUS
<1> HIDE DEF c, m, n
<1>2. ToSet(c) = ToSet(s) \cup ToSet(t)
  <2>1. ASSUME NEW x \in ToSet(c)
        PROVE  x \in ToSet(s) \cup ToSet(t)
    <3>1. PICK i \in 1..(m + n) : c[i] = x
      BY <1>1, <2>1 DEF ToSet
    <3>2. i <= m => i \in 1..m
      BY <1>1
    <3>3. ~(i <= m) => i - m \in 1..n
      BY <1>1
    <3> QED
      BY <1>1, <3>1, <3>2, <3>3 DEF ToSet
  <2>2. ASSUME NEW i \in 1..m
        PROVE  s[i] \in ToSet(c)
    <3>1. i \in 1..(m + n) /\ i <= m
      BY <1>1
    <3> QED
      BY <1>1, <3>1 DEF ToSet
  <2>3. ASSUME NEW i \in 1..n
        PROVE  t[i] \in ToSet(c)
    <3>1. i + m \in 1..(m + n) /\ ~(i + m <= m) /\ (i + m) - m = i
      BY <1>1
    <3>2. c[i + m] = t[i]
      BY <1>1, <3>1
    <3> QED
      BY <1>1, <3>1, <3>2 DEF ToSet
  <2> QED
    BY <1>1, <2>1, <2>2, <2>3 DEF ToSet
<1>3. ASSUME IsInjective(s), IsInjective(t), ToSet(s) \cap ToSet(t) = {}
      PROVE  IsInjective(c)
  <2> SUFFICES ASSUME NEW i \in 1..(m + n), NEW j \in 1..(m + n), c[i] = c[j]
               PROVE  i = j
    BY <1>1 DEF IsInjective
  <2>1. CASE i <= m /\ j <= m
    <3>1. i \in 1..m /\ j \in 1..m /\ s[i] = s[j]
      BY <1>1, <2>1
    <3> QED
      BY <1>1, <1>3, <3>1 DEF IsInjective
  <2>2. CASE ~(i <= m) /\ ~(j <= m)
    <3>1. i - m \in 1..n /\ j - m \in 1..n /\ t[i - m] = t[j - m]
      BY <1>1, <2>2
    <3>2. i - m = j - m
      BY <1>1, <1>3, <3>1 DEF IsInjective
    <3> QED
      BY <1>1, <3>2
  <2>3. CASE i <= m /\ ~(j <= m)
    <3>1. i \in 1..m /\ j - m \in 1..n /\ s[i] = t[j - m]
      BY <1>1, <2>3
    <3> QED
      BY <1>1, <1>3, <3>1 DEF ToSet
  <2>4. CASE ~(i <= m) /\ j <= m
    <3>1. j \in 1..m /\ i - m \in 1..n /\ s[j] = t[i - m]
      BY <1>1, <2>4
    <3> QED
      BY <1>1, <1>3, <3>1 DEF ToSet
  <2> QED
    BY <2>1, <2>2, <2>3, <2>4
<1> QED
  BY <1>1, <1>2, <1>3 DEF c
=============================================================================
