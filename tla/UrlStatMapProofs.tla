-------------------------- MODULE UrlStatMapProofs --------------------------
(* Facts about the operators of UrlStatMap, for any keys and values.       *)
EXTENDS UrlStatMap, FiniteSetTheorems, TLAPS

-----------------------------------------------------------------------------
(* Sequences that list a set. *)

(* A suffix, element by element. *)
LEMMA SuffixElements ==
  ASSUME NEW P, NEW e \in Seq(P), NEW k \in 0..Len(e)
  PROVE  LET s == SubSeq(e, k + 1, Len(e))
         IN  /\ s \in Seq(P)
             /\ Len(s) = Len(e) - k
             /\ \A i \in 1..(Len(e) - k) : s[i] = e[i + k]
<1> DEFINE n == Len(e)
           s == SubSeq(e, k + 1, n)
<1>1. n \in Nat /\ k \in Nat /\ k <= n
  OBVIOUS
<1>2. Len(s) = n - k
  BY <1>1
<1>3. \A i \in 1..(n - k) : s[i] = e[i + k]
  BY <1>1
<1>4. s \in Seq(P)
  BY <1>1
<1> QED  BY <1>2, <1>3, <1>4

(* Appending an element that is not listed. *)
LEMMA ListsAppend ==
  ASSUME NEW P, NEW e \in Seq(P), NEW S, Lists(e, S), NEW p \in P, p \notin S
  PROVE  Lists(Append(e, p), S \cup {p})
<1> DEFINE n == Len(e)
           a == Append(e, p)
<1>1. /\ n \in Nat /\ Len(a) = n + 1
      /\ \A i \in 1..n : a[i] = e[i]
      /\ a[n + 1] = p
  OBVIOUS
<1> HIDE DEF a
<1>2. \A i \in 1..n : e[i] \in S
  BY DEF Lists
<1>3. ASSUME NEW i \in 1..Len(a), NEW j \in 1..Len(a), a[i] = a[j]
      PROVE  i = j
  <2>1. CASE i \in 1..n /\ j \in 1..n
    BY <1>1, <1>3, <2>1 DEF Lists
  <2>2. CASE i = n + 1 \/ j = n + 1
    BY <1>1, <1>2, <1>3, <2>2
  <2> QED  BY <1>1, <2>1, <2>2
<1>4. {a[i] : i \in 1..(n + 1)} = {e[i] : i \in 1..n} \cup {p}
  <2>1. \A i \in 1..(n + 1) : i \in 1..n \/ i = n + 1
    BY <1>1
  <2>2. 1..n \subseteq 1..(n + 1) /\ n + 1 \in 1..(n + 1)
    BY <1>1
  <2> QED  BY <1>1, <2>1, <2>2
<1>5. {e[i] : i \in 1..n} = S
  BY DEF Lists
<1>6. {a[i] : i \in 1..Len(a)} = S \cup {p}
  BY <1>1, <1>4, <1>5
<1>7. Lists(a, S \cup {p})
  BY <1>3, <1>6 DEF Lists
<1> QED  BY <1>7 DEF a

(* Dropping a prefix of the list, and its elements from the set. *)
LEMMA ListsSuffix ==
  ASSUME NEW P, NEW e \in Seq(P), NEW S, Lists(e, S), NEW k \in 0..Len(e)
  PROVE  Lists(SubSeq(e, k + 1, Len(e)), S \ {e[i] : i \in 1..k})
<1> DEFINE n == Len(e)
           s == SubSeq(e, k + 1, n)
<1>1. /\ n \in Nat /\ k \in Nat /\ k <= n
      /\ Len(s) = n - k
      /\ \A i \in 1..(n - k) : s[i] = e[i + k]
  BY SuffixElements
<1> HIDE DEF s
<1>2. ASSUME NEW i \in 1..Len(s), NEW j \in 1..Len(s), s[i] = s[j]
      PROVE  i = j
  <2>1. i + k \in 1..n /\ j + k \in 1..n /\ e[i + k] = e[j + k]
    BY <1>1, <1>2
  <2> QED  BY <1>1, <2>1 DEF Lists
<1>3. ASSUME NEW x
      PROVE  (\E i \in 1..Len(s) : x = s[i])
               <=> x \in S /\ ~ \E i \in 1..k : x = e[i]
  <2>1. ASSUME NEW i \in 1..Len(s), x = s[i]
        PROVE  x \in S /\ ~ \E j \in 1..k : x = e[j]
    <3>1. i + k \in 1..n /\ x = e[i + k]
      BY <1>1, <2>1
    <3>2. x \in S
      BY <3>1 DEF Lists
    <3>3. ASSUME NEW j \in 1..k, x = e[j]
          PROVE  FALSE
      <4>1. j \in 1..n /\ j # i + k /\ e[j] = e[i + k]
        BY <1>1, <3>1, <3>3
      <4> QED  BY <3>1, <4>1 DEF Lists
    <3> QED  BY <3>2, <3>3
  <2>2. ASSUME x \in S, ~ \E i \in 1..k : x = e[i]
        PROVE  \E i \in 1..Len(s) : x = s[i]
    <3>1. PICK j \in 1..n : x = e[j]
      BY <2>2 DEF Lists
    <3>2. j \notin 1..k
      BY <2>2, <3>1
    <3>3. j - k \in 1..(n - k) /\ (j - k) + k = j
      BY <1>1, <3>2
    <3> QED  BY <1>1, <3>1, <3>3
  <2> QED  BY <2>1, <2>2
<1>4. {s[i] : i \in 1..Len(s)} = S \ {e[i] : i \in 1..k}
  BY <1>3
<1>5. Lists(s, S \ {e[i] : i \in 1..k})
  BY <1>2, <1>4 DEF Lists
<1> QED  BY <1>5 DEF s

(* A prefix of k places holds at most k elements. *)
LEMMA PrefixSize ==
  ASSUME NEW e, NEW k \in Nat
  PROVE  LET O == {e[i] : i \in 1..k}
         IN  IsFiniteSet(O) /\ Cardinality(O) <= k
<1> DEFINE O == {e[i] : i \in 1..k}
           f == [i \in 1..k |-> e[i]]
<1>1. IsFiniteSet(1..k) /\ Cardinality(1..k) = k
  BY FS_Interval
<1>2. f \in Surjection(1..k, O)
  BY DEF Surjection
<1> HIDE DEF O, f
<1>3. IsFiniteSet(O) /\ Cardinality(O) <= Cardinality(1..k)
  BY <1>1, <1>2, FS_Surjection
<1> QED  BY <1>1, <1>3 DEF O

-----------------------------------------------------------------------------
(* The operators of the container. *)

(* The empty container has every type and is well formed. *)
LEMMA EmptyMapOK ==
  ASSUME NEW P, NEW V
  PROVE  MapOf(EmptyMap, P, V) /\ WellFormed(EmptyMap) /\ Keys(EmptyMap) = {}
BY DEF MapOf, EmptyMap, WellFormed, Keys, Lists

(* Insert adds exactly its key and keeps the container well formed: the    *)
(* key joins the list only if it was not there.                            *)
LEMMA InsertOK ==
  ASSUME NEW P, NEW V, NEW map, MapOf(map, P, V), NEW p \in P, NEW us \in V
  PROVE  /\ MapOf(Insert(map, p, us), P, V)
         /\ Keys(Insert(map, p, us)) = Keys(map) \cup {p}
         /\ WellFormed(map) => WellFormed(Insert(map, p, us))
<1> DEFINE m == Insert(map, p, us)
<1>1. Keys(m) = Keys(map) \cup {p}
  BY DEF Insert, Keys
<1>2. m.m_entries = IF p \in Keys(map) THEN map.m_entries
                                       ELSE Append(map.m_entries, p)
  BY DEF Insert, EntriesWith, IsNew
<1>3. m.tree = [q \in Keys(map) \cup {p} |->
                  IF q = p THEN us ELSE map.tree[q]]
  BY DEF Insert
<1> HIDE DEF m
<1>4. m.tree \in [Keys(m) -> V]
  BY <1>1, <1>3 DEF MapOf
<1>5. m.m_entries \in Seq(P)
  BY <1>2 DEF MapOf
<1>6. ASSUME WellFormed(map)
      PROVE  WellFormed(m)
  <2>1. CASE p \in Keys(map)
    <3>1. m.m_entries = map.m_entries /\ Keys(m) = Keys(map)
      BY <1>1, <1>2, <2>1
    <3> QED  BY <1>6, <3>1 DEF WellFormed
  <2>2. CASE p \notin Keys(map)
    <3>1. Lists(Append(map.m_entries, p), Keys(map) \cup {p})
      BY <1>6, <2>2, ListsAppend DEF WellFormed, MapOf
    <3> QED  BY <1>1, <1>2, <2>2, <3>1 DEF WellFormed
  <2> QED  BY <2>1, <2>2
<1>7. MapOf(m, P, V)
  BY <1>1, <1>4, <1>5 DEF MapOf
<1> QED  BY <1>1, <1>6, <1>7 DEF m

(* Remove changes neither the keys nor the list, and no type that allows   *)
(* for an expired entry.                                                   *)
LEMMA RemoveOK ==
  ASSUME NEW P, NEW V, NEW map, NEW p, \A us \in V : Expired(us) \in V
  PROVE  /\ Keys(Remove(map, p)) = Keys(map)
         /\ Remove(map, p).m_entries = map.m_entries
         /\ MapOf(map, P, V) => MapOf(Remove(map, p), P, V)
         /\ WellFormed(map) => WellFormed(Remove(map, p))
BY DEF Remove, Keys, WellFormed, MapOf

(* Trim keeps the container well formed: the list loses a prefix and the   *)
(* map loses the keys of that prefix.                                      *)
LEMMA TrimOK ==
  ASSUME NEW P, NEW V, NEW map, MapOf(map, P, V), NEW count \in Nat
  PROVE  LET k == TrimCount(map, count)
             m == Trim(map, count)
         IN  /\ k \in 0..Len(map.m_entries) /\ k <= count
             /\ MapOf(m, P, V)
             /\ Keys(m) = Keys(map) \ Oldest(map, k)
             /\ m.m_entries = SubSeq(map.m_entries, k + 1, Len(map.m_entries))
             /\ WellFormed(map) => WellFormed(m)
<1> DEFINE k == TrimCount(map, count)
           m == Trim(map, count)
<1>1. map.m_entries \in Seq(P) /\ Len(map.m_entries) \in Nat
  BY DEF MapOf
<1>2. k \in 0..Len(map.m_entries) /\ k <= count
  BY <1>1 DEF TrimCount
<1>3. m.tree = [q \in Keys(map) \ Oldest(map, k) |-> map.tree[q]]
  BY DEF Trim
<1>4. m.m_entries = SubSeq(map.m_entries, k + 1, Len(map.m_entries))
  BY DEF Trim
<1> HIDE DEF m, k
<1>5. Keys(m) = Keys(map) \ Oldest(map, k)
  BY <1>3 DEF Keys
<1>6. m.tree \in [Keys(m) -> V]
  BY <1>3, <1>5 DEF MapOf
<1>7. m.m_entries \in Seq(P)
  BY <1>1, <1>2, <1>4, SuffixElements
<1>8. ASSUME WellFormed(map)
      PROVE  WellFormed(m)
  <2>1. Lists(SubSeq(map.m_entries, k + 1, Len(map.m_entries)),
              Keys(map) \ {map.m_entries[i] : i \in 1..k})
    BY <1>1, <1>2, <1>8, ListsSuffix DEF WellFormed
  <2> QED  BY <1>4, <1>5, <2>1 DEF WellFormed, Oldest
<1>9. MapOf(m, P, V)
  BY <1>5, <1>6, <1>7 DEF MapOf
<1> QED  BY <1>2, <1>4, <1>5, <1>8, <1>9 DEF m, k

(* trim(count) takes at most count entries. *)
LEMMA TrimSize ==
  ASSUME NEW P, NEW V, NEW map, MapOf(map, P, V), NEW count \in Nat,
         IsFiniteSet(Keys(map))
  PROVE  Size(Trim(map, count)) >= Size(map) - count
<1> DEFINE k == TrimCount(map, count)
           O == Oldest(map, k)
<1>1. k \in Nat /\ k <= count /\ Keys(Trim(map, count)) = Keys(map) \ O
  BY TrimOK
<1>2. IsFiniteSet(O) /\ Cardinality(O) <= k
  BY <1>1, PrefixSize DEF Oldest
<1> HIDE DEF k, O
<1>3. Cardinality(Keys(map) \ O)
        = Cardinality(Keys(map)) - Cardinality(Keys(map) \cap O)
  BY FS_Difference
<1>4. Cardinality(Keys(map) \cap O) <= Cardinality(O)
      /\ IsFiniteSet(Keys(map) \cap O)
  BY <1>2, FS_Subset
<1>5. /\ Cardinality(Keys(map)) \in Nat /\ Cardinality(O) \in Nat
      /\ Cardinality(Keys(map) \cap O) \in Nat
  BY <1>2, <1>4, FS_CardinalityType
<1> QED  BY <1>1, <1>2, <1>3, <1>4, <1>5 DEF Size
=============================================================================
