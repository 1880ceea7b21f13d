----------------------------- MODULE UrlStatMap -----------------------------
(***************************************************************************)
(* The container of cache.h:74-86, as a value.  A UrlStatMap is a std::map *)
(* from Url to UrlStat together with a std::list of iterators, m_entries,  *)
(* in the order in which the keys were first inserted.  The model is a     *)
(* record: tree is the std::map (a function on the keys it holds) and      *)
(* m_entries the list, an iterator being represented by the key it points  *)
(* to.  The operators below return the container after the call.           *)
(***************************************************************************)
EXTENDS Integers, Sequences, FiniteSets

EmptyMap == [tree |-> [p \in {} |-> 0], m_entries |-> << >>]

Keys(map) == DOMAIN map.tree

Size(map) == Cardinality(Keys(map))

(* The value of map.insert(path, us): was the key new? *)
IsNew(map, path) == path \notin Keys(map)

(* Bugs: every insert enters the list, and a known key goes to the back.   *)
EntriesRepeated(map, path) == Append(map.m_entries, path)

EntriesByUse(map, path) ==
  LET Other(q) == q # path IN Append(SelectSeq(map.m_entries, Other), path)

(* A new key goes to the back of the list; a known key keeps its place. *)
EntriesWith(map, path) ==
  IF IsNew(map, path) THEN Append(map.m_entries, path) ELSE map.m_entries

Insert(map, path, us) ==
  [tree |-> [q \in Keys(map) \cup {path} |->
                IF q = path THEN us ELSE map.tree[q]],
   m_entries |-> EntriesWith(map, path)]

(* A bug: 0 is taken for "never expires". *)
IsValidForever(us, now) == us.expire = 0 \/ us.expire >= now

(* UrlStat::is_valid with time(NULL) = now. *)
IsValid(us, now) == us.expire >= now

(* find_with_expire(path) != end() *)
Finds(map, path, now) == path \in Keys(map) /\ IsValid(map.tree[path], now)

(* remove() only forces the entry to be expired: the key and its place in  *)
(* the list stay.                                                          *)
Expired(us) == [us EXCEPT !.expire = 0]

Remove(map, path) ==
  [tree |-> [q \in Keys(map) |->
               IF q = path THEN Expired(map.tree[q]) ELSE map.tree[q]],
   m_entries |-> map.m_entries]

(* The first k keys of the list, and how many trim(count) takes. *)
Oldest(map, k) == {map.m_entries[i] : i \in 1..k}

TrimCount(map, count) ==
  IF count <= Len(map.m_entries) THEN count ELSE Len(map.m_entries)

Trim(map, count) ==
  LET k == TrimCount(map, count)
  IN  [tree |-> [q \in Keys(map) \ Oldest(map, k) |-> map.tree[q]],
       m_entries |-> SubSeq(map.m_entries, k + 1, Len(map.m_entries))]

(* A container whose keys are in P and whose values are in V. *)
MapOf(map, P, V) ==
  /\ map.tree \in [Keys(map) -> V]
  /\ Keys(map) \subseteq P
  /\ map.m_entries \in Seq(P)

(* The sequence e lists every element of S once and nothing else. *)
Lists(e, S) ==
  /\ \A i, j \in 1..Len(e) : e[i] = e[j] => i = j
  /\ {e[i] : i \in 1..Len(e)} = S

(* The list holds an iterator to each key of the map, once.  An iterator   *)
(* to a key that is gone, or a second one to the same key, would be erased *)
(* by trim() although it points nowhere.                                   *)
WellFormed(map) == Lists(map.m_entries, Keys(map))
=============================================================================
