-------------------------- MODULE MCCacheHistory ----------------------------
(* Small instances of CacheHistory for TLC. *)
EXTENDS CacheHistory, TLC

CONSTANTS c1, c2, p1, p2, a1, a2

TwoClients == {c1, c2}
OnePath == {p1}
TwoPaths == {p1, p2}
OneAttr == {a1}
TwoAttrs == {a1, a2}

(* Clients, paths and attributes are interchangeable in every property.   *)
Symmetry == Permutations(Clients) \cup Permutations(Paths)
              \cup Permutations(Attrs)
=============================================================================
