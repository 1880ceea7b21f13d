----------------------------- MODULE FifoCache ------------------------------
(***************************************************************************)
(* What the stat cache promises about its contents, without its threads,   *)
(* its lock, its expiry times or its trimming loop: one data value per     *)
(* path, the paths in the order in which they entered, and two ways to     *)
(* change.  Storing a path appends it or, when it is held already, changes *)
(* its data in place.  Evicting takes a nonempty prefix of the order.      *)
(***************************************************************************)
EXTENDS Integers, Sequences

CONSTANTS Paths, Data

VARIABLES order, held

vars == <<order, held>>

Init == order = << >> /\ held = [p \in {} |-> 0]

Store(p, d) ==
  /\ held' = [q \in DOMAIN held \cup {p} |-> IF q = p THEN d ELSE held[q]]
  /\ order' = IF p \in DOMAIN held THEN order ELSE Append(order, p)

Evict(n) ==
  /\ order' = SubSeq(order, n + 1, Len(order))
  /\ held' = [q \in DOMAIN held \ {order[i] : i \in 1..n} |-> held[q]]

Next ==
  \/ \E p \in Paths, d \in Data : Store(p, d)
  \/ \E n \in 1..Len(order) : Evict(n)

Spec == Init /\ [][Next]_vars
=============================================================================
