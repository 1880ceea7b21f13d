----------------------------- MODULE MCHandles ------------------------------
(* Small instances of Handles for TLC. *)
EXTENDS Handles, TLC

CONSTANTS t1, t2, f1, f2, x1, a1, a2

TwoThreads == {t1, t2}
TwoFiles == {f1, f2}
OneProc == {x1}
TwoAddresses == {a1, a2}

Symmetry ==
  Permutations(Threads) \cup Permutations(Files) \cup Permutations(Addresses)
=============================================================================
