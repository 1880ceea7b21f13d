----------------------------- MODULE MCProcFile -----------------------------
(* Small instances of ProcFile for TLC: sessions write 5, 7, 57, -5, ...  *)
(* with or without a newline, and a setting has five bits.                *)
EXTENDS ProcFile, TLC

CONSTANTS q1, q2, s1

TwoProcs == {q1, q2}
OneStatter == {s1}
SomeChunks == {<<5>>, <<Minus>>, <<7, NL>>}

Symmetry == Permutations(Procs) \cup Permutations(Statters)
=============================================================================
