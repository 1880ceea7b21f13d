----------------------------- MODULE MCReadFile -----------------------------
(* Small instances of ReadFile for TLC. *)
EXTENDS ReadFile

UpToFour == 0..4
OneToThree == 1..3
=============================================================================
