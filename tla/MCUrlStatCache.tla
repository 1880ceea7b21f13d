-------------------------- MODULE MCUrlStatCache ----------------------------
(* Small instances of UrlStatCache for TLC. *)
EXTENDS UrlStatCache

CONSTANTS c1, c2, p1, p2, a1, a2

TwoClients == {c1, c2}
TwoPaths == {p1, p2}
=============================================================================
