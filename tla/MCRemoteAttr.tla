---------------------------- MODULE MCRemoteAttr ----------------------------
(* Small instances of RemoteAttr for TLC. *)
EXTENDS RemoteAttr, TLC

CONSTANTS c1, c2, p1, p2, root, dot

TwoClients == {c1, c2}
OneClient == {c1}
OnePath == {p1}
TwoPaths == {p1, p2}
OneDot == {dot}

Nothing == [kind |-> "nothing", size |-> 0, length |-> {}, filestat |-> "none",
            slash |-> 404, json |-> 404, plain |-> 404]

(* A file that is served as anything asked for, one that is not served as  *)
(* text/json, one that has moved, two whose headers describe it, well or   *)
(* badly, and one that is sent without its length.                         *)
File(n) == [kind |-> "reg", size |-> n, length |-> {n}, filestat |-> "none",
            slash |-> 404, json |-> 200, plain |-> 200]
MovedFile(n) == [File(n) EXCEPT !.json = 302, !.plain = 302]
PickyFile(n) == [File(n) EXCEPT !.json = 406]
IndexedFile(n) == [File(n) EXCEPT !.length = {}, !.filestat = "good"]
BrokenFile(n) == [File(n) EXCEPT !.filestat = "bad"]
ChunkedFile(n) == [MovedFile(n) EXCEPT !.length = {}]

(* A directory with a listing, one that may not be listed, and one whose   *)
(* listing is not found.                                                   *)
Dir == [kind |-> "dir", size |-> 0, length |-> {}, filestat |-> "none",
        slash |-> 200, json |-> 301, plain |-> 301]
IndexedDir == [Dir EXCEPT !.filestat = "good"]
ClosedDir == [Dir EXCEPT !.slash = 403]
BareDir == [Dir EXCEPT !.slash = 404]

Honest == {Nothing, File(1), MovedFile(1), MovedFile(2), PickyFile(1),
           Dir, ClosedDir, BareDir}
Described == {Nothing, IndexedFile(1), File(2), IndexedDir, BareDir,
              [MovedFile(2) EXCEPT !.plain = 301]}
Broken == {Nothing, BrokenFile(1)}
Chunked == {Nothing, ChunkedFile(1)}
FilesAndDirs == {Nothing, File(1), Dir}

Symmetry == Permutations(Clients) \cup Permutations(Files)
=============================================================================
