---------------------------- MODULE MCAutoHttpFs ----------------------------
(* A small instance of AutoHttpFs for TLC. *)
EXTENDS AutoHttpFs

Arg(key, value) == [key |-> key, value |-> value, number |-> 0]
NumberArg(key, value, n) == [key |-> key, value |-> value, number |-> n]

SomeArguments ==
  {Arg("readonly", "no"), Arg("readonly", "maybe"), Arg("readonly", "yes"),
   Arg("noexec", "no"), Arg("root", "/none"), NumberArg("max_readahead", "4096", 4096),
   Arg("help", ""), Arg("other", "mnt")}
UpToThreeArguments == SeqOf(SomeArguments, 3)
NoArguments == {<< >>}

\* The root of the host, writable and executable, and a path that is not there.
SomeRoots ==
  [r \in {"/", "/none"} |->
     IF r = "/" THEN {[mode |-> S_IFDIR \cup (0..8), size |-> 4, mtime |-> 5]}
                ELSE {}]

Mode(letter, perms) == [letter |-> letter, long |-> TRUE, perms |-> perms]
Short(letter) == [letter |-> letter, long |-> FALSE, perms |-> {}]
Date(wall, zone) == [valid |-> TRUE, wall |-> wall, zone |-> zone]

Values ==
  {[mode |-> Mode("file", 0..8), size |-> 3, mtime |-> Date(12, LocalZone)],
   [mode |-> Mode("d", 0..8), size |-> 0, mtime |-> Date(12, 0)],
   [mode |-> Mode("file", {8}), size |-> 2],
   [mode |-> Short("l"), size |-> 1],
   [mode |-> Mode("s", {8, 6})],
   [mode |-> Short("s"), mtime |-> [valid |-> FALSE, wall |-> 0, zone |-> 0]],
   [mode |-> Mode("b", 0..8), size |-> 1],
   [mode |-> Short("p"), size |-> 1],
   [mode |-> Mode("?", {8, 0}), size |-> 1],
   [size |-> 3]}

SomeDescriptions ==
  {[form |-> "none", length |-> 0], [form |-> "none", length |-> 3],
   [form |-> "bad"]}
    \cup {[form |-> "hash", val |-> v] : v \in Values}

SomeLeftover ==
  {[mode |-> {}, size |-> 0, mtime |-> 0],
   [mode |-> {0, 7, 9, 15}, size |-> 1, mtime |-> 7]}

Token(t) == [token |-> t, name |-> "", val |-> << >>]
Entry(name, val) == [token |-> "entry", name |-> name, val |-> val]
SomeDocuments ==
  {<<Token("{"), Entry("page", v), Entry("more", [size |-> 1]),
     Token("end")>> :
     v \in {u \in Values : Has(u, "mode") /\ u.mode.long}}
  \cup {<<Token("["), Entry("page", << >>), Token("end")>>,
        <<Token("{"), Token("end")>>,
        <<Token("html"), Token("end")>>}
=============================================================================
