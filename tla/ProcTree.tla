------------------------------ MODULE ProcTree ------------------------------
(***************************************************************************)
(* The tree below /.proc: the objects that AutoHttpFsProc::init() mounts   *)
(* and the answer each gives by path (procmap.cpp, proc.h, proc.cpp).      *)
(*                                                                         *)
(* An object inherits an error from ProcAbstract for what its class does   *)
(* not override.  A path is the sequence of its names.                     *)
(***************************************************************************)
EXTENDS FileStat, Sequences, SequencesExt

ENOENT == 2      ENOSYS == 38

\* One call of mount().  The directory it is mounted on is named by its
\* place in the table; path is what the Proc_Dir itself was given.
DirAt(name, path, base) ==
  [name |-> name, class |-> "Dir", path |-> path, base |-> base]
FileAt(name, class, base) ==
  [name |-> name, class |-> class, path |-> << >>, base |-> base]

Mounts ==
  << DirAt(".proc", <<".proc">>, {}),
     DirAt("benchmark", <<".proc", "benchmark">>, {1}),
     FileAt("4GB.null", "BenchmarkNull", {2}),
     FileAt("4GB", "Benchmark", {2}),
     DirAt("cache", <<".proc", "cache">>, {1}),
     FileAt("enable", "StringStreamIO", {5}),
     FileAt("entries", "StringStream", {5}),
     FileAt("max_entries", "StringStreamIO", {5}),
     FileAt("expire", "StringStreamIO", {5}),
     FileAt("loglevel", "StringStreamIO", {5}) >>

\* A bug: everything is mounted below the first directory.
MountPathOnRoot(m) ==
  IF m.base = {} THEN <<m.name>> ELSE <<".proc", m.name>>

\* mount() joins the path of the directory, if there is one, and the name.
MountPath(m) ==
  IF m.base = {} THEN <<m.name>>
  ELSE LET base == CHOOSE i \in m.base : TRUE
       IN  Append(Mounts[base].path, m.name)

VARIABLES
  m_procs,   \* the object at each path
  m_dirs     \* the names that were mounted on each directory

Empty == [p \in {} |-> {}]
Init == m_procs = Empty /\ m_dirs = Empty

(* init(): of two objects at one path insert() keeps the first. *)
MountAll ==
  /\ m_procs' =
       [p \in {MountPath(m) : m \in Range(Mounts)} |->
          LET here == {i \in DOMAIN Mounts : MountPath(Mounts[i]) = p}
          IN  Mounts[CHOOSE i \in here : \A j \in here : i <= j]]
  /\ m_dirs' =
       [p \in {q \in DOMAIN m_procs' : m_procs'[q].class = "Dir"} |->
          {m.name : m \in {m \in Range(Mounts) :
                             \E i \in m.base : Mounts[i] = m_procs'[p]}}]

Found(p) == p \in DOMAIN m_procs
IsA(p, classes) == m_procs[p].class \in classes

\* The modes that the classes' getattr() gives.
DirMode == S_IFDIR \cup Readable \cup Executable
StringStreamMode == S_IFREG \cup Readable
StringStreamIOMode == StringStreamMode \cup S_IWUSR
BenchmarkMode == S_IFREG \cup Readable

Mode(p) ==
  CASE IsA(p, {"Dir"}) -> DirMode
    [] IsA(p, {"StringStream"}) -> StringStreamMode
    [] IsA(p, {"StringStreamIO"}) -> StringStreamIOMode
    [] IsA(p, {"Benchmark", "BenchmarkNull"}) -> BenchmarkMode

\* What AutoHttpFsProc's methods return.  What a class does not override is
\* ProcAbstract's.
Inherited == -ENOSYS

GetattrAt(p) == IF Found(p) THEN 0 ELSE -ENOENT

OpendirAt(p) ==
  CASE ~ Found(p) -> -ENOENT
    [] Found(p) -> IF IsA(p, {"Dir"}) THEN 0 ELSE Inherited

OpenAt(p) ==
  CASE ~ Found(p) -> -ENOENT
    [] Found(p) -> IF IsA(p, {"Dir"}) THEN Inherited ELSE 0

TruncateAt(p) ==
  CASE ~ Found(p) -> -ENOENT
    [] Found(p) -> IF IsA(p, {"StringStreamIO"}) THEN 0 ELSE Inherited

\* Proc_Dir::readdir gives the names that were mounted there, and a
\* benchmark file as much as it is asked for at any place.
ReaddirAt(p) == m_dirs[p]
BenchmarkRead(n) == n
=============================================================================
