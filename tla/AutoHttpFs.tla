----------------------------- MODULE AutoHttpFs -----------------------------
(***************************************************************************)
(* The program from its command line to its answers (main.cpp,             *)
(* autohttpfs.cpp): the options, setup(), and the handlers that look at a  *)
(* path, list a directory and read a file.                                 *)
(*                                                                         *)
(* Composes Options, ProcTree, ReadDir and ReadFile, whose actions are     *)
(* steps of this module.  The paths are those of .proc, the root, a        *)
(* directory Host of a server with one entry Page, and three that nobody   *)
(* has.  RemoteAttr::get_attr answers from m_attr, what store() has made   *)
(* of the server's headers; it may be stored again, with other headers, at *)
(* any time.  The state these handlers share changes in no other way, so   *)
(* that one request at a time is enough, and so is one open handle:        *)
(* Handles is about several.                                               *)
(***************************************************************************)
EXTENDS ReadFile, FileStat, SequencesExt

CONSTANTS
  CommandLines, Documents, Statuses,   \* see Options and ReadDir
  RootStats,      \* what stat() says of each --root: {} or one stat
  Descriptions,   \* what the server says of Page
  Leftover        \* what an uninitialised FileStat may hold

Arguments == [key : STRING, value : STRING, number : Int]
ASSUME CommandLinesAssumption ==
  /\ CommandLines \subseteq Seq(Arguments)
  /\ \A line \in CommandLines : \A i \in DOMAIN line :
       line[i].key = "root" => line[i].value \in DOMAIN RootStats

\* A document is closed by its last token, and not before.
ASSUME DocumentsAssumption ==
  \A d \in Documents :
    /\ d \in Seq(Range(d)) /\ d # << >>
    /\ \A i \in DOMAIN d : d[i].token = "end" <=> i = Len(d)

StatType == [mode : SUBSET ModeBits, size : Nat, mtime : Int]
ASSUME RootStatsAssumption ==
  /\ "/" \in DOMAIN RootStats
  /\ \A r \in DOMAIN RootStats : RootStats[r] \subseteq StatType

FileStats == [mode : SUBSET ModeBits, size : Lengths, mtime : Int]
ASSUME LeftoverAssumption == 0 \in Lengths /\ Leftover \subseteq FileStats

\* What the parser has found in each field, if it is there.
FieldType ==
  [mode |-> [letter : STRING, long : BOOLEAN, perms : SUBSET (0..8)],
   size |-> Lengths,
   mtime |-> [valid : BOOLEAN, wall : Int, zone : Int]]
ASSUME DescriptionsAssumption ==
  \A d \in Descriptions :
    /\ d.form \in {"none", "bad", "hash"}
    /\ d.form = "none" => d.length \in Lengths
    /\ d.form = "hash" =>
         \A field \in DOMAIN d.val \cap DOMAIN FieldType :
           d.val[field] \in FieldType[field]

VARIABLES
  given, argv, it, helper, settings, help,             \* Options
  step, answered, type, document, incoming, m_body,    \* ReadDir
  m_procs, m_dirs,                                     \* ProcTree
  stage,       \* "options", "setup", "mounted", "exited"
  m_errno, m_root_stat, m_reguler_stat,   \* set by setup()
  header,      \* the server's present description of Page
  m_attr,      \* the attributes get_attr() finds for the server's paths
  fh,          \* the open handle, if there is one
  reply        \* the last reply

Opt == INSTANCE Options
List == INSTANCE ReadDir
Proc == INSTANCE ProcTree

options == <<given, argv, it, helper, settings, help>>
listing == <<step, answered, type, document, incoming, m_body>>
tree == <<m_procs, m_dirs>>
templates == <<m_errno, m_root_stat, m_reguler_stat>>
mount == <<stage, templates, tree>>
server == <<header, m_attr>>
fsVars == <<vars, options, listing, mount, server, fh, reply>>

EINVAL == 22      ENOTDIR == 20      ENOSYS == 38

Root == << >>
Host == <<"host">>
Page == <<"host", "page">>
ProcPaths == DOMAIN m_procs
Nowhere == {<<"host", "none">>, <<".hidden">>, <<".proc", "none">>}
Paths == {Root, Host, Page} \cup ProcPaths \cup Nowhere

Now == 9                          \* time(NULL)
NoReply == [op |-> "none", ret |-> 0, entries |-> {}]
Answered(op, r, es) == reply' = [op |-> op, ret |-> r, entries |-> es]

-----------------------------------------------------------------------------
(* Attributes. *)

UrlStat(m, l, t) == [mode |-> m, length |-> l, mtime |-> t]
DefaultUrlStat == UrlStat(S_IFDIR, 0, 0)

(* RemoteAttr::store: with no X-FileStat-Json what the request has shown;  *)
(* with one that does not parse the caller's default; otherwise what the   *)
(* FileStat holds, of which only the fields in the text are set.           *)
Stored(d) ==
  CASE d.form = "none" -> {UrlStat(S_IFREG, d.length, Now)}
    [] d.form = "bad"  -> {DefaultUrlStat}
    [] d.form = "hash" -> {UrlStat(fs.mode, fs.size, fs.mtime) :
                             fs \in ParsedFileStats(d.val, Leftover)}

HostStat == UrlStat(S_IFDIR \cup Readable \cup Executable, 0, 1)

(* RemoteAttr::get_attr: {} is -ENOENT, also for all that begins with "/." *)
Dotted(p) == p # Root /\ p[1] \in {".proc", ".hidden"}
GetAttr(p) ==
  CASE p = Root -> {DefaultUrlStat}
    [] Dotted(p) -> {}
    [] p \in DOMAIN m_attr -> {m_attr[p]}
    [] OTHER -> {}

(* setup(): nothing is writable; a directory can be searched by its owner, *)
(* a file cannot be executed, but --readonly=no makes it writable.         *)
ZeroStat == [mode |-> {}, size |-> 0, mtime |-> 0]

StatD(st) ==
  [st EXCEPT !.mode = ((@ \ Writable) \ S_IFMT) \cup S_IFDIR \cup S_IXUSR]

\* A bug: the execute bits of the root directory stay.
StatRExecutable(st) ==
  [st EXCEPT !.mode = ((@ \ Writable) \ S_IFMT) \cup S_IFREG
                        \cup IF settings.readonly THEN {} ELSE S_IWUSR]

StatR(st) ==
  [st EXCEPT !.mode = (((@ \ Writable) \ S_IFMT) \ Executable) \cup S_IFREG
                        \cup IF settings.readonly THEN {} ELSE S_IWUSR]

Template(us) == IF IsDir(us.mode) THEN m_root_stat ELSE m_reguler_stat

\* A bug: the mode of the server is shown as it is.
ShownModeAsIs(us) ==
  IF us.mode \ S_IFMT = {} THEN Template(us).mode ELSE us.mode

(* getattr(): a mode without permissions is not believed. *)
ShownMode(us) ==
  IF us.mode \ S_IFMT = {} THEN Template(us).mode
  ELSE ((us.mode \ Writable) \cup IF settings.readonly THEN {} ELSE S_IWUSR)
         \ IF settings.noexec /\ IsReg(us.mode) THEN Executable ELSE {}

ShownSize(us) == IF us.length # 0 THEN us.length ELSE Template(us).size
ShownTime(us) == IF us.mtime # 0 THEN us.mtime ELSE Template(us).mtime

-----------------------------------------------------------------------------
(* What the handlers return for a path. *)

(* The error of setup() comes first, and as it is: a positive errno. *)
GetattrRet(p) ==
  CASE m_errno # 0 -> m_errno
    [] m_errno = 0 /\ Proc!GetattrAt(p) = 0 -> 0
    [] OTHER -> IF GetAttr(p) = {} THEN -ENOENT ELSE 0

OpendirRet(p) ==
  IF Proc!OpendirAt(p) = 0 \/ \E us \in GetAttr(p) : IsDir(us.mode) THEN 0
  ELSE IF \E us \in GetAttr(p) : IsReg(us.mode) THEN -ENOTDIR ELSE -ENOENT

\* A bug: the type is compared as a whole.
OpenRetWholeType(p) ==
  IF Proc!OpenAt(p) = 0 \/ \E us \in GetAttr(p) : us.mode \cap S_IFMT = S_IFREG
  THEN 0
  ELSE IF \E us \in GetAttr(p) : IsDir(us.mode) THEN -EINVAL ELSE -ENOENT

OpenRet(p) ==
  IF Proc!OpenAt(p) = 0 \/ \E us \in GetAttr(p) : IsReg(us.mode) THEN 0
  ELSE IF \E us \in GetAttr(p) : IsDir(us.mode) THEN -EINVAL ELSE -ENOENT

TruncateRet(p) == IF Proc!TruncateAt(p) = 0 THEN 0 ELSE -ENOSYS

\* A bug: the type is compared as a whole.
ListedModeWholeType(fs) ==
  IF fs.mode \cap S_IFMT = S_IFDIR THEN m_root_stat.mode ELSE m_reguler_stat.mode

(* readdir(): the bits of a link are added to those of a regular file,     *)
(* one of which S_IFREG has as well.                                       *)
ListedMode(fs) ==
  IF IsDir(fs.mode) THEN m_root_stat.mode
  ELSE m_reguler_stat.mode \cup IF fs.mode \cap S_IFLNK # {} THEN S_IFLNK ELSE {}

Dots == {[name |-> n, mode |-> {}, about |-> {}] : n \in {".", ".."}}
Listed(e) == [name |-> e.name, mode |-> ListedMode(e.fs), about |-> {e.fs}]

-----------------------------------------------------------------------------
FsInit ==
  /\ Opt!Init /\ List!Init /\ Proc!Init
  /\ stage = "options"
  /\ m_errno = 0 /\ m_root_stat = ZeroStat /\ m_reguler_stat = ZeroStat
  /\ header = [form |-> "absent"]
  /\ m_attr = [p \in {} |-> DefaultUrlStat]
  /\ fh = {}
  /\ reply = NoReply
  /\ phase = "idle"
  /\ asked = 0 /\ offset = 0 /\ length = 0 /\ size = 0 /\ body = 0
  /\ status = 0 /\ coming = << >> /\ data = << >> /\ ret = 0

ParseArgs ==
  /\ stage = "options"
  /\ Opt!Take \/ Opt!Skip \/ Opt!NextArgument
  /\ UNCHANGED <<vars, listing, mount, server, fh, reply>>

Setup ==
  /\ stage = "options" /\ Opt!Parsed
  /\ LET found == RootStats[settings.root]
         st == IF found = {} THEN ZeroStat ELSE CHOOSE s \in found : TRUE
     IN  /\ m_errno' = IF found = {} THEN ENOENT ELSE 0
         /\ m_root_stat' = StatD(st)
         /\ m_reguler_stat' = StatR(st)
  /\ stage' = "setup"
  /\ UNCHANGED <<vars, options, listing, tree, server, fh, reply>>

\* fuse_main() uses up the arguments and calls init().  Two settings are
\* still to be read; what nobody reads any more is set back.
Mount ==
  /\ stage = "setup" /\ ~ help
  /\ stage' = "mounted"
  /\ given' = << >> /\ argv' = << >> /\ it' = 1
  /\ settings' = [Opt!Defaults EXCEPT !.readonly = settings.readonly,
                                      !.noexec = settings.noexec]
  /\ Proc!MountAll
  /\ UNCHANGED <<vars, helper, help, listing, templates, server, fh, reply>>

\* With --help it returns, and main() adds its own text.
Exit ==
  /\ stage = "setup" /\ help
  /\ stage' = "exited"
  /\ UNCHANGED <<vars, options, listing, templates, tree, server, fh, reply>>

Exited == stage = "exited" /\ UNCHANGED fsVars

\* The server describes its paths, and the cache keeps that.
Idle == stage = "mounted" /\ phase = "idle" /\ step = "idle"

Lookup ==
  /\ Idle
  /\ \E d \in Descriptions : \E us \in Stored(d) :
       header' = d /\ m_attr' = [p \in {Host, Page} |->
                                   IF p = Host THEN HostStat ELSE us]
  /\ UNCHANGED <<vars, options, listing, mount, fh, reply>>

\* The entry goes, and the server has nothing there any more.
Forget ==
  /\ Idle /\ Page \in DOMAIN m_attr
  /\ header' = [form |-> "absent"]
  /\ m_attr' = [p \in {Host} |-> HostStat]
  /\ UNCHANGED <<vars, options, listing, mount, fh, reply>>

-----------------------------------------------------------------------------
(* Requests that are answered at once. *)

AtOnce == Idle /\ UNCHANGED <<vars, options, listing, mount, server>>

Getattr(p) == AtOnce /\ Answered("getattr", GetattrRet(p), {}) /\ UNCHANGED fh

Truncate(p) == AtOnce /\ Answered("truncate", TruncateRet(p), {}) /\ UNCHANGED fh

Handle(p, kind, r) ==
  fh' = IF r = 0 THEN {[path |-> p, proc |-> Proc!Found(p), kind |-> kind]} ELSE fh

Opendir(p) ==
  /\ AtOnce /\ fh = {}
  /\ Answered("opendir", OpendirRet(p), {})
  /\ Handle(p, "dir", OpendirRet(p))

Open(p) ==
  /\ AtOnce /\ fh = {}
  /\ Answered("open", OpenRet(p), {})
  /\ Handle(p, "file", OpenRet(p))

Release(h) == AtOnce /\ Answered("release", 0, {}) /\ fh' = {}

\* The root lists nothing, and a directory of .proc its names without
\* attributes.
ReaddirLocal(h) ==
  /\ AtOnce /\ h.kind = "dir" /\ (h.path = Root \/ h.proc)
  /\ Answered("readdir", 0,
       Dots \cup {[name |-> n, mode |-> {}, about |-> {}] :
                    n \in IF h.path = Root THEN {} ELSE Proc!ReaddirAt(h.path)})
  /\ UNCHANGED fh

ReadBenchmark(h) ==
  /\ AtOnce /\ h.kind = "file" /\ h.proc
  /\ Proc!IsA(h.path, {"Benchmark", "BenchmarkNull"})
  /\ \E n \in Sizes : Answered("read", Proc!BenchmarkRead(n), {})
  /\ UNCHANGED fh

-----------------------------------------------------------------------------
(* Listing a directory of a server. *)

ReaddirBegin(h) ==
  /\ Idle /\ h.kind = "dir" /\ ~ h.proc /\ h.path # Root
  /\ List!Begin
  /\ reply' = NoReply
  /\ UNCHANGED <<vars, options, mount, server, fh>>

ReaddirTransfer ==
  /\ \/ List!Headers \/ List!EndBody \/ List!BreakBody
     \/ \E n \in 1..Len(incoming) : List!Piece(n)
  /\ UNCHANGED <<vars, options, mount, server, fh, reply>>

\* readdir() returns 0 in any case.
ReaddirFill ==
  /\ List!Reset
  /\ Answered("readdir", 0,
       Dots \cup IF List!Accepted
                 THEN {Listed(e) : e \in Range(List!Direntries(m_body))}
                 ELSE {})
  /\ UNCHANGED <<vars, options, mount, server, fh>>

-----------------------------------------------------------------------------
(* Reading a file of a server. *)

ReadBegin(h) ==
  /\ Idle /\ h.kind = "file" /\ ~ h.proc
  /\ \E n \in Sizes, o \in Offsets : \E us \in GetAttr(h.path) :
       /\ IsReg(us.mode)
       /\ phase' = "begin"
       /\ asked' = n /\ size' = n /\ offset' = o
       /\ length' = us.length /\ body' = us.length
  /\ reply' = NoReply
  /\ UNCHANGED <<status, coming, data, ret, options, listing, mount, server, fh>>

\* The path is no longer what was opened.
ReadRefused(h) ==
  /\ AtOnce /\ h.kind = "file" /\ ~ h.proc
  /\ ~ \E us \in GetAttr(h.path) : IsReg(us.mode)
  /\ Answered("read", IF GetAttr(h.path) = {} THEN -ENOENT ELSE -EINVAL, {})
  /\ UNCHANGED fh

ReadTransfer ==
  /\ \/ Clamp \/ Request \/ Break \/ Finish
     \/ \E n \in 1..Len(coming) : Deliver(n)
  /\ UNCHANGED <<options, listing, mount, server, fh, reply>>

ReadReturn ==
  /\ phase = "done"
  /\ Answered("read", ret, {})
  /\ phase' = "idle"
  /\ asked' = 0 /\ offset' = 0 /\ length' = 0 /\ size' = 0 /\ body' = 0
  /\ status' = 0 /\ coming' = << >> /\ data' = << >> /\ ret' = 0
  /\ UNCHANGED <<options, listing, mount, server, fh>>

-----------------------------------------------------------------------------
Transfers == ReaddirTransfer \/ ReaddirFill \/ ReadTransfer \/ ReadReturn

FsNext ==
  \/ ParseArgs \/ Setup \/ Mount \/ Exit \/ Exited \/ Lookup \/ Forget
  \/ \E p \in Paths : Getattr(p) \/ Truncate(p) \/ Opendir(p) \/ Open(p)
  \/ \E h \in fh : \/ Release(h) \/ ReaddirLocal(h) \/ ReadBenchmark(h)
                   \/ ReaddirBegin(h) \/ ReadBegin(h) \/ ReadRefused(h)
  \/ Transfers

FsSpec == FsInit /\ [][FsNext]_fsVars
FsFairSpec == FsSpec /\ WF_fsVars(Transfers)
-----------------------------------------------------------------------------
FsTypeOK ==
  /\ stage \in {"options", "setup", "mounted", "exited"}
  /\ it \in 0..Len(argv) + 1 /\ helper \in 1..Len(Opt!Helpers) + 1
  /\ DOMAIN settings = DOMAIN Opt!Defaults /\ help \in BOOLEAN
  /\ step \in {"idle", "request", "body", "answered"}
  /\ phase \in {"idle", "begin", "request", "body", "done"}
  /\ m_errno \in {0, ENOENT} /\ {m_root_stat, m_reguler_stat} \subseteq StatType
  /\ \A p \in DOMAIN m_attr :
       m_attr[p] \in [mode : SUBSET ModeBits, length : Lengths, mtime : Int]
  /\ \A h \in fh : h.path \in Paths /\ h.kind \in {"file", "dir"}
  /\ reply.ret \in Nat \cup {-ENOENT, -EINVAL, -ENOTDIR, -ENOSYS}

(* What fuse_main gets are the arguments no helper knows, in order, and    *)
(* each setting is the last valid one (autohttpfs.cpp:41-57).              *)
OptionsTaken == stage = "options" => Opt!OptionsTaken

(* The types that stat shows for the server's paths. *)
ShownType(us) == ShownMode(us) \cap S_IFMT
Held == {m_attr[p] : p \in DOMAIN m_attr}

(* With --readonly=yes no path of a server is shown writable by anybody,   *)
(* whatever its headers say and whatever was uninitialised; with no, every *)
(* regular file is writable by its owner, and nothing by others            *)
(* (History 0.0.5, autohttpfs.cpp:113-130, 156-158).                       *)
ReadOnlyMount ==
  stage = "mounted" =>
    \A us \in Held :
      /\ ShownMode(us) \cap Writable \subseteq S_IWUSR
      /\ settings.readonly => ShownMode(us) \cap Writable = {}
      /\ ~ settings.readonly /\ ShownType(us) = S_IFREG => S_IWUSR \subseteq ShownMode(us)

(* With --noexec=yes no regular file of a server is shown executable; with *)
(* no, a file has the execute bits that the server gives it                *)
(* (History 0.0.6, autohttpfs.cpp:127, 159).                               *)
NoExecMount ==
  stage = "mounted" =>
    \A us \in Held :
      ShownType(us) = S_IFREG =>
        ShownMode(us) \cap Executable =
          IF settings.noexec THEN {} ELSE us.mode \cap Executable

(* What stat shows as a directory can be opened as one, and what it shows  *)
(* as a regular file can be opened, in .proc and on a server, although the *)
(* three handlers look at different bits.  Only for a server that gives a  *)
(* type other than file, directory, block, link or socket is this not so   *)
(* (autohttpfs.cpp:151-160, 185-192, 287-294).                             *)
ShownKindOpens ==
  m_errno = 0 =>
    \A p \in Paths :
      LET shown == IF Proc!Found(p) THEN {Proc!Mode(p)}
                   ELSE {ShownMode(us) : us \in {u \in GetAttr(p) :
                                                   IsDir(u.mode) \/ IsReg(u.mode)}}
      IN  \A mode \in shown :
            /\ mode \cap S_IFMT = S_IFDIR => OpendirRet(p) = 0
            /\ mode \cap S_IFMT = S_IFREG => OpenRet(p) = 0

(* Every name that a directory of .proc lists is there when it is looked   *)
(* up, as either a directory or a file, and every object can be reached    *)
(* from .proc by such names (procmap.cpp:99-126).                          *)
ProcTreeIsWhole ==
  m_errno = 0 =>
    /\ \A p \in {q \in ProcPaths : Proc!IsA(q, {"Dir"})} :
         \A n \in m_dirs[p] :
           /\ GetattrRet(Append(p, n)) = 0
           /\ (OpenRet(Append(p, n)) = 0) # (OpendirRet(Append(p, n)) = 0)
    /\ \A p \in ProcPaths :
         Len(p) > 1 => LET up == SubSeq(p, 1, Len(p) - 1)
                       IN  Proc!Found(up) /\ p[Len(p)] \in m_dirs[up]

(* If the listing of a directory and the headers of an entry describe the  *)
(* entry alike, it is listed as a directory exactly if it can be opened as *)
(* one (autohttpfs.cpp:185, 230).                                          *)
ListedDirOpens ==
  \A h \in fh, e \in reply.entries : \A fs \in e.about :
    h.path = Host /\ fs.mode = UNION {us.mode : us \in GetAttr(Page)} =>
      (e.mode \cap S_IFMT = S_IFDIR <=> OpendirRet(Page) = 0)

(* A directory is listed whole or not at all: a body that breaks off,      *)
(* also where curl does not notice, contributes no entry                   *)
(* (autohttpfs.cpp:218-227, dirent.cpp:25-60).                             *)
ListingIsWhole ==
  step = "answered" /\ List!Accepted => m_body = document

(* A read that succeeds with nothing is behind the end that stat shows,    *)
(* and no read passes that end; a file of length 0 is shown with the size  *)
(* of the root directory instead (autohttpfs.cpp:161-163, 316-320).        *)
EndOfFileAgrees ==
  phase = "done" /\ ret >= 0 /\ length # 0 =>
    \A h \in fh : \A us \in GetAttr(h.path) :
      IF ret = 0 THEN offset >= ShownSize(us) ELSE offset + ret <= ShownSize(us)

(* A date that the server writes in the zone the program runs in is the    *)
(* time that stat shows, unless it is 0 (time_iso8601.cpp:43-57,           *)
(* filestat.cpp:92-96, autohttpfs.cpp:164-166).                            *)
ShownTimeIsNamed ==
  \A us \in GetAttr(Page) :
    header.form = "hash" /\ Has(header.val, "mtime") =>
      LET t == header.val.mtime
      IN  t.valid /\ t.zone = LocalZone /\ t.wall # t.zone =>
            ShownTime(us) = t.wall - t.zone

(* Every listing and every read of a server's file returns, as the server  *)
(* answers or the connection breaks (curlaccessor.cpp:114-143).            *)
RequestsReturn ==
  /\ (step # "idle") ~> (step = "idle")
  /\ (phase # "idle") ~> (phase = "idle")

-----------------------------------------------------------------------------
(* A property the code does not have. *)

(* A field that X-FileStat-Json does not name is that of an empty          *)
(* directory of time 0 (filestat_test.cpp:57-63, filestat.h:31).           *)
MissingFieldsAreDefaults ==
  \A us \in GetAttr(Page) :
    header.form = "hash" =>
      /\ Has(header.val, "mode") \/ us.mode = DefaultFileStat.mode
      /\ Has(header.val, "size") \/ us.length = DefaultFileStat.size
      /\ Has(header.val, "mtime") \/ us.mtime = DefaultFileStat.mtime
=============================================================================
