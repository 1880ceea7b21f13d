-------------------------- MODULE AutoHttpFsProofs --------------------------
(* Theorems about AutoHttpFs for all command lines, roots of the host,      *)
(* descriptions, documents, sizes and offsets.                              *)
EXTENDS AutoHttpFs, ReadFileProofs, SequenceTheorems,
        FiniteSetTheorems, WellFoundedInduction

(* What parse_args has of the command line.                                *)
OptionsInv ==
  /\ argv \in Seq(Arguments)
  /\ \A i \in DOMAIN argv :
       argv[i].key = "root" => argv[i].value \in DOMAIN RootStats
  /\ it \in 0..Len(argv) + 1 /\ helper \in 1..6
  /\ DOMAIN settings = {"readonly", "noexec", "loglevel", "root", "max_readahead"}
  /\ settings.readonly \in BOOLEAN /\ settings.noexec \in BOOLEAN
  /\ settings.root \in DOMAIN RootStats
  /\ help \in BOOLEAN

(* The templates of setup(), without what the handlers never look at.      *)
SetupInv ==
  /\ stage \in {"options", "setup", "mounted", "exited"}
  /\ m_errno \in {0, ENOENT} /\ m_root_stat \in StatType /\ m_reguler_stat \in StatType
  /\ stage = "options" => m_root_stat = ZeroStat /\ m_reguler_stat = ZeroStat
  /\ stage # "options" =>
       /\ m_root_stat.mode \cap (Writable \cup S_IFMT) = S_IFDIR
       /\ m_reguler_stat.mode \cap (Writable \cup Executable \cup S_IFMT) =
            S_IFREG \cup IF settings.readonly THEN {} ELSE S_IWUSR

Classes == {"Dir", "StringStream", "StringStreamIO", "Benchmark", "BenchmarkNull"}

(* All that is mounted is below .proc, and of one of the five classes.     *)
TreeInv ==
  /\ stage # "mounted" => DOMAIN m_procs = {}
  /\ \A p \in DOMAIN m_procs :
       p # << >> /\ p[1] = ".proc" /\ m_procs[p].class \in Classes

(* What a listing has received and what it waits for make the document.    *)
ListingInv ==
  /\ step \in {"idle", "request", "body", "answered"}
  /\ step # "idle" => stage = "mounted"
  /\ step \in {"idle", "request"} => m_body = << >>
  /\ step \in {"body", "answered"} /\ answered # -18 =>
       /\ document \in Documents
       /\ m_body \in Seq(Range(document)) /\ incoming \in Seq(Range(document))
       /\ document = m_body \o incoming

(* What get_attr() finds was stored from the present description.          *)
AttrInv ==
  /\ DOMAIN m_attr \subseteq {Host, Page}
  /\ Host \in DOMAIN m_attr => m_attr[Host] = HostStat
  /\ Page \in DOMAIN m_attr => header \in Descriptions /\ m_attr[Page] \in Stored(header)

(* There is one handle at most, and none before the mount.                 *)
HandleInv ==
  /\ \A h \in fh : h.path \in Paths /\ h.kind \in {"file", "dir"}
  /\ \A g, h \in fh : g = h
  /\ fh # {} => stage = "mounted"

(* A read goes on for an open file whose cached length it has taken.       *)
ReadInv ==
  IF phase = "idle"
  THEN /\ asked = 0 /\ offset = 0 /\ length = 0 /\ size = 0 /\ body = 0
       /\ status = 0 /\ coming = << >> /\ data = << >> /\ ret = 0
  ELSE /\ IInv
       /\ stage = "mounted"
       /\ \E h \in fh : \E us \in GetAttr(h.path) : us.length = length
       /\ phase = "done" => \/ ret = -ENOENT
                            \/ ret = 0 /\ offset >= length
                            \/ ret > 0 /\ offset + ret <= length

(* An entry of the last listing has the mode its FileStat gives.           *)
ReplyInv ==
  /\ reply.ret \in Nat \cup {-ENOENT, -EINVAL, -ENOTDIR, -ENOSYS}
  /\ \A e \in reply.entries : \A fs \in e.about :
       stage = "mounted" /\ e.mode = ListedMode(fs)

FsInv ==
  /\ OptionsInv /\ SetupInv /\ TreeInv /\ ListingInv /\ AttrInv /\ HandleInv
  /\ ReadInv /\ ReplyInv

-----------------------------------------------------------------------------
(* Which part of the state a step may change: the handlers share little.   *)
LEMMA Frame ==
  ASSUME [FsNext]_fsVars
  PROVE  /\ \/ ParseArgs \/ Setup \/ Mount \/ Exit
            \/ UNCHANGED <<options, mount>>
         /\ Lookup \/ Forget \/ UNCHANGED server
         /\ \/ \E h \in fh : ReaddirBegin(h)
            \/ ReaddirTransfer \/ ReaddirFill
            \/ UNCHANGED listing
         /\ \/ \E h \in fh : ReadBegin(h)
            \/ ReadTransfer \/ ReadReturn
            \/ UNCHANGED vars
         /\ \/ \E p \in Paths : Opendir(p) \/ Open(p)
            \/ \E h \in fh : Release(h)
            \/ UNCHANGED fh
<1> USE DEF AtOnce
<1>1. CASE ParseArgs \/ Setup \/ Mount \/ Exit
  BY <1>1 DEF ParseArgs, Setup, Mount, Exit
<1>2. CASE Exited \/ UNCHANGED fsVars
  BY <1>2 DEF Exited, fsVars, mount, server
<1>3. CASE Lookup \/ Forget
  BY <1>3 DEF Lookup, Forget
<1>4. ASSUME NEW p \in Paths, Getattr(p) \/ Truncate(p) \/ Opendir(p) \/ Open(p)
      PROVE  /\ UNCHANGED <<vars, options, listing, mount, server>>
             /\ Opendir(p) \/ Open(p) \/ UNCHANGED fh
  BY <1>4 DEF Getattr, Truncate, Opendir, Open
<1>5. ASSUME NEW h \in fh,
             \/ Release(h) \/ ReaddirLocal(h) \/ ReadBenchmark(h)
             \/ ReadRefused(h)
      PROVE  /\ UNCHANGED <<vars, options, listing, mount, server>>
             /\ Release(h) \/ UNCHANGED fh
  BY <1>5 DEF Release, ReaddirLocal, ReadBenchmark, ReadRefused
<1>6. ASSUME NEW h \in fh, ReaddirBegin(h)
      PROVE  UNCHANGED <<vars, options, mount, server, fh>>
  BY <1>6 DEF ReaddirBegin
<1>7. ASSUME NEW h \in fh, ReadBegin(h)
      PROVE  UNCHANGED <<options, listing, mount, server, fh>>
  BY <1>7 DEF ReadBegin
<1>8. ASSUME Transfers
      PROVE  /\ UNCHANGED <<options, mount, server, fh>>
             /\ ReaddirTransfer \/ ReaddirFill \/ UNCHANGED listing
             /\ ReadTransfer \/ ReadReturn \/ UNCHANGED vars
  BY <1>8 DEF Transfers, ReaddirTransfer, ReaddirFill, ReadTransfer, ReadReturn
<1> QED
  BY <1>1, <1>2, <1>3, <1>4, <1>5, <1>6, <1>7, <1>8 DEF FsNext

-----------------------------------------------------------------------------
(* Each part of the invariant, at the start and over a step.               *)

(* parse_args leaves arguments of the command line, and what is a switch   *)
(* stays one.                                                              *)
LEMMA OptionsInit == FsInit => OptionsInv
<1> SUFFICES ASSUME FsInit PROVE OptionsInv
  OBVIOUS
<1>1. /\ given \in CommandLines /\ argv = given /\ it = 1 /\ helper = 1
      /\ settings = Opt!Defaults /\ help = FALSE
  BY DEF FsInit, Opt!Init
<1>2. /\ argv \in Seq(Arguments)
      /\ \A i \in DOMAIN argv :
           argv[i].key = "root" => argv[i].value \in DOMAIN RootStats
  BY <1>1, CommandLinesAssumption
<1>3. /\ DOMAIN settings = {"readonly", "noexec", "loglevel", "root", "max_readahead"}
      /\ settings.readonly \in BOOLEAN /\ settings.noexec \in BOOLEAN
      /\ settings.root \in DOMAIN RootStats
  BY <1>1, RootStatsAssumption DEF Opt!Defaults
<1>4. it \in 0..Len(argv) + 1 /\ helper \in 1..6
  BY <1>1, <1>2
<1>5. help \in BOOLEAN
  BY <1>1, Zenon
<1> QED  BY <1>2, <1>3, <1>4, <1>5, Zenon DEF OptionsInv

LEMMA Removed ==
  ASSUME NEW S, NEW s \in Seq(S), NEW i \in 1..Len(s)
  PROVE  /\ RemoveAt(s, i) \in Seq(S)
         /\ Len(RemoveAt(s, i)) = Len(s) - 1
         /\ \A j \in 1..Len(s) - 1 :
              /\ j < i => RemoveAt(s, i)[j] = s[j]
              /\ j >= i => RemoveAt(s, i)[j] = s[j + 1]
<1> DEFINE front == SubSeq(s, 1, i - 1)
           back == SubSeq(s, i + 1, Len(s))
<1>1. /\ front \in Seq(S) /\ Len(front) = i - 1
      /\ \A j \in 1..i - 1 : front[j] = s[j]
  OBVIOUS
<1>2. /\ back \in Seq(S) /\ Len(back) = Len(s) - i
      /\ \A j \in 1..Len(s) - i : back[j] = s[i + j]
  OBVIOUS
<1> DEFINE rest == front \o back
<1>3. RemoveAt(s, i) = rest
  BY DEF RemoveAt
<1> HIDE DEF front, back
<1>4. /\ rest \in Seq(S) /\ Len(rest) = Len(front) + Len(back)
      /\ \A j \in 1..Len(front) + Len(back) :
           rest[j] = IF j <= Len(front) THEN front[j] ELSE back[j - Len(front)]
  BY <1>1, <1>2, ConcatProperties, Zenon
<1> HIDE DEF rest
<1>5. Len(front) = i - 1 /\ Len(front) + Len(back) = Len(s) - 1
  BY <1>1, <1>2
<1>6. ASSUME NEW j \in 1..Len(s) - 1
      PROVE  /\ j < i => rest[j] = s[j]
             /\ j >= i => rest[j] = s[j + 1]
  <2> rest[j] = IF j <= i - 1 THEN front[j] ELSE back[j - (i - 1)]
    BY <1>4, <1>5, Zenon
  <2>1. ASSUME j < i PROVE rest[j] = s[j]
    BY <1>1, <2>1
  <2>2. ASSUME j >= i PROVE rest[j] = s[j + 1]
    <3>1. j - (i - 1) \in 1..Len(s) - i /\ i + (j - (i - 1)) = j + 1
      BY <2>2
    <3> QED  BY <1>2, <2>2, <3>1
  <2> QED  BY <2>1, <2>2
<1> QED  BY <1>3, <1>4, <1>5, <1>6

LEMMA TakeOK ==
  ASSUME OptionsInv, Opt!Take
  PROVE  OptionsInv'
<1> USE DEF OptionsInv
<1>1. /\ it \in 1..Len(argv) /\ helper \in 1..5
      /\ Opt!Helpers[helper] \in DOMAIN settings
      /\ argv[it].key = Opt!Helpers[helper] /\ argv[it] \in Arguments
  BY DEF Opt!Take, Opt!Parsed, Opt!Helpers, Opt!Matches
<1>2. /\ argv' \in Seq(Arguments) /\ Len(argv') = Len(argv) - 1 /\ it' = it - 1
      /\ \A i \in DOMAIN argv' : argv'[i].key = "root" =>
           argv'[i].value \in DOMAIN RootStats
  <2>1. argv' = RemoveAt(argv, it)
    BY DEF Opt!Take, Opt!Shift, Opt!RemoveAt, RemoveAt
  <2>2. /\ argv' \in Seq(Arguments) /\ Len(argv') = Len(argv) - 1
        /\ \A i \in DOMAIN argv' : argv'[i] \in {argv[i], argv[i + 1]}
    <3> DEFINE left == RemoveAt(argv, it)
    <3>1. /\ left \in Seq(Arguments) /\ Len(left) = Len(argv) - 1
          /\ \A i \in 1..Len(argv) - 1 :
               (i < it => left[i] = argv[i]) /\ (i >= it => left[i] = argv[i + 1])
      BY <1>1, Removed
    <3> HIDE DEF left
    <3>2. DOMAIN left = 1..Len(argv) - 1
      BY <3>1
    <3>3. \A i \in DOMAIN left : left[i] \in {argv[i], argv[i + 1]}
      BY <1>1, <3>1, <3>2
    <3> QED  BY <2>1, <3>1, <3>3 DEF left
  <2>3. \A i \in DOMAIN argv' : i \in DOMAIN argv /\ i + 1 \in DOMAIN argv
    BY <2>2
  <2> QED  BY <1>1, <2>2, <2>3 DEF Opt!Take, Opt!Shift
<1>3. helper' \in 1..6 /\ help' \in BOOLEAN
  BY <1>1 DEF Opt!Take
<1>4. /\ DOMAIN settings' = DOMAIN settings
      /\ settings'.readonly \in BOOLEAN /\ settings'.noexec \in BOOLEAN
      /\ settings'.root \in DOMAIN RootStats
  <2>1. CASE settings' = settings
    BY <2>1
  <2>2. CASE settings' = [settings EXCEPT ![Opt!Helpers[helper]] = Opt!Value(argv[it])]
    <3>1. /\ argv[it].key \in {"readonly", "noexec"} => Opt!Value(argv[it]) \in BOOLEAN
          /\ argv[it].key = "root" => Opt!Value(argv[it]) \in DOMAIN RootStats
      <4>1. /\ argv[it].key \in {"readonly", "noexec"} =>
                  Opt!Value(argv[it]) = (argv[it].value = "yes")
            /\ argv[it].key = "root" => Opt!Value(argv[it]) = argv[it].value
        BY Zenon DEF Opt!Value, Opt!Switches, Opt!Numbers
      <4>2. (argv[it].value = "yes") \in BOOLEAN
        OBVIOUS
      <4>3. argv[it].key = "root" => argv[it].value \in DOMAIN RootStats
        BY <1>1
      <4> QED  BY <4>1, <4>2, <4>3, Zenon
    <3> QED  BY <1>1, <2>2, <3>1
  <2> QED  BY <2>1, <2>2 DEF Opt!Take
<1> QED  BY <1>1, <1>2, <1>3, <1>4

LEMMA OptionsStep ==
  ASSUME OptionsInv, [FsNext]_fsVars
  PROVE  OptionsInv'
<1> USE DEF OptionsInv
<1>1. CASE Opt!Take
  BY <1>1, TakeOK
<1>2. CASE Opt!Skip
  BY <1>2 DEF Opt!Skip, Opt!Helpers
<1>3. CASE Opt!NextArgument
  BY <1>3 DEF Opt!NextArgument, Opt!Parsed, Opt!Matches
<1>4. CASE Mount
  <2>1. settings' = [Opt!Defaults EXCEPT !.readonly = settings.readonly,
                                         !.noexec = settings.noexec]
    BY <1>4 DEF Mount
  <2>2. /\ DOMAIN settings' = DOMAIN settings
        /\ settings'.readonly = settings.readonly
        /\ settings'.noexec = settings.noexec
        /\ settings'.root = "/"
    BY <2>1 DEF Opt!Defaults
  <2> QED  BY <1>4, <2>2, RootStatsAssumption DEF Mount
<1>5. CASE Setup \/ Exit \/ UNCHANGED options
  BY <1>5 DEF Setup, Exit, options
<1> QED  BY <1>1, <1>2, <1>3, <1>4, <1>5, Frame DEF ParseArgs

(* setup() takes the write bits off, sets the type, and adds what           *)
(* --readonly=no asks for; the mount keeps that setting.                    *)
LEMMA SetupInit == FsInit => SetupInv
BY DEF FsInit, SetupInv, ZeroStat, StatType

LEMMA TemplatesOK ==
  ASSUME NEW st \in StatType
  PROVE  /\ StatD(st) \in StatType /\ StatR(st) \in StatType
         /\ StatD(st).mode \cap (Writable \cup S_IFMT) = S_IFDIR
         /\ StatR(st).mode \cap (Writable \cup Executable \cup S_IFMT) =
              S_IFREG \cup IF settings.readonly THEN {} ELSE S_IWUSR
<1> DEFINE d == ((st.mode \ Writable) \ S_IFMT) \cup S_IFDIR \cup S_IXUSR
           r == (((st.mode \ Writable) \ S_IFMT) \ Executable) \cup S_IFREG
                   \cup IF settings.readonly THEN {} ELSE S_IWUSR
<1>1. StatD(st) = [st EXCEPT !.mode = d] /\ StatR(st) = [st EXCEPT !.mode = r]
  BY DEF StatD, StatR
<1>2. d \in SUBSET ModeBits /\ d \cap (Writable \cup S_IFMT) = S_IFDIR
  BY DEF StatType, ModeBits, Writable, S_IFMT, S_IFDIR, S_IXUSR
<1>3. r \in SUBSET ModeBits
  BY DEF StatType, ModeBits, Writable, S_IFMT, Executable, S_IFREG, S_IWUSR
<1>4. r \cap (Writable \cup Executable \cup S_IFMT) =
        S_IFREG \cup IF settings.readonly THEN {} ELSE S_IWUSR
  BY DEF Writable, S_IFMT, Executable, S_IFREG, S_IWUSR
<1> HIDE DEF d, r
<1> QED  BY <1>1, <1>2, <1>3, <1>4 DEF StatType

LEMMA SetupStep ==
  ASSUME OptionsInv, SetupInv, [FsNext]_fsVars
  PROVE  SetupInv'
<1> USE DEF SetupInv
<1>1. CASE Setup
  <2> DEFINE found == RootStats[settings.root]
             st == IF found = {} THEN ZeroStat ELSE CHOOSE s \in found : TRUE
  <2>1. found \subseteq StatType
    BY RootStatsAssumption DEF OptionsInv
  <2>2. ZeroStat \in StatType
    BY DEF ZeroStat, StatType
  <2>3. st \in StatType
    BY <2>1, <2>2
  <2>4. /\ m_errno' \in {0, ENOENT} /\ stage' = "setup" /\ settings' = settings
        /\ m_root_stat' = StatD(st) /\ m_reguler_stat' = StatR(st)
    BY <1>1 DEF Setup, options
  <2> HIDE DEF st
  <2> QED  BY <2>3, <2>4, TemplatesOK
<1>2. CASE Mount
  <2>1. /\ stage = "setup" /\ stage' = "mounted" /\ UNCHANGED templates
        /\ settings' = [Opt!Defaults EXCEPT !.readonly = settings.readonly,
                                            !.noexec = settings.noexec]
    BY <1>2 DEF Mount
  <2>2. settings'.readonly = settings.readonly
    BY <2>1 DEF Opt!Defaults
  <2> QED  BY <2>1, <2>2 DEF templates
<1>3. CASE Exit
  BY <1>3 DEF Exit, options, templates
<1>4. CASE ParseArgs
  BY <1>4 DEF ParseArgs, mount, templates
<1>5. CASE UNCHANGED <<options, mount>>
  BY <1>5 DEF options, mount, templates
<1> QED  BY <1>1, <1>2, <1>3, <1>4, <1>5, Frame

(* Every object that init() mounts is at a path below .proc.               *)
LEMMA TreeInit == FsInit => TreeInv
BY DEF FsInit, Proc!Init, Proc!Empty, TreeInv

LEMMA MountsAreBelowProc ==
  ASSUME NEW i \in DOMAIN Proc!Mounts
  PROVE  /\ Proc!Mounts[i].class \in Classes
         /\ Proc!MountPath(Proc!Mounts[i]) # << >>
         /\ Proc!MountPath(Proc!Mounts[i])[1] = ".proc"
<1>1. i \in 1..10
  BY DEF Proc!Mounts
<1>2. i \in {1, 2, 3, 4, 5, 6, 7, 8, 9, 10}
  BY <1>1
<1>3. Proc!Mounts[i].class \in Classes
  BY <1>2 DEF Proc!Mounts, Proc!DirAt, Proc!FileAt, Classes
<1>4. CASE i = 1
  <2>1. Proc!Mounts[i].base = {} /\ Proc!Mounts[i].name = ".proc"
    BY <1>4 DEF Proc!Mounts, Proc!DirAt
  <2>2. Proc!MountPath(Proc!Mounts[i]) = <<".proc">>
    BY <2>1 DEF Proc!MountPath
  <2> QED  BY <1>3, <2>2
<1>5. CASE i # 1
  <2>1. \E b \in {1, 2, 5} : Proc!Mounts[i].base = {b}
    BY <1>2, <1>5 DEF Proc!Mounts, Proc!DirAt, Proc!FileAt
  <2>2. PICK b \in {1, 2, 5} : Proc!Mounts[i].base = {b}
    BY <2>1
  <2>3. (CHOOSE j \in Proc!Mounts[i].base : TRUE) = b
    BY <2>2
  <2>4. Proc!Mounts[b].path \in {<<".proc">>, <<".proc", "benchmark">>,
                                 <<".proc", "cache">>}
    BY DEF Proc!Mounts, Proc!DirAt, Proc!FileAt
  <2>5. Proc!MountPath(Proc!Mounts[i]) = Append(Proc!Mounts[b].path, Proc!Mounts[i].name)
    BY <2>2, <2>3 DEF Proc!MountPath
  <2>6. \A n : /\ Append(<<".proc">>, n) # << >>
               /\ Append(<<".proc">>, n)[1] = ".proc"
    OBVIOUS
  <2>7. \A m, n : /\ Append(<<".proc", m>>, n) # << >>
                  /\ Append(<<".proc", m>>, n)[1] = ".proc"
    OBVIOUS
  <2>8. CASE Proc!Mounts[b].path = <<".proc">>
    BY <1>3, <2>5, <2>6, <2>8, Zenon
  <2>9. CASE \E m : Proc!Mounts[b].path = <<".proc", m>>
    BY <1>3, <2>5, <2>7, <2>9, Zenon
  <2> QED  BY <2>4, <2>8, <2>9, Zenon
<1> QED  BY <1>3, <1>4, <1>5

LEMMA TreeStep ==
  ASSUME SetupInv, TreeInv, [FsNext]_fsVars
  PROVE  TreeInv'
<1> USE DEF TreeInv
<1>1. CASE Mount
  <2> DEFINE Here(p) == {i \in DOMAIN Proc!Mounts :
                           Proc!MountPath(Proc!Mounts[i]) = p}
             first(p) == CHOOSE i \in Here(p) : \A j \in Here(p) : i <= j
             places == {Proc!MountPath(m) : m \in Range(Proc!Mounts)}
  <2>1. m_procs' = [p \in places |-> Proc!Mounts[first(p)]] /\ stage' = "mounted"
    BY <1>1 DEF Mount, Proc!MountAll, Proc!Range, Range
  <2>2. ASSUME NEW p \in places
        PROVE  first(p) \in Here(p)
    <3>1. Here(p) # {} /\ Here(p) \subseteq Nat
      BY <2>2 DEF Range, Proc!Mounts
    <3>2. PICK i \in Here(p) : \A j \in Here(p) : <<j, i>> \notin OpToRel(<, Nat)
      BY <3>1, NatLessThanWellFounded, WFMin
    <3>3. \A j \in Here(p) : ~ (j < i)
      BY <3>1, <3>2, Zenon DEF OpToRel
    <3>4. \A j \in Here(p) : i <= j
      BY <3>1, <3>3
    <3> QED  BY <3>4
  <2>3. ASSUME NEW p \in DOMAIN m_procs'
        PROVE  p # << >> /\ p[1] = ".proc" /\ m_procs'[p].class \in Classes
    <3>1. p \in places /\ m_procs'[p] = Proc!Mounts[first(p)]
      BY <2>1
    <3>2. /\ first(p) \in DOMAIN Proc!Mounts
          /\ Proc!MountPath(Proc!Mounts[first(p)]) = p
      BY <2>2, <3>1
    <3> QED  BY <3>1, <3>2, MountsAreBelowProc
  <2> QED  BY <2>1, <2>3
<1>2. CASE UNCHANGED tree /\ (stage' = stage \/ stage # "mounted")
  BY <1>2 DEF tree
<1>3. ParseArgs \/ Setup \/ Exit \/ UNCHANGED mount =>
        UNCHANGED tree /\ (stage' = stage \/ stage # "mounted")
  BY DEF ParseArgs, Setup, Exit, mount
<1> QED  BY <1>1, <1>2, <1>3, Frame

(* A piece moves from what is to come to what has come.                    *)
LEMMA SplitRejoins ==
  ASSUME NEW S, NEW s \in Seq(S), NEW n \in 1..Len(s)
  PROVE  /\ SubSeq(s, 1, n) \in Seq(S) /\ SubSeq(s, n + 1, Len(s)) \in Seq(S)
         /\ \A m \in Seq(S) :
              (m \o SubSeq(s, 1, n)) \o SubSeq(s, n + 1, Len(s)) = m \o s
<1> DEFINE front == SubSeq(s, 1, n)
           back == SubSeq(s, n + 1, Len(s))
<1>1. front \in Seq(S) /\ Len(front) = n /\ \A i \in 1..n : front[i] = s[i]
  OBVIOUS
<1>2. /\ back \in Seq(S) /\ Len(back) = Len(s) - n
      /\ \A i \in 1..Len(s) - n : back[i] = s[n + i]
  OBVIOUS
<1> DEFINE whole == front \o back
<1> HIDE DEF front, back
<1>3. /\ whole \in Seq(S) /\ Len(whole) = Len(front) + Len(back)
      /\ \A i \in 1..Len(front) + Len(back) :
           whole[i] = IF i <= Len(front) THEN front[i] ELSE back[i - Len(front)]
  BY <1>1, <1>2, ConcatProperties, Zenon
<1> HIDE DEF whole
<1>4. Len(whole) = Len(s)
  BY <1>1, <1>2, <1>3
<1>5. ASSUME NEW i \in 1..Len(whole)
      PROVE  whole[i] = s[i]
  <2>1. whole[i] = IF i <= n THEN front[i] ELSE back[i - n]
    BY <1>1, <1>3, Zenon
  <2>2. ASSUME i <= n PROVE whole[i] = s[i]
    BY <1>1, <2>1, <2>2
  <2>3. ASSUME i > n PROVE whole[i] = s[i]
    <3>1. i - n \in 1..Len(s) - n /\ n + (i - n) = i
      BY <1>4, <2>3
    <3> QED  BY <1>2, <2>1, <2>3, <3>1
  <2> QED  BY <2>2, <2>3
<1>6. whole = s
  BY <1>3, <1>4, <1>5, SeqEqual, Zenon
<1>7. ASSUME NEW m \in Seq(S)
      PROVE  (m \o front) \o back = m \o whole
  <2>1. (m \o front) \o back = m \o (front \o back)
    <3>1. front \in Seq(S) /\ back \in Seq(S)
      BY <1>1, <1>2
    <3> QED  BY <3>1, ConcatAssociative
  <2>2. front \o back = whole
    BY DEF whole
  <2> QED  BY <2>1, <2>2
<1> QED  BY <1>1, <1>2, <1>6, <1>7 DEF front, back

LEMMA ListingInit == FsInit => ListingInv
BY DEF FsInit, List!Init, ListingInv

LEMMA ListingStep ==
  ASSUME ListingInv, [FsNext]_fsVars
  PROVE  ListingInv'
<1> USE DEF ListingInv
<1>0. step # "idle" => UNCHANGED stage
  BY Frame, Zenon DEF ParseArgs, Setup, Mount, Exit, mount
<1>1. ASSUME NEW h \in fh, ReaddirBegin(h)
      PROVE  ListingInv'
  BY <1>1 DEF ReaddirBegin, List!Begin, Idle, mount
<1>2. CASE List!Headers
  <2>1. PICK d \in Documents : document' = d /\ incoming' = d
    BY <1>2 DEF List!Headers
  <2>2. /\ step' = "body" /\ m_body = << >> /\ m_body' = << >>
        /\ stage' = "mounted"
    BY <1>0, <1>2 DEF List!Headers
  <2>3. d \in Seq(Range(d))
    BY DocumentsAssumption
  <2>4. << >> \o d = d /\ << >> \in Seq(Range(d))
    BY <2>3, ConcatEmptySeq, EmptySeq
  <2> QED  BY <2>1, <2>2, <2>3, <2>4
<1>3. ASSUME NEW n \in 1..Len(incoming), List!Piece(n)
      PROVE  ListingInv'
  <2> DEFINE S == Range(document)
             front == SubSeq(incoming, 1, n)
             back == SubSeq(incoming, n + 1, Len(incoming))
  <2>1. /\ step = "body" /\ m_body' = m_body \o front /\ incoming' = back
        /\ UNCHANGED <<step, answered, document>> /\ stage' = "mounted"
    BY <1>0, <1>3 DEF List!Piece
  <2>2. CASE answered = -18
    BY <2>1, <2>2
  <2>3. CASE answered # -18
    <3>1. /\ document \in Documents /\ m_body \in Seq(S) /\ incoming \in Seq(S)
          /\ document = m_body \o incoming
      BY <2>1, <2>3
    <3>2. /\ front \in Seq(S) /\ back \in Seq(S)
          /\ (m_body \o front) \o back = m_body \o incoming
      BY <3>1, SplitRejoins
    <3>3. Range(document)' = S
      BY <2>1
    <3> HIDE DEF S, front, back
    <3>4. m_body \o front \in Seq(S)
      BY <3>1, <3>2, ConcatProperties
    <3>5. /\ m_body' \in Seq(S) /\ incoming' \in Seq(S) /\ document' = m_body' \o incoming'
      BY <2>1, <3>1, <3>2, <3>4
    <3>6. document' \in Documents /\ step' = "body" /\ stage' = "mounted"
      BY <2>1, <3>1
    <3> QED  BY <3>3, <3>5, <3>6
  <2> QED  BY <2>2, <2>3
<1>4. CASE List!EndBody
  BY <1>0, <1>4 DEF List!EndBody
<1>5. CASE List!BreakBody
  BY <1>0, <1>5 DEF List!BreakBody
<1>6. CASE List!Reset
  BY <1>6 DEF List!Reset
<1>7. CASE UNCHANGED listing
  BY <1>0, <1>7 DEF listing
<1> QED
  BY <1>1, <1>2, <1>3, <1>4, <1>5, <1>6, <1>7, Frame
  DEF ReaddirTransfer, ReaddirFill

(* Only Lookup and Forget change what get_attr() finds.                    *)
LEMMA AttrInit == FsInit => AttrInv
BY DEF FsInit, AttrInv

LEMMA AttrStep ==
  ASSUME AttrInv, [FsNext]_fsVars
  PROVE  AttrInv'
<1> USE DEF AttrInv
<1>0. Host # Page
  BY DEF Host, Page
<1>1. CASE Lookup
  <2>1. PICK d \in Descriptions : \E us \in Stored(d) :
          /\ header' = d
          /\ m_attr' = [p \in {Host, Page} |-> IF p = Host THEN HostStat ELSE us]
    BY <1>1 DEF Lookup
  <2>2. PICK us \in Stored(d) :
          /\ header' = d
          /\ m_attr' = [p \in {Host, Page} |-> IF p = Host THEN HostStat ELSE us]
    BY <2>1
  <2>3. /\ DOMAIN m_attr' = {Host, Page} /\ m_attr'[Host] = HostStat /\ m_attr'[Page] = us
    BY <1>0, <2>2
  <2>4. Stored(header)' = Stored(d)
    BY <2>2 DEF Stored
  <2> QED  BY <2>2, <2>3, <2>4
<1>2. CASE Forget
  BY <1>0, <1>2 DEF Forget
<1>3. CASE UNCHANGED server
  BY <1>3 DEF server, Stored
<1> QED  BY <1>1, <1>2, <1>3, Frame

(* A handle is of a path that there is, and it comes after the mount and   *)
(* before another one.                                                     *)
LEMMA HandleInit == FsInit => HandleInv
BY DEF FsInit, HandleInv

LEMMA HandleStep ==
  ASSUME SetupInv, TreeInv, HandleInv, [FsNext]_fsVars
  PROVE  HandleInv'
<1> USE DEF HandleInv
<1>1. ASSUME NEW p \in Paths, Opendir(p) \/ Open(p)
      PROVE  HandleInv'
  <2>1. /\ fh = {} /\ stage = "mounted" /\ UNCHANGED <<m_procs, stage>>
        /\ \E kind \in {"dir", "file"} : \E r : Handle(p, kind, r)
    BY <1>1 DEF Opendir, Open, AtOnce, Idle, mount, tree
  <2>2. PICK kind \in {"dir", "file"} : \E r : Handle(p, kind, r)
    BY <2>1
  <2>3. fh' \subseteq {[path |-> p, proc |-> Proc!Found(p), kind |-> kind]}
    BY <2>1, <2>2 DEF Handle
  <2>4. Paths' = Paths
    BY <2>1 DEF Paths, ProcPaths, Nowhere
  <2> QED  BY <2>1, <2>3, <2>4
<1>2. ASSUME NEW h \in fh, Release(h)
      PROVE  HandleInv'
  BY <1>2 DEF Release
<1>3. CASE UNCHANGED fh /\ stage # "mounted"
  BY <1>3
<1>4. CASE UNCHANGED <<fh, mount>>
  BY <1>4 DEF mount, tree, Paths, ProcPaths
<1>5. ParseArgs \/ Setup \/ Mount \/ Exit => UNCHANGED fh /\ stage # "mounted"
  BY DEF ParseArgs, Setup, Mount, Exit
<1> QED  BY <1>1, <1>2, <1>3, <1>4, <1>5, Frame

(* What store() makes of a description is typed, and get_attr() finds one   *)
(* stat at most.                                                            *)
UrlStats == [mode : SUBSET ModeBits, length : Lengths, mtime : Int]

LEMMA StoredIsTyped ==
  ASSUME NEW d \in Descriptions
  PROVE  Stored(d) \subseteq UrlStats
<1>1. CASE d.form = "none"
  <2>1. d.length \in Lengths /\ S_IFREG \subseteq ModeBits /\ Now \in Int
    BY <1>1, DescriptionsAssumption DEF S_IFREG, ModeBits, Now
  <2>2. Stored(d) = {UrlStat(S_IFREG, d.length, Now)}
    BY <1>1 DEF Stored
  <2> QED  BY <2>1, <2>2 DEF UrlStat, UrlStats
<1>2. CASE d.form = "bad"
  <2>1. Stored(d) = {DefaultUrlStat}
    BY <1>2, Zenon DEF Stored
  <2>2. DefaultUrlStat \in UrlStats
    BY LeftoverAssumption
    DEF DefaultUrlStat, UrlStat, UrlStats, S_IFDIR, ModeBits
  <2> QED  BY <2>1, <2>2
<1>3. CASE d.form = "hash"
  <2>1. Stored(d) = {UrlStat(fs.mode, fs.size, fs.mtime) :
                       fs \in ParsedFileStats(d.val, Leftover)}
    BY <1>3, Zenon DEF Stored
  <2>2. ASSUME NEW left \in Leftover
        PROVE  /\ FromJson(left, d.val).mode \in SUBSET ModeBits
               /\ FromJson(left, d.val).size \in Lengths
               /\ FromJson(left, d.val).mtime \in Int
    <3>1. \A field \in DOMAIN d.val \cap DOMAIN FieldType :
            d.val[field] \in FieldType[field]
      BY <1>3, DescriptionsAssumption
    <3>2. left.mode \in SUBSET ModeBits /\ left.size \in Lengths /\ left.mtime \in Int
      BY LeftoverAssumption DEF FileStats
    <3>3. Has(d.val, "mode") => StrToMode(d.val.mode) \in SUBSET ModeBits
      <4> SUFFICES ASSUME Has(d.val, "mode")
                   PROVE  StrToMode(d.val.mode) \in SUBSET ModeBits
        OBVIOUS
      <4> DEFINE str == d.val.mode
      <4>1. str.perms \subseteq ModeBits
        <5>1. "mode" \in DOMAIN d.val \cap DOMAIN FieldType
          BY DEF Has, FieldType
        <5>2. d.val["mode"] \in FieldType["mode"]
          BY <3>1, <5>1
        <5>3. FieldType["mode"] =
                [letter : STRING, long : BOOLEAN, perms : SUBSET (0..8)]
          BY DEF FieldType
        <5>4. str.perms \in SUBSET (0..8)
          BY <5>2, <5>3
        <5> QED  BY <5>4 DEF ModeBits
      <4>2. str.letter \in DOMAIN FileType => FileType[str.letter] \subseteq ModeBits
        BY DEF FileType, ModeBits, S_IFDIR, S_IFCHR, S_IFBLK, S_IFIFO, S_IFLNK,
               S_IFSOCK, S_IFREG
      <4> HIDE DEF str
      <4> QED  BY <4>1, <4>2 DEF StrToMode, str
    <3>4. Has(d.val, "size") => d.val.size \in Lengths
      BY <3>1 DEF Has, FieldType
    <3>5. Has(d.val, "mtime") => TimeIso8601(d.val.mtime) \in Int
      <4> SUFFICES ASSUME Has(d.val, "mtime")
                   PROVE  TimeIso8601(d.val.mtime) \in Int
        OBVIOUS
      <4>1. d.val.mtime.wall \in Int /\ d.val.mtime.zone \in Int
        <5>1. "mtime" \in DOMAIN d.val \cap DOMAIN FieldType
          BY DEF Has, FieldType
        <5>2. d.val["mtime"] \in FieldType["mtime"]
          BY <3>1, <5>1
        <5>3. FieldType["mtime"] = [valid : BOOLEAN, wall : Int, zone : Int]
          BY DEF FieldType
        <5> QED  BY <5>2, <5>3
      <4> QED  BY <4>1, LocalZoneAssumption DEF TimeIso8601
    <3> QED  BY <3>2, <3>3, <3>4, <3>5, Zenon DEF FromJson
  <2> QED  BY <2>1, <2>2 DEF ParsedFileStats, UrlStat, UrlStats
<1> QED  BY <1>1, <1>2, <1>3, DescriptionsAssumption

LEMMA GetAttrIsTyped ==
  ASSUME AttrInv, NEW p
  PROVE  /\ GetAttr(p) \subseteq UrlStats
         /\ \A u, v \in GetAttr(p) : u = v
<1>1. HostStat \in UrlStats /\ DefaultUrlStat \in UrlStats
  BY LeftoverAssumption
  DEF HostStat, DefaultUrlStat, UrlStat, UrlStats, S_IFDIR, Readable, Executable,
      ModeBits
<1>2. \A q \in DOMAIN m_attr : m_attr[q] \in UrlStats
  BY <1>1, StoredIsTyped DEF AttrInv
<1> QED  BY <1>1, <1>2 DEF GetAttr

(* A read keeps the file that it has been opened for, and ends at or        *)
(* before the end that it took from the cache.                              *)
LEMMA ReadInit == FsInit => ReadInv
BY DEF FsInit, ReadInv

LEMMA ReadBeginOK ==
  ASSUME AttrInv, ReadInv, NEW h \in fh, ReadBegin(h)
  PROVE  ReadInv'
<1>1. PICK n \in Sizes, o \in Offsets : \E us \in GetAttr(h.path) :
        /\ phase' = "begin"
        /\ asked' = n /\ size' = n /\ offset' = o
        /\ length' = us.length /\ body' = us.length
  BY DEF ReadBegin
<1>2. PICK us \in GetAttr(h.path) :
        /\ phase' = "begin"
        /\ asked' = n /\ size' = n /\ offset' = o
        /\ length' = us.length /\ body' = us.length
  BY <1>1
<1>3. /\ status' = 0 /\ coming' = << >> /\ data' = << >> /\ ret' = 0
      /\ stage' = "mounted" /\ UNCHANGED <<fh, m_attr>>
  BY DEF ReadBegin, ReadInv, Idle, mount, server
<1>4. us.length \in Lengths
  BY GetAttrIsTyped DEF UrlStats
<1>5. IInv'
  <2>1. TypeOK'
    BY <1>2, <1>3, <1>4, RangeAssumption DEF TypeOK
  <2>2. Transfer' /\ ReadIsExact'
    BY <1>2, <1>3, RangeAssumption DEF Transfer, ReadIsExact
  <2> QED  BY <2>1, <2>2 DEF IInv
<1>6. h \in fh' /\ us \in GetAttr(h.path)' /\ us.length = length'
  BY <1>2, <1>3 DEF GetAttr
<1> QED  BY <1>2, <1>3, <1>5, <1>6 DEF ReadInv

LEMMA ReadTransferOK ==
  ASSUME ReadInv, ReadTransfer
  PROVE  ReadInv'
<1>1. phase # "idle" /\ phase' # "idle"
  BY DEF ReadTransfer, Clamp, Request, Break, Finish, Deliver, Return
<1>2. /\ IInv /\ stage = "mounted"
      /\ \E h \in fh : \E us \in GetAttr(h.path) : us.length = length
  BY <1>1 DEF ReadInv
<1>3. IInv'
  BY <1>2, InvariantStep DEF ReadTransfer, Next
<1>4. UNCHANGED <<fh, m_attr, stage, length, offset>>
  BY DEF ReadTransfer, Clamp, Request, Break, Finish, Deliver, Return, mount, server
<1>5. \E h \in fh' : \E us \in GetAttr(h.path)' : us.length = length'
  BY <1>2, <1>4 DEF GetAttr
<1>6. phase' = "done" => \/ ret' = -ENOENT
                         \/ ret' = 0 /\ offset >= length
                         \/ ret' > 0 /\ offset + ret' <= length
  <2>1. CASE Clamp
    BY <1>2, <2>1, Numbers DEF Clamp, Return, IInv, Transfer
  <2>2. CASE Request
    BY <2>2 DEF Request
  <2>3. CASE Break
    BY <2>3 DEF Break, Return, Result
  <2>4. CASE Finish
    <3>1. size > 0 /\ offset + size <= length
      BY <1>2, <2>4, Numbers DEF Finish, IInv, Transfer, Smaller
    <3>2. ret' = -ENOENT \/ ret' = size
      BY <2>4 DEF Finish, Return, Result
    <3> QED  BY <3>1, <3>2
  <2>5. ASSUME NEW n \in 1..Len(coming), Deliver(n), phase' = "done"
        PROVE  ret' = -ENOENT
    BY <2>5 DEF Deliver, Return, Result
  <2> QED  BY <2>1, <2>2, <2>3, <2>4, <2>5 DEF ReadTransfer
<1> QED  BY <1>1, <1>2, <1>3, <1>4, <1>5, <1>6 DEF ReadInv

LEMMA ReadStep ==
  ASSUME AttrInv, ReadInv, [FsNext]_fsVars
  PROVE  ReadInv'
<1>1. ASSUME NEW h \in fh, ReadBegin(h)
      PROVE  ReadInv'
  BY <1>1, ReadBeginOK
<1>2. CASE ReadTransfer
  BY <1>2, ReadTransferOK
<1>3. CASE ReadReturn
  BY <1>3 DEF ReadReturn, ReadInv
<1>4. CASE UNCHANGED vars /\ phase = "idle"
  BY <1>4 DEF ReadInv, vars
<1>5. CASE UNCHANGED vars /\ phase # "idle"
  <2>1. stage = "mounted"
    BY <1>5 DEF ReadInv
  <2>2. UNCHANGED stage
    BY <2>1, Frame DEF ParseArgs, Setup, Mount, Exit, mount
  <2>3. UNCHANGED m_attr
    BY <1>5, Frame DEF Lookup, Forget, Idle, server
  <2>4. UNCHANGED fh
    BY <1>5, Frame, Zenon DEF Opendir, Open, Release, AtOnce, Idle
  <2>5. IInv'
    BY <1>5, InvariantStep DEF ReadInv
  <2> QED  BY <1>5, <2>1, <2>2, <2>3, <2>4, <2>5 DEF ReadInv, vars, GetAttr
<1> QED  BY <1>1, <1>2, <1>3, <1>4, <1>5, Frame

(* Only readdir() answers with the FileStat of its entries, and it gives    *)
(* them the templates of setup().                                           *)
Rets == Nat \cup {-ENOENT, -EINVAL, -ENOTDIR, -ENOSYS}

LEMMA ReplyInit == FsInit => ReplyInv
BY DEF FsInit, NoReply, ReplyInv

LEMMA PlainReplyOK ==
  ASSUME NEW op, NEW r \in Rets, NEW es, Answered(op, r, es),
         \A e \in es : e.about = {}
  PROVE  ReplyInv'
BY DEF Answered, ReplyInv, Rets

LEMMA ReturnsAreTyped ==
  ASSUME SetupInv, NEW p
  PROVE  /\ GetattrRet(p) \in Rets /\ OpendirRet(p) \in Rets
         /\ OpenRet(p) \in Rets /\ TruncateRet(p) \in Rets
<1>1. GetattrRet(p) \in {m_errno, 0, -ENOENT}
  BY Zenon DEF GetattrRet
<1>2. GetattrRet(p) \in Rets
  BY <1>1 DEF SetupInv, Rets, ENOENT
<1> QED  BY <1>2, Zenon DEF OpendirRet, OpenRet, TruncateRet, Rets

LEMMA ReplyStep ==
  ASSUME SetupInv, ListingInv, ReadInv, ReplyInv, [FsNext]_fsVars
  PROVE  ReplyInv'
<1>1. CASE UNCHANGED reply
  <2> SUFFICES ASSUME NEW e \in reply.entries, NEW fs \in e.about
               PROVE  stage' = "mounted" /\ e.mode = ListedMode(fs)'
    BY <1>1 DEF ReplyInv
  <2>1. stage = "mounted" /\ e.mode = ListedMode(fs)
    BY DEF ReplyInv
  <2>2. UNCHANGED mount
    BY <2>1, Frame DEF ParseArgs, Setup, Mount, Exit
  <2> QED  BY <2>1, <2>2 DEF ListedMode, mount, templates
<1>2. ASSUME NEW p \in Paths, Getattr(p) \/ Truncate(p) \/ Opendir(p) \/ Open(p)
      PROVE  ReplyInv'
  <2>1. \E op : \E r \in Rets : Answered(op, r, {})
    BY <1>2, ReturnsAreTyped DEF Getattr, Truncate, Opendir, Open
  <2> QED  BY <2>1, PlainReplyOK
<1>3. ASSUME NEW h \in fh, Release(h) \/ ReadBenchmark(h) \/ ReadRefused(h)
      PROVE  ReplyInv'
  <2>1. \E op : \E r \in Rets : Answered(op, r, {})
    BY <1>3, RangeAssumption
    DEF Release, ReadBenchmark, ReadRefused, Rets, Proc!BenchmarkRead
  <2> QED  BY <2>1, PlainReplyOK
<1>4. ASSUME NEW h \in fh, ReaddirLocal(h)
      PROVE  ReplyInv'
  <2> DEFINE names == IF h.path = Root THEN {} ELSE Proc!ReaddirAt(h.path)
             es == Dots \cup {[name |-> n, mode |-> {}, about |-> {}] : n \in names}
  <2>1. Answered("readdir", 0, es)
    BY <1>4 DEF ReaddirLocal
  <2>2. \A e \in es : e.about = {}
    BY DEF Dots
  <2>3. 0 \in Rets
    BY DEF Rets
  <2> HIDE DEF es
  <2> QED  BY <2>1, <2>2, <2>3, PlainReplyOK
<1>5. ASSUME NEW h \in fh, ReaddirBegin(h) \/ ReadBegin(h)
      PROVE  ReplyInv'
  BY <1>5 DEF ReaddirBegin, ReadBegin, NoReply, ReplyInv
<1>6. CASE ReaddirFill
  <2> DEFINE es == Dots \cup IF List!Accepted
                             THEN {Listed(e) : e \in Range(List!Direntries(m_body))}
                             ELSE {}
  <2>1. /\ reply' = [op |-> "readdir", ret |-> 0, entries |-> es]
        /\ stage' = "mounted" /\ UNCHANGED templates
    BY <1>6, Zenon DEF ReaddirFill, Answered, List!Reset, ListingInv, mount
  <2>2. ASSUME NEW e \in es, NEW fs \in e.about
        PROVE  e.mode = ListedMode(fs)
    BY <2>2 DEF Dots, Listed
  <2>3. \A fs : ListedMode(fs)' = ListedMode(fs)
    BY <2>1 DEF ListedMode, templates
  <2> HIDE DEF es
  <2> QED  BY <2>1, <2>2, <2>3 DEF ReplyInv
<1>7. CASE ReadReturn
  <2>1. Answered("read", ret, {})
    BY <1>7 DEF ReadReturn
  <2>2. ret \in Rets
    BY <1>7 DEF ReadReturn, ReadInv, IInv, TypeOK, Rets
  <2> QED  BY <2>1, <2>2, PlainReplyOK
<1>8. ParseArgs \/ Setup \/ Mount \/ Exit \/ Exited \/ Lookup \/ Forget
        \/ ReaddirTransfer \/ ReadTransfer \/ UNCHANGED fsVars
        => UNCHANGED reply
  BY DEF ParseArgs, Setup, Mount, Exit, Exited, Lookup, Forget, ReaddirTransfer,
         ReadTransfer, fsVars
<1> QED
  BY <1>1, <1>2, <1>3, <1>4, <1>5, <1>6, <1>7, <1>8 DEF FsNext, Transfers

(* The parts together.                                                      *)
THEOREM FsInvariant == FsSpec => []FsInv
<1>1. FsInit => FsInv
  BY OptionsInit, SetupInit, TreeInit, ListingInit, AttrInit, HandleInit, ReadInit,
     ReplyInit DEF FsInv
<1>2. FsInv /\ [FsNext]_fsVars => FsInv'
  BY OptionsStep, SetupStep, TreeStep, ListingStep, AttrStep, HandleStep, ReadStep,
     ReplyStep DEF FsInv
<1> QED  BY <1>1, <1>2, PTL DEF FsSpec

-----------------------------------------------------------------------------
(* What follows from the invariant, one property of the program each.       *)

(* A mode with permissions keeps its type.                                  *)
LEMMA GivenType ==
  ASSUME NEW us, us.mode \ S_IFMT # {}
  PROVE  ShownType(us) = us.mode \cap S_IFMT
<1>1. ShownMode(us) =
        ((us.mode \ Writable) \cup IF settings.readonly THEN {} ELSE S_IWUSR)
          \ IF settings.noexec /\ IsReg(us.mode) THEN Executable ELSE {}
  BY DEF ShownMode
<1> QED  BY <1>1 DEF ShownType, Writable, S_IWUSR, Executable, S_IFMT

(* The mode that stat shows is one of the two templates, or the server's    *)
(* with fewer bits.                                                         *)
LEMMA ShownModes ==
  ASSUME SetupInv, stage # "options", NEW us
  PROVE  /\ ShownMode(us) \cap Writable \subseteq S_IWUSR
         /\ settings.readonly => ShownMode(us) \cap Writable = {}
         /\ ~ settings.readonly /\ ShownType(us) = S_IFREG =>
              S_IWUSR \subseteq ShownMode(us)
         /\ ShownType(us) = S_IFREG => ShownMode(us) \cap Executable =
              IF settings.noexec THEN {} ELSE us.mode \cap Executable
         /\ ShownType(us) = S_IFDIR => IsDir(us.mode)
         /\ ShownType(us) = S_IFREG => IsReg(us.mode) \/ ~ IsDir(us.mode)
<1> DEFINE shown == ShownMode(us)
<1>1. CASE us.mode \ S_IFMT = {} /\ IsDir(us.mode)
  <2>1. shown = m_root_stat.mode
    BY <1>1 DEF ShownMode, Template
  <2>2. shown \cap (Writable \cup S_IFMT) = S_IFDIR
    BY <2>1 DEF SetupInv
  <2> HIDE DEF shown
  <2>3. shown \cap Writable = {} /\ shown \cap S_IFMT = S_IFDIR
    BY <2>2 DEF Writable, S_IFMT, S_IFDIR
  <2>4. S_IFDIR # S_IFREG
    BY DEF S_IFDIR, S_IFREG
  <2> QED  BY <1>1, <2>3, <2>4 DEF ShownType, shown
<1>2. CASE us.mode \ S_IFMT = {} /\ ~ IsDir(us.mode)
  <2>1. shown = m_reguler_stat.mode
    BY <1>2 DEF ShownMode, Template
  <2>2. shown \cap (Writable \cup Executable \cup S_IFMT) =
          S_IFREG \cup IF settings.readonly THEN {} ELSE S_IWUSR
    BY <2>1 DEF SetupInv
  <2> HIDE DEF shown
  <2>3. /\ shown \cap Writable = IF settings.readonly THEN {} ELSE S_IWUSR
        /\ shown \cap Executable = {} /\ shown \cap S_IFMT = S_IFREG
    BY <2>2 DEF Writable, Executable, S_IFMT, S_IFREG, S_IWUSR
  <2>4. us.mode \cap Executable = {}
    BY <1>2 DEF S_IFMT, Executable
  <2>5. S_IFDIR # S_IFREG
    BY DEF S_IFDIR, S_IFREG
  <2> QED  BY <1>2, <2>3, <2>4, <2>5 DEF ShownType, shown
<1>3. CASE us.mode \ S_IFMT # {}
  <2>1. shown = ((us.mode \ Writable) \cup IF settings.readonly THEN {} ELSE S_IWUSR)
                  \ IF settings.noexec /\ IsReg(us.mode) THEN Executable ELSE {}
    BY <1>3 DEF ShownMode
  <2> HIDE DEF shown
  <2>2. /\ shown \cap Writable \subseteq S_IWUSR
        /\ settings.readonly => shown \cap Writable = {}
    BY <2>1 DEF Writable, S_IWUSR
  <2>3. ~ settings.readonly => S_IWUSR \subseteq shown
    BY <2>1 DEF S_IWUSR, Executable
  <2>4. shown \cap S_IFMT = us.mode \cap S_IFMT
    BY <1>3, GivenType DEF ShownType, shown
  <2>5. IsReg(us.mode) => shown \cap Executable =
          IF settings.noexec THEN {} ELSE us.mode \cap Executable
    BY <2>1 DEF Writable, S_IWUSR, Executable
  <2>6. /\ us.mode \cap S_IFMT = S_IFDIR => IsDir(us.mode)
        /\ us.mode \cap S_IFMT = S_IFREG => IsReg(us.mode)
    BY DEF IsDir, IsReg, S_IFMT, S_IFDIR, S_IFREG
  <2> QED  BY <2>2, <2>3, <2>4, <2>5, <2>6 DEF ShownType, shown
<1> QED  BY <1>1, <1>2, <1>3

(* No header, and no byte left uninitialised, makes a path of a server      *)
(* writable that --readonly protects (autohttpfs.cpp:156-158).              *)
THEOREM ReadOnlyMountAlways == FsSpec => []ReadOnlyMount
<1>1. FsInv => ReadOnlyMount
  <2> SUFFICES ASSUME FsInv, stage = "mounted", NEW us \in Held
               PROVE  /\ ShownMode(us) \cap Writable \subseteq S_IWUSR
                      /\ settings.readonly => ShownMode(us) \cap Writable = {}
                      /\ ~ settings.readonly /\ ShownType(us) = S_IFREG =>
                           S_IWUSR \subseteq ShownMode(us)
    BY DEF ReadOnlyMount
  <2> QED  BY ShownModes DEF FsInv
<1> QED  BY <1>1, FsInvariant, PTL

(* ... or executable that --noexec protects (autohttpfs.cpp:159).           *)
THEOREM NoExecMountAlways == FsSpec => []NoExecMount
<1>1. FsInv => NoExecMount
  <2> SUFFICES ASSUME FsInv, stage = "mounted", NEW us \in Held,
                      ShownType(us) = S_IFREG
               PROVE  ShownMode(us) \cap Executable =
                        IF settings.noexec THEN {} ELSE us.mode \cap Executable
    BY DEF NoExecMount
  <2> QED  BY ShownModes DEF FsInv
<1> QED  BY <1>1, FsInvariant, PTL

(* What stat shows as a directory opens as one, and what it shows as a      *)
(* file opens (autohttpfs.cpp:151-160, 185-192, 287-294).                   *)
THEOREM ShownKindAlwaysOpens == FsSpec => []ShownKindOpens
<1>1. FsInv => ShownKindOpens
  <2> SUFFICES ASSUME FsInv, NEW p \in Paths,
                      NEW mode \in IF Proc!Found(p) THEN {Proc!Mode(p)}
                                   ELSE {ShownMode(us) : us \in
                                           {u \in GetAttr(p) :
                                              IsDir(u.mode) \/ IsReg(u.mode)}}
               PROVE  /\ mode \cap S_IFMT = S_IFDIR => OpendirRet(p) = 0
                      /\ mode \cap S_IFMT = S_IFREG => OpenRet(p) = 0
    BY DEF ShownKindOpens
  <2>1. CASE Proc!Found(p)
    <3>1. mode = Proc!Mode(p) /\ m_procs[p].class \in Classes
      BY <2>1 DEF FsInv, TreeInv, Proc!Found
    <3>2. CASE m_procs[p].class = "Dir"
      <4>1. mode = Proc!DirMode /\ Proc!OpendirAt(p) = 0
        BY <2>1, <3>1, <3>2, Zenon DEF Proc!Mode, Proc!IsA, Proc!OpendirAt
      <4>2. Proc!DirMode \cap S_IFMT # S_IFREG
        BY DEF Proc!DirMode, Proc!S_IFDIR, Proc!Readable, Proc!Executable, S_IFMT,
               S_IFREG
      <4> QED  BY <4>1, <4>2 DEF OpendirRet
    <3>3. CASE m_procs[p].class # "Dir"
      <4>1. /\ mode \in {Proc!StringStreamMode, Proc!StringStreamIOMode,
                         Proc!BenchmarkMode}
            /\ Proc!OpenAt(p) = 0
        BY <2>1, <3>1, <3>3, Zenon DEF Proc!Mode, Proc!IsA, Proc!OpenAt, Classes
      <4>2. mode \cap S_IFMT # S_IFDIR
        BY <4>1 DEF Proc!StringStreamMode, Proc!StringStreamIOMode,
               Proc!BenchmarkMode, Proc!S_IFREG, Proc!Readable, Proc!S_IWUSR,
               S_IFMT, S_IFDIR
      <4> QED  BY <4>1, <4>2 DEF OpenRet
    <3> QED  BY <3>2, <3>3
  <2>2. CASE ~ Proc!Found(p)
    <3>1. PICK us \in GetAttr(p) :
            (IsDir(us.mode) \/ IsReg(us.mode)) /\ mode = ShownMode(us)
      BY <2>2
    <3>2. CASE stage = "options"
      <4>1. m_root_stat.mode = {} /\ m_reguler_stat.mode = {}
        BY <3>2 DEF FsInv, SetupInv, ZeroStat
      <4>2. CASE us.mode \ S_IFMT = {}
        <5>1. mode = {}
          BY <3>1, <4>1, <4>2 DEF ShownMode, Template
        <5> QED  BY <5>1 DEF S_IFDIR, S_IFREG
      <4>3. CASE us.mode \ S_IFMT # {}
        <5>1. mode \cap S_IFMT = us.mode \cap S_IFMT
          BY <3>1, <4>3, GivenType DEF ShownType
        <5>2. /\ mode \cap S_IFMT = S_IFDIR => IsDir(us.mode)
              /\ mode \cap S_IFMT = S_IFREG => IsReg(us.mode)
          BY <5>1 DEF IsDir, IsReg, S_IFDIR, S_IFREG, S_IFMT
        <5> QED  BY <3>1, <5>2 DEF OpendirRet, OpenRet
      <4> QED  BY <4>2, <4>3
    <3>3. CASE stage # "options"
      <4>1. /\ mode \cap S_IFMT = S_IFDIR => IsDir(us.mode)
            /\ mode \cap S_IFMT = S_IFREG => IsReg(us.mode)
        BY <3>1, <3>3, ShownModes DEF FsInv, ShownType
      <4> QED  BY <3>1, <4>1 DEF OpendirRet, OpenRet
    <3> QED  BY <3>2, <3>3
  <2> QED  BY <2>1, <2>2
<1> QED  BY <1>1, FsInvariant, PTL

(* If a listing and the headers agree on an entry, it is listed as a        *)
(* directory exactly if it opens as one (autohttpfs.cpp:185, 230).          *)
THEOREM ListedDirAlwaysOpens == FsSpec => []ListedDirOpens
<1>1. FsInv => ListedDirOpens
  <2> SUFFICES ASSUME FsInv, NEW e \in reply.entries, NEW fs \in e.about,
                      fs.mode = UNION {us.mode : us \in GetAttr(Page)}
               PROVE  e.mode \cap S_IFMT = S_IFDIR <=> OpendirRet(Page) = 0
    BY DEF ListedDirOpens
  <2>1. stage = "mounted" /\ e.mode = ListedMode(fs)
    BY DEF FsInv, ReplyInv
  <2>2. ~ Proc!Found(Page)
    BY DEF FsInv, TreeInv, Proc!Found, Page
  <2>3. Proc!OpendirAt(Page) # 0
    <3>1. Proc!OpendirAt(Page) = -Proc!ENOENT
      BY <2>2, Zenon DEF Proc!OpendirAt
    <3> QED  BY <3>1 DEF Proc!ENOENT
  <2>4. OpendirRet(Page) = 0 <=> \E us \in GetAttr(Page) : IsDir(us.mode)
    BY <2>3 DEF OpendirRet, ENOTDIR, ENOENT
  <2>5. IsDir(fs.mode) <=> \E us \in GetAttr(Page) : IsDir(us.mode)
    BY DEF IsDir, S_IFDIR
  <2>6. CASE IsDir(fs.mode)
    <3>1. e.mode \cap (Writable \cup S_IFMT) = S_IFDIR
      BY <2>1, <2>6 DEF ListedMode, FsInv, SetupInv
    <3>2. e.mode \cap S_IFMT = S_IFDIR
      BY <3>1 DEF Writable, S_IFMT, S_IFDIR
    <3> QED  BY <2>4, <2>5, <2>6, <3>2
  <2>7. CASE ~ IsDir(fs.mode)
    <3>1. m_reguler_stat.mode \cap (Writable \cup Executable \cup S_IFMT) =
            S_IFREG \cup IF settings.readonly THEN {} ELSE S_IWUSR
      BY <2>1 DEF FsInv, SetupInv
    <3>2. m_reguler_stat.mode \subseteq e.mode
      BY <2>1, <2>7 DEF ListedMode
    <3>3. 15 \in e.mode \cap S_IFMT
      BY <3>1, <3>2 DEF S_IFREG, S_IFMT
    <3>4. e.mode \cap S_IFMT # S_IFDIR
      BY <3>3 DEF S_IFDIR
    <3> QED  BY <2>4, <2>5, <2>7, <3>4
  <2> QED  BY <2>6, <2>7
<1> QED  BY <1>1, FsInvariant, PTL

(* A body that breaks off, noticed or not, is not taken for a listing       *)
(* (autohttpfs.cpp:218-227, dirent.cpp:25-60).                              *)
THEOREM ListingsAreWhole == FsSpec => []ListingIsWhole
<1>1. FsInv => ListingIsWhole
  <2> SUFFICES ASSUME FsInv, step = "answered", List!Accepted
               PROVE  m_body = document
    BY DEF ListingIsWhole
  <2>1. /\ document \in Documents
        /\ m_body \in Seq(Range(document)) /\ incoming \in Seq(Range(document))
        /\ document = m_body \o incoming
    BY DEF FsInv, ListingInv, List!Accepted
  <2>2. m_body # << >> /\ m_body[Len(m_body)].token = "end"
    BY DEF List!Accepted, List!IsParsed, List!Last
  <2> DEFINE S == Range(document)
             n == Len(m_body)
  <2>3. n \in 1..Len(m_body)
    BY <2>1, <2>2
  <2> HIDE DEF S
  <2>4. /\ Len(document) = n + Len(incoming) /\ document[n] = m_body[n]
        /\ n \in DOMAIN document
    <3>1. /\ Len(m_body \o incoming) = Len(m_body) + Len(incoming)
          /\ \A i \in 1..Len(m_body) + Len(incoming) : (m_body \o incoming)[i] =
               IF i <= Len(m_body) THEN m_body[i] ELSE incoming[i - Len(m_body)]
          /\ m_body \o incoming \in Seq(S)
      BY <2>1, ConcatProperties, Zenon DEF S
    <3>2. Len(m_body) \in Nat /\ Len(incoming) \in Nat
      BY <2>1
    <3> QED  BY <2>1, <2>3, <3>1, <3>2
  <2>5. n = Len(document)
    BY <2>1, <2>2, <2>4, DocumentsAssumption
  <2>6. Len(incoming) = 0
    BY <2>1, <2>4, <2>5
  <2>7. incoming = << >>
    BY <2>1, <2>6, EmptySeq
  <2> QED  BY <2>1, <2>7, ConcatEmptySeq
<1> QED  BY <1>1, FsInvariant, PTL

(* A read that returns nothing starts at or behind the end that stat shows, *)
(* and no read passes it (autohttpfs.cpp:161-163, 316-320).                 *)
THEOREM EndOfFileAlwaysAgrees == FsSpec => []EndOfFileAgrees
<1>1. FsInv => EndOfFileAgrees
  <2> SUFFICES ASSUME FsInv, phase = "done", ret >= 0, length # 0,
                      NEW h \in fh, NEW us \in GetAttr(h.path)
               PROVE  IF ret = 0 THEN offset >= ShownSize(us)
                                 ELSE offset + ret <= ShownSize(us)
    BY DEF EndOfFileAgrees
  <2>1. /\ \E g \in fh : \E u \in GetAttr(g.path) : u.length = length
        /\ \/ ret = -ENOENT
           \/ ret = 0 /\ offset >= length
           \/ ret > 0 /\ offset + ret <= length
    BY DEF FsInv, ReadInv
  <2>2. us.length = length
    BY <2>1, GetAttrIsTyped DEF FsInv, HandleInv
  <2>3. ShownSize(us) = length
    BY <2>2 DEF ShownSize
  <2> QED  BY <2>1, <2>3 DEF ENOENT
<1> QED  BY <1>1, FsInvariant, PTL

(* A date is shown as the time it names, in whatever zone it was written    *)
(* and read (time_iso8601.cpp:43-57).                                       *)
THEOREM ShownTimeIsAlwaysNamed == FsSpec => []ShownTimeIsNamed
<1>1. FsInv => ShownTimeIsNamed
  <2> SUFFICES ASSUME FsInv, NEW us \in GetAttr(Page), header.form = "hash",
                      Has(header.val, "mtime"), header.val.mtime.valid,
                      header.val.mtime.zone = LocalZone,
                      header.val.mtime.wall # header.val.mtime.zone
               PROVE  ShownTime(us) = header.val.mtime.wall - header.val.mtime.zone
    BY DEF ShownTimeIsNamed
  <2> DEFINE t == header.val.mtime
  <2>1. header \in Descriptions /\ us \in Stored(header)
    BY DEF FsInv, AttrInv, GetAttr, Page, Root, Dotted
  <2>2. PICK fs \in ParsedFileStats(header.val, Leftover) :
          us = UrlStat(fs.mode, fs.size, fs.mtime)
    BY <2>1, Zenon DEF Stored
  <2>3. us.mtime = TimeIso8601(t)
    BY <2>2 DEF ParsedFileStats, FromJson, UrlStat
  <2>4. t.wall \in Int /\ t.zone \in Int
    <3>1. "mtime" \in DOMAIN header.val \cap DOMAIN FieldType
      BY DEF Has, FieldType
    <3>2. header.val["mtime"] \in FieldType["mtime"]
      BY <2>1, <3>1, DescriptionsAssumption
    <3>3. FieldType["mtime"] = [valid : BOOLEAN, wall : Int, zone : Int]
      BY DEF FieldType
    <3> QED  BY <3>2, <3>3
  <2> HIDE DEF t
  <2>5. TimeIso8601(t) = t.wall - t.zone
    BY <2>4, LocalZoneAssumption DEF TimeIso8601, t
  <2> QED  BY <2>3, <2>4, <2>5 DEF ShownTime, t
<1> QED  BY <1>1, FsInvariant, PTL

(* The reads of ReadFile, one after the other, keep its promises            *)
(* (curlaccessor.cpp:148-156).                                              *)
THEOREM EveryReadIsSafe == FsSpec => [](StaysInBuffer /\ ReadIsExact)
<1>1. FsInv => StaysInBuffer /\ ReadIsExact
  <2> SUFFICES ASSUME FsInv PROVE StaysInBuffer /\ ReadIsExact
    OBVIOUS
  <2>1. CASE phase = "idle"
    BY <2>1 DEF FsInv, ReadInv, StaysInBuffer, ReadIsExact
  <2>2. CASE phase # "idle"
    BY <2>2 DEF FsInv, ReadInv, IInv, Transfer, StaysInBuffer
  <2> QED  BY <2>1, <2>2
<1> QED  BY <1>1, FsInvariant, PTL

(* The types of the program's state.                                        *)
THEOREM FsTypeCorrect == FsSpec => []FsTypeOK
<1>1. FsInv => FsTypeOK
  <2> SUFFICES ASSUME FsInv PROVE FsTypeOK
    OBVIOUS
  <2>1. /\ it \in 0..Len(argv) + 1 /\ helper \in 1..Len(Opt!Helpers) + 1
        /\ DOMAIN settings = DOMAIN Opt!Defaults /\ help \in BOOLEAN
    BY DEF FsInv, OptionsInv, Opt!Helpers, Opt!Defaults
  <2>2. phase \in {"idle", "begin", "request", "body", "done"}
    BY DEF FsInv, ReadInv, IInv, TypeOK
  <2>3. ASSUME NEW p \in DOMAIN m_attr
        PROVE  m_attr[p] \in UrlStats
    <3>1. p = Host \/ p = Page
      BY DEF FsInv, AttrInv
    <3>2. GetAttr(p) = {m_attr[p]}
      BY <3>1 DEF GetAttr, Root, Dotted, Host, Page
    <3> QED  BY <3>2, GetAttrIsTyped DEF FsInv
  <2> QED
    BY <2>1, <2>2, <2>3
    DEF FsInv, SetupInv, ListingInv, HandleInv, ReplyInv, FsTypeOK, UrlStats
<1> QED  BY <1>1, FsInvariant, PTL

-----------------------------------------------------------------------------
(* The options are taken out of the command line whole.                    *)

(* The place in the command line that parse_args looks at: it moves on     *)
(* when argv gets shorter.                                                 *)
Place == it + (Len(given) - Len(argv))

(* The last valid use of an option among the first n arguments.            *)
LastBefore(key, n) ==
  LET uses == {i \in 1..n : given[i].key = key /\ Opt!IsValid(given[i])}
  IN  IF uses = {} THEN Opt!Defaults[key]
      ELSE Opt!Value(given[CHOOSE i \in uses : \A j \in uses : j <= i])

(* Of the first n arguments the options have been taken, and the others    *)
(* are the first in argv; what comes after them is as it was given.        *)
Through(n) ==
  /\ n \in 0..Len(given)
  /\ Opt!Rank(n) = n - (Len(given) - Len(argv))
  /\ \A i \in Opt!Kept : i <= n => argv[Opt!Rank(i)] = given[i]
  /\ \A k \in 1..Opt!Rank(n) : \E i \in Opt!Kept : i <= n /\ argv[k] = given[i]
  /\ \A k \in Opt!Rank(n) + 1 .. Len(argv) :
       argv[k] = given[k + (Len(given) - Len(argv))]
  /\ \A key \in Range(Opt!Helpers) : settings[key] = LastBefore(key, n)
  /\ help <=> \E i \in 1..n : given[i].key = "help"

(* No helper before the present one knows the argument, or the argument    *)
(* has gone and the helpers look at the one before it.                     *)
Fresh ==
  /\ Through(Place - 1)
  /\ it <= Len(argv) => \A h \in 1..helper - 1 : argv[it].key # Opt!Helpers[h]
Taken == it <= Len(argv) /\ Through(Place)

ParseInv == stage = "options" => given \in Seq(Arguments) /\ (Fresh \/ Taken)

(* The ranks of the arguments that are kept are 1, 2, ... in their order.   *)
LEMMA Ranks ==
  ASSUME given \in Seq(Arguments)
  PROVE  /\ \A n \in Nat : Opt!Rank(n) \in Nat
         /\ Opt!Rank(0) = 0
         /\ \A n \in Nat : Opt!Rank(n + 1) =
              IF n + 1 \in Opt!Kept THEN Opt!Rank(n) + 1 ELSE Opt!Rank(n)
         /\ \A n \in Nat : \A i \in Opt!Kept :
              i <= n => Opt!Rank(i) \in 1..Opt!Rank(n)
         /\ Opt!Rank(Len(given)) = Cardinality(Opt!Kept)
<1> DEFINE upto(n) == {j \in Opt!Kept : j <= n}
<1>1. \A k \in Opt!Kept : k \in Nat /\ k # 0 /\ k <= Len(given)
  BY DEF Opt!Kept
<1>2. \A n : IsFiniteSet(upto(n))
  <2>1. IsFiniteSet(1..Len(given))
    BY FS_Interval
  <2>2. \A n : upto(n) \subseteq 1..Len(given)
    BY <1>1
  <2> QED  BY <2>1, <2>2, FS_Subset
<1>3. \A n : Opt!Rank(n) = Cardinality(upto(n))
  BY Zenon DEF Opt!Rank, Opt!Cardinality, Cardinality, Opt!IsFiniteSet, IsFiniteSet
<1> HIDE DEF upto
<1>4. \A n \in Nat : Opt!Rank(n) \in Nat
  BY <1>2, <1>3, FS_CardinalityType
<1>5. Opt!Rank(0) = 0
  <2>1. upto(0) = {}
    BY <1>1 DEF upto
  <2> QED  BY <1>3, <2>1, FS_EmptySet
<1>6. ASSUME NEW n \in Nat
      PROVE  Opt!Rank(n + 1) =
               IF n + 1 \in Opt!Kept THEN Opt!Rank(n) + 1 ELSE Opt!Rank(n)
  <2>1. CASE n + 1 \in Opt!Kept
    <3>1. upto(n + 1) = upto(n) \cup {n + 1} /\ n + 1 \notin upto(n)
      BY <1>1, <2>1 DEF upto
    <3> QED  BY <1>2, <1>3, <2>1, <3>1, FS_AddElement
  <2>2. CASE n + 1 \notin Opt!Kept
    <3>1. upto(n + 1) = upto(n)
      BY <1>1, <2>2 DEF upto
    <3> QED  BY <1>3, <2>2, <3>1
  <2> QED  BY <2>1, <2>2
<1>7. ASSUME NEW n \in Nat, NEW i \in Opt!Kept, i <= n
      PROVE  Opt!Rank(i) \in 1..Opt!Rank(n)
  <2>1. i \in upto(i) /\ upto(i) \subseteq upto(n) /\ i \in Nat
    BY <1>1, <1>7 DEF upto
  <2>2. Cardinality(upto(i)) <= Cardinality(upto(n))
    BY <1>2, <2>1, FS_Subset
  <2>3. Cardinality(upto(i)) # 0
    BY <1>2, <2>1, FS_EmptySet
  <2> QED  BY <1>3, <1>4, <2>1, <2>2, <2>3
<1>8. Opt!Rank(Len(given)) = Cardinality(Opt!Kept)
  <2>1. upto(Len(given)) = Opt!Kept
    BY <1>1 DEF upto
  <2> QED  BY <1>3, <2>1
<1> QED  BY <1>4, <1>5, <1>6, <1>7, <1>8

(* A valid use is the last one until there is another.                      *)
LEMMA LastOne ==
  ASSUME NEW n \in Nat, NEW key
  PROVE  LastBefore(key, n + 1) =
           IF given[n + 1].key = key /\ Opt!IsValid(given[n + 1])
           THEN Opt!Value(given[n + 1]) ELSE LastBefore(key, n)
<1> DEFINE uses(m) == {i \in 1..m : given[i].key = key /\ Opt!IsValid(given[i])}
           last(m) == CHOOSE i \in uses(m) : \A j \in uses(m) : j <= i
<1>1. \A m : LastBefore(key, m) =
               IF uses(m) = {} THEN Opt!Defaults[key] ELSE Opt!Value(given[last(m)])
  BY DEF LastBefore
<1>2. CASE given[n + 1].key = key /\ Opt!IsValid(given[n + 1])
  <2>1. n + 1 \in uses(n + 1) /\ \A j \in uses(n + 1) : j <= n + 1
    BY <1>2
  <2>2. last(n + 1) \in uses(n + 1) /\ \A j \in uses(n + 1) : j <= last(n + 1)
    BY <2>1
  <2>3. last(n + 1) = n + 1
    BY <2>1, <2>2
  <2> QED  BY <1>1, <1>2, <2>1, <2>3
<1>3. CASE ~ (given[n + 1].key = key /\ Opt!IsValid(given[n + 1]))
  <2>1. uses(n + 1) = uses(n)
    BY <1>3
  <2> QED  BY <1>1, <1>3, <2>1
<1> QED  BY <1>2, <1>3

(* While the command line stays, so does what is said of it.                *)
LEMMA GivenStays ==
  ASSUME given' = given
  PROVE  /\ Opt!Kept' = Opt!Kept
         /\ \A i : Opt!Rank(i)' = Opt!Rank(i)
         /\ \A key, n : LastBefore(key, n)' = LastBefore(key, n)
<1>1. Opt!Kept' = Opt!Kept
  BY DEF Opt!Kept
<1>2. \A i : Opt!Rank(i)' = Opt!Rank(i)
  BY <1>1 DEF Opt!Rank
<1>3. \A key, n : LastBefore(key, n)' = LastBefore(key, n)
  BY DEF LastBefore
<1> QED  BY <1>1, <1>2, <1>3

(* Through, after a step that leaves the command line.                      *)
LEMMA ThroughAfter ==
  ASSUME given' = given, NEW m,
         m \in 0..Len(given),
         Opt!Rank(m) = m - (Len(given) - Len(argv')),
         \A i \in Opt!Kept : i <= m => argv'[Opt!Rank(i)] = given[i],
         \A k \in 1..Opt!Rank(m) : \E i \in Opt!Kept : i <= m /\ argv'[k] = given[i],
         \A k \in Opt!Rank(m) + 1 .. Len(argv') :
           argv'[k] = given[k + (Len(given) - Len(argv'))],
         \A key \in Range(Opt!Helpers) : settings'[key] = LastBefore(key, m),
         help' <=> \E i \in 1..m : given[i].key = "help"
  PROVE  Through(m)'
<1>1. /\ Opt!Kept' = Opt!Kept /\ \A i : Opt!Rank(i)' = Opt!Rank(i)
      /\ \A key, n : LastBefore(key, n)' = LastBefore(key, n)
  BY GivenStays
<1> QED  BY <1>1 DEF Through

(* The next argument, and whether it is kept.                               *)
LEMMA Looking ==
  ASSUME OptionsInv, ParseInv, stage = "options", ~ Opt!Parsed
  PROVE  /\ given \in Seq(Arguments) /\ Len(given) - Len(argv) \in Int
         /\ Fresh => /\ it \in 1..Len(argv) /\ Place - 1 \in Nat
                     /\ Place \in 1..Len(given) /\ argv[it] = given[Place]
                     /\ it = Opt!Rank(Place - 1) + 1
         /\ Taken /\ it >= 1 =>
              \E i \in Opt!Kept : i <= Place /\ argv[it] = given[i]
<1>1. /\ given \in Seq(Arguments) /\ argv \in Seq(Arguments)
      /\ it \in 0..Len(argv)
  BY DEF ParseInv, OptionsInv, Opt!Parsed
<1>2. ASSUME Fresh
      PROVE  /\ it \in 1..Len(argv) /\ Place - 1 \in Nat
             /\ Place \in 1..Len(given) /\ argv[it] = given[Place]
             /\ it = Opt!Rank(Place - 1) + 1
  <2>1. Place - 1 \in 0..Len(given) /\ Opt!Rank(Place - 1) = it - 1
    BY <1>1, <1>2 DEF Fresh, Through, Place
  <2>2. it - 1 \in Nat
    BY <1>1, <2>1, Ranks
  <2>3. argv[it] = given[Place]
    BY <1>1, <1>2, <2>1, <2>2 DEF Fresh, Through, Place
  <2>4. Place <= Len(given)
    BY <1>1 DEF Place
  <2> QED  BY <1>1, <2>1, <2>2, <2>3, <2>4 DEF Place
<1>3. ASSUME Taken, it >= 1
      PROVE  \E i \in Opt!Kept : i <= Place /\ argv[it] = given[i]
  <2>1. it \in 1..Opt!Rank(Place)
    BY <1>1, <1>3 DEF Taken, Through, Place
  <2> QED  BY <1>3, <2>1 DEF Taken, Through
<1> QED  BY <1>1, <1>2, <1>3

(* A helper finds its option in the argument that is new, and takes it.     *)
LEMMA TakePlace ==
  ASSUME OptionsInv, ParseInv, stage = "options", Opt!Take
  PROVE  Taken'
<1> DEFINE lag == Len(given) - Len(argv)
<1>n. PICK n : n = Place - 1
  OBVIOUS
<1>1. /\ ~ Opt!Parsed /\ helper \in 1..5 /\ it >= 1
      /\ argv[it].key = Opt!Helpers[helper] /\ given' = given /\ help' = help
      /\ argv' = RemoveAt(argv, it) /\ it' = it - 1
  BY DEF Opt!Take, Opt!Matches, Opt!Shift, OptionsInv, Opt!Helpers, Opt!RemoveAt,
         RemoveAt
<1>2. argv[it].key \in Range(Opt!Helpers) /\ Opt!IsOption(argv[it])
  BY <1>1 DEF Opt!Helpers, Range, Opt!IsOption, Opt!Range
<1>3. ~ Taken
  BY <1>1, <1>2, Looking DEF Opt!Kept
<1>4. /\ Fresh /\ it \in 1..Len(argv) /\ n \in Nat /\ n + 1 \in 1..Len(given)
      /\ argv[it] = given[n + 1] /\ it = Opt!Rank(n) + 1 /\ it = n + 1 - lag
      /\ given \in Seq(Arguments) /\ argv \in Seq(Arguments) /\ lag \in Int
  <2>1. Fresh /\ given \in Seq(Arguments) /\ argv \in Seq(Arguments)
    BY <1>3 DEF ParseInv, OptionsInv
  <2>2. /\ it \in 1..Len(argv) /\ Place - 1 \in Nat /\ Place \in 1..Len(given)
        /\ argv[it] = given[Place] /\ it = Opt!Rank(Place - 1) + 1
    BY <1>1, <2>1, Looking
  <2>3. Place = n + 1 /\ Place = it + lag /\ lag \in Int
    BY <1>n, <2>1, <2>2 DEF Place
  <2> QED  BY <1>n, <2>1, <2>2, <2>3
<1>5. Through(n)
  BY <1>n, <1>4 DEF Fresh, Through
<1>6. /\ given' = given /\ it' = it - 1 /\ Len(argv') = Len(argv) - 1
      /\ Len(given') - Len(argv') = lag + 1
  <2>1. given' = given /\ it' = it - 1 /\ Len(argv') = Len(argv) - 1
    BY <1>1, <1>4, Removed
  <2>2. Len(given) \in Nat /\ Len(argv) \in Nat /\ Len(given') = Len(given)
    BY <1>4, <2>1
  <2> QED  BY <2>1, <2>2
<1>7. n + 1 \notin Opt!Kept /\ Opt!Rank(n + 1) = Opt!Rank(n)
  <2>1. n + 1 \notin Opt!Kept
    BY <1>2, <1>4 DEF Opt!Kept
  <2> QED  BY <1>4, <2>1, Ranks
<1>8. \A j \in 1..Len(argv) - 1 :
        /\ j < it => argv'[j] = argv[j]
        /\ j >= it => argv'[j] = argv[j + 1]
  BY <1>1, <1>4, Removed
<1>9. /\ n + 1 \in 0..Len(given)
      /\ Opt!Rank(n + 1) = n + 1 - (Len(given) - Len(argv'))
  <2>1. Opt!Rank(n) \in Nat
    BY <1>4, Ranks
  <2>2. Len(given') = Len(given) /\ Len(given) \in Nat
    BY <1>4, <1>6
  <2>3. Opt!Rank(n) = n - lag
    BY <1>4, <2>1
  <2> QED  BY <1>4, <1>6, <1>7, <2>1, <2>2, <2>3
<1>10. ASSUME NEW i \in Opt!Kept, i <= n + 1
       PROVE  argv'[Opt!Rank(i)] = given[i]
  <2>1. i \in Nat /\ i <= n
    BY <1>4, <1>7, <1>10 DEF Opt!Kept
  <2>2. Opt!Rank(i) \in 1..Opt!Rank(n) /\ Opt!Rank(n) \in Nat
    BY <1>4, <2>1, Ranks
  <2>3. argv[Opt!Rank(i)] = given[i]
    BY <1>5, <2>1 DEF Through
  <2>4. Opt!Rank(i) \in 1..Len(argv) - 1 /\ Opt!Rank(i) < it
    BY <1>4, <2>2
  <2> QED  BY <1>8, <2>3, <2>4
<1>11. ASSUME NEW k \in 1..Opt!Rank(n + 1)
       PROVE  \E i \in Opt!Kept : i <= n + 1 /\ argv'[k] = given[i]
  <2>1. Opt!Rank(n) \in Nat
    BY <1>4, Ranks
  <2>2. k \in 1..Opt!Rank(n) /\ k \in 1..Len(argv) - 1 /\ k < it
    BY <1>4, <1>7, <2>1
  <2>3. PICK i \in Opt!Kept : i <= n /\ argv[k] = given[i]
    BY <1>5, <2>2 DEF Through
  <2>4. i <= n + 1
    BY <1>4, <2>3 DEF Opt!Kept
  <2> QED  BY <1>8, <2>2, <2>3, <2>4
<1>12. ASSUME NEW k \in Opt!Rank(n + 1) + 1 .. Len(argv')
       PROVE  argv'[k] = given[k + (Len(given) - Len(argv'))]
  <2>1. k \in 1..Len(argv) - 1 /\ k >= it /\ k + 1 \in Opt!Rank(n) + 1 .. Len(argv)
    BY <1>4, <1>6, <1>7
  <2>2. argv'[k] = argv[k + 1]
    BY <1>8, <2>1
  <2>3. argv[k + 1] = given[k + 1 + lag]
    BY <1>5, <2>1 DEF Through
  <2>4. k + 1 + lag = k + (Len(given) - Len(argv'))
    BY <1>4, <1>6, <2>1
  <2> QED  BY <2>2, <2>3, <2>4
<1>13. ASSUME NEW key \in Range(Opt!Helpers)
       PROVE  settings'[key] = LastBefore(key, n + 1)
  <2>1. settings[key] = LastBefore(key, n)
    BY <1>5 DEF Through
  <2>2. key \in DOMAIN settings
    BY DEF OptionsInv, Opt!Helpers, Range
  <2>3. settings' = IF Opt!IsValid(given[n + 1])
                    THEN [settings EXCEPT ![given[n + 1].key] = Opt!Value(given[n + 1])]
                    ELSE settings
    BY <1>1, <1>4 DEF Opt!Take
  <2> QED  BY <1>4, <2>1, <2>2, <2>3, LastOne
<1>14. help' <=> \E i \in 1..n + 1 : given[i].key = "help"
  <2>1. help <=> \E i \in 1..n : given[i].key = "help"
    BY <1>5 DEF Through
  <2>2. given[n + 1].key # "help"
    <3>1. given[n + 1].key = Opt!Helpers[helper] /\ helper \in 1..5
      BY <1>1, <1>4
    <3>2. \A h \in 1..5 : Opt!Helpers[h] # "help"
      BY DEF Opt!Helpers
    <3> QED  BY <3>1, <3>2
  <2>3. \A i \in 1..n + 1 : i \in 1..n \/ i = n + 1
    BY <1>4
  <2>4. \A i \in 1..n : i \in 1..n + 1
    BY <1>4
  <2> QED  BY <1>1, <2>1, <2>2, <2>3, <2>4, Zenon
<1>15. \A m : m = n + 1 => Through(m)'
  <2> SUFFICES ASSUME NEW m, m = n + 1 PROVE Through(m)'
    OBVIOUS
  <2>1. m \in 0..Len(given) /\ Opt!Rank(m) = m - (Len(given) - Len(argv'))
    BY <1>4, <1>6, <1>9
  <2>2. \A i \in Opt!Kept : i <= m => argv'[Opt!Rank(i)] = given[i]
    BY <1>10
  <2>3. \A k \in 1..Opt!Rank(m) : \E i \in Opt!Kept : i <= m /\ argv'[k] = given[i]
    BY <1>11
  <2>4. \A k \in Opt!Rank(m) + 1 .. Len(argv') :
          argv'[k] = given[k + (Len(given) - Len(argv'))]
    BY <1>12
  <2>5. \A key \in Range(Opt!Helpers) : settings'[key] = LastBefore(key, m)
    BY <1>13
  <2>6. help' <=> \E i \in 1..m : given[i].key = "help"
    BY <1>14, Zenon
  <2> QED  BY <1>6, <2>1, <2>2, <2>3, <2>4, <2>5, <2>6, ThroughAfter
<1>16. it' <= Len(argv')
  BY <1>4, <1>6
<1>17. Place' = n + 1
  <2>1. Place' = it' + (Len(given') - Len(argv'))
    BY DEF Place
  <2>2. it' = n - lag /\ n \in Int /\ lag \in Int
    BY <1>4, <1>6
  <2> HIDE DEF lag
  <2> QED  BY <1>6, <2>1, <2>2
<1> QED  BY <1>15, <1>16, <1>17 DEF Taken, Through

(* An argument that no helper has matched stays where it is.                *)
LEMMA PassPlace ==
  ASSUME OptionsInv, ParseInv, stage = "options", Fresh, Opt!NextArgument
  PROVE  Through(Place - 1)'
<1> DEFINE lag == Len(given) - Len(argv)
<1>n. PICK n : n = Place - 1
  OBVIOUS
<1>0. /\ ~ Opt!Parsed /\ helper = 6 /\ given' = given /\ argv' = argv
      /\ settings' = settings /\ it' = it + 1
  BY DEF Opt!NextArgument, Opt!Helpers
<1>1. /\ it \in 1..Len(argv) /\ n \in Nat /\ n + 1 \in 1..Len(given)
      /\ argv[it] = given[n + 1] /\ it = Opt!Rank(n) + 1 /\ it = n + 1 - lag
      /\ given \in Seq(Arguments) /\ argv \in Seq(Arguments) /\ lag \in Int
  <2>1. given \in Seq(Arguments) /\ argv \in Seq(Arguments)
    BY DEF ParseInv, OptionsInv
  <2>2. /\ it \in 1..Len(argv) /\ Place - 1 \in Nat /\ Place \in 1..Len(given)
        /\ argv[it] = given[Place] /\ it = Opt!Rank(Place - 1) + 1
    BY <1>0, Looking
  <2>3. Place = n + 1 /\ Place = it + lag /\ lag \in Int
    BY <1>n, <2>1, <2>2 DEF Place
  <2> QED  BY <1>n, <2>1, <2>2, <2>3
<1>2. Through(n)
  BY <1>n, <1>1 DEF Fresh, Through
<1>3. given[n + 1].key \notin Range(Opt!Helpers) /\ n + 1 \in Opt!Kept
  <2>1. \A h \in 1..5 : given[n + 1].key # Opt!Helpers[h]
    <3>1. \A h \in 1..helper - 1 : argv[it].key # Opt!Helpers[h]
      BY <1>1 DEF Fresh
    <3>2. 1..helper - 1 = 1..5
      BY <1>0
    <3> QED  BY <1>1, <3>1, <3>2
  <2>2. given[n + 1].key \notin Range(Opt!Helpers)
    BY <2>1 DEF Range, Opt!Helpers
  <2> QED  BY <1>1, <2>2 DEF Opt!Kept, Opt!IsOption, Opt!Range, Range
<1>4. /\ Opt!Rank(n) \in Nat /\ Opt!Rank(n) = n - lag
      /\ Opt!Rank(n + 1) = Opt!Rank(n) + 1 /\ Opt!Rank(n + 1) = it
  <2>1. Opt!Rank(n) \in Nat
    BY <1>1, Ranks
  <2>2. Opt!Rank(n + 1) = Opt!Rank(n) + 1
    BY <1>1, <1>3, Ranks
  <2> HIDE DEF lag
  <2> QED  BY <1>1, <2>1, <2>2
<1>5. ASSUME NEW i \in Opt!Kept, i <= n + 1
      PROVE  argv[Opt!Rank(i)] = given[i]
  <2>1. CASE i = n + 1
    BY <1>1, <1>4, <2>1
  <2>2. CASE i # n + 1
    <3>1. i <= n
      BY <1>1, <1>5, <2>2 DEF Opt!Kept
    <3> QED  BY <1>2, <3>1 DEF Through
  <2> QED  BY <2>1, <2>2
<1>6. ASSUME NEW k \in 1..Opt!Rank(n + 1)
      PROVE  \E i \in Opt!Kept : i <= n + 1 /\ argv[k] = given[i]
  <2>1. CASE k = it
    BY <1>1, <1>3, <2>1
  <2>2. CASE k # it
    <3>1. k \in 1..Opt!Rank(n)
      <4> HIDE DEF lag
      <4> QED  BY <1>1, <1>4, <2>2
    <3>2. PICK i \in Opt!Kept : i <= n /\ argv[k] = given[i]
      BY <1>2, <3>1 DEF Through
    <3>3. i <= n + 1
      BY <1>1, <3>2 DEF Opt!Kept
    <3> QED  BY <3>2, <3>3
  <2> QED  BY <2>1, <2>2
<1>7. ASSUME NEW k \in Opt!Rank(n + 1) + 1 .. Len(argv)
      PROVE  argv[k] = given[k + (Len(given) - Len(argv))]
  <2>1. k \in Opt!Rank(n) + 1 .. Len(argv)
    BY <1>1, <1>4
  <2> QED  BY <1>2, <2>1 DEF Through
<1>8. ASSUME NEW key \in Range(Opt!Helpers)
      PROVE  settings[key] = LastBefore(key, n + 1)
  <2>1. settings[key] = LastBefore(key, n)
    BY <1>2 DEF Through
  <2> QED  BY <1>1, <1>3, <2>1, LastOne
<1>9. help' <=> \E i \in 1..n + 1 : given[i].key = "help"
  <2>1. help <=> \E i \in 1..n : given[i].key = "help"
    BY <1>2 DEF Through
  <2>0. help' = (help \/ Opt!Matches("help"))
    BY Zenon DEF Opt!NextArgument
  <2>2. Opt!Matches("help") <=> given[n + 1].key = "help"
    BY <1>1 DEF Opt!Matches
  <2>3. \A i \in 1..n + 1 : i \in 1..n \/ i = n + 1
    BY <1>1
  <2>4. n + 1 \in 1..n + 1 /\ \A i \in 1..n : i \in 1..n + 1
    BY <1>1
  <2> QED  BY <2>0, <2>1, <2>2, <2>3, <2>4, Zenon
<1>10. Place' - 1 = n + 1
  <2>1. Place' = it + 1 + lag
    BY <1>0 DEF Place
  <2> HIDE DEF lag
  <2> QED  BY <1>1, <2>1
<1>11. n + 1 \in 0..Len(given) /\ Opt!Rank(n + 1) = n + 1 - lag
  <2> HIDE DEF lag
  <2>1. Opt!Rank(n + 1) = n + 1 - lag
    BY <1>1, <1>4
  <2> QED  BY <1>1, <2>1
<1>12. \A m : m = n + 1 => Through(m)'
  <2> SUFFICES ASSUME NEW m, m = n + 1 PROVE Through(m)'
    OBVIOUS
  <2>1. m \in 0..Len(given) /\ Opt!Rank(m) = m - (Len(given) - Len(argv))
    BY <1>1, <1>11
  <2>2. \A i \in Opt!Kept : i <= m => argv[Opt!Rank(i)] = given[i]
    BY <1>5
  <2>3. \A k \in 1..Opt!Rank(m) : \E i \in Opt!Kept : i <= m /\ argv[k] = given[i]
    BY <1>6
  <2>4. \A k \in Opt!Rank(m) + 1 .. Len(argv) :
          argv[k] = given[k + (Len(given) - Len(argv))]
    BY <1>7
  <2>5. \A key \in Range(Opt!Helpers) : settings[key] = LastBefore(key, m)
    BY <1>8
  <2>6. help' <=> \E i \in 1..m : given[i].key = "help"
    BY <1>9, Zenon
  <2> QED  BY <1>0, <2>1, <2>2, <2>3, <2>4, <2>5, <2>6, ThroughAfter
<1> QED  BY <1>10, <1>12 DEF Through

LEMMA ParseStep ==
  ASSUME OptionsInv, ParseInv, [FsNext]_fsVars
  PROVE  ParseInv'
<1> SUFFICES ASSUME stage' = "options" PROVE ParseInv'
  BY DEF ParseInv
<1>1. CASE UNCHANGED <<stage, options>>
  <2>1. /\ given' = given /\ argv' = argv /\ it' = it /\ helper' = helper
        /\ settings' = settings /\ help' = help /\ stage' = stage
    BY <1>1 DEF options
  <2> QED  BY <2>1, GivenStays
             DEF ParseInv, Fresh, Taken, Through, Place
<1>2. CASE ParseArgs
  <2>1. /\ stage = "options" /\ given' = given /\ given \in Seq(Arguments)
        /\ Opt!Take \/ Opt!Skip \/ Opt!NextArgument
    BY <1>2 DEF ParseInv, ParseArgs, Opt!Take, Opt!Skip, Opt!NextArgument
  <2>2. CASE Opt!Take
    BY <2>1, <2>2, TakePlace DEF ParseInv
  <2>3. CASE Opt!Skip
    <3>1. /\ ~ Opt!Parsed /\ helper \in 1..5 /\ ~ Opt!Matches(Opt!Helpers[helper])
          /\ helper' = helper + 1 /\ argv' = argv /\ it' = it
          /\ settings' = settings /\ help' = help
      BY <2>3 DEF Opt!Skip, Opt!Helpers, OptionsInv
    <3>2. /\ \A n : Through(n)' = Through(n)
          /\ Place' = Place
      BY <2>1, <3>1, GivenStays DEF Through, Place
    <3>3. CASE Fresh
      <4>1. it \in 1..Len(argv)
        BY <2>1, <3>1, <3>3, Looking
      <4>2. argv[it].key # Opt!Helpers[helper]
        BY <3>1, <4>1 DEF Opt!Matches
      <4>3. \A h \in 1..helper - 1 : argv[it].key # Opt!Helpers[h]
        BY <3>3, <4>1 DEF Fresh
      <4>4. \A h \in 1..helper' - 1 : h \in 1..helper - 1 \/ h = helper
        BY <3>1
      <4>5. \A h \in 1..helper' - 1 : argv'[it'].key # Opt!Helpers[h]
        BY <3>1, <4>2, <4>3, <4>4
      <4>6. Through(Place - 1)'
        BY <2>1, <3>1, <3>3, GivenStays DEF Fresh, Through, Place
      <4> QED  BY <2>1, <4>5, <4>6 DEF ParseInv, Fresh
    <3>4. CASE Taken
      <4>1. Through(Place)' /\ it' <= Len(argv')
        BY <2>1, <3>1, <3>4, GivenStays DEF Taken, Through, Place
      <4> QED  BY <2>1, <4>1 DEF ParseInv, Taken
    <3> QED  BY <2>1, <3>3, <3>4 DEF ParseInv
  <2>4. CASE Opt!NextArgument
    <3>1. /\ ~ Opt!Parsed /\ helper = 6 /\ helper' = 1
          /\ help' = (help \/ Opt!Matches("help"))
          /\ argv' = argv /\ it' = it + 1 /\ settings' = settings
      BY <2>4 DEF Opt!NextArgument, Opt!Helpers
    <3>2. Through(Place - 1)'
      <4>1. CASE Fresh
        BY <2>1, <2>4, <4>1, PassPlace
      <4>2. CASE Taken
        <5>1. help' = help
          <6>1. it >= 1 => \E i \in Opt!Kept : i <= Place /\ argv[it] = given[i]
            BY <2>1, <3>1, <4>2, Looking
          <6>2. \A i \in Opt!Kept : i <= Place => i \in 1..Place
            BY <2>1, <4>2 DEF Opt!Kept, Taken, Through
          <6>3. Opt!Matches("help") => help
            BY <4>2, <6>1, <6>2 DEF Opt!Matches, Taken, Through
          <6> QED  BY <3>1, <6>3, Zenon DEF OptionsInv
        <5>2. Place' = Place + 1 /\ Place \in Int /\ Through(Place)
          BY <2>1, <3>1, <4>2 DEF Place, OptionsInv, Taken
        <5>3. PICK n \in Int : n = Place
          BY <5>2
        <5>4. Place' - 1 = n /\ Through(n)
          BY <5>2, <5>3 DEF Through
        <5>5. Through(n)'
          BY <2>1, <3>1, <5>1, <5>4, GivenStays DEF Through
        <5> QED  BY <5>4, <5>5 DEF Through
      <4> QED  BY <2>1, <4>1, <4>2 DEF ParseInv
    <3> QED  BY <2>1, <3>1, <3>2 DEF ParseInv, Fresh
  <2> QED  BY <2>1, <2>2, <2>3, <2>4
<1> QED  BY <1>1, <1>2, Frame DEF Setup, Mount, Exit, options, mount

LEMMA ParseInit == FsInit => ParseInv
<1> SUFFICES ASSUME FsInit PROVE ParseInv
  OBVIOUS
<1>1. /\ given \in Seq(Arguments) /\ argv = given /\ it = 1 /\ helper = 1
      /\ settings = Opt!Defaults /\ help = FALSE
  BY CommandLinesAssumption DEF FsInit, Opt!Init
<1>2. Place - 1 = 0 /\ Len(given) \in Nat /\ Len(given) - Len(argv) = 0
  BY <1>1 DEF Place
<1>3. \A i \in Opt!Kept : ~ (i <= 0)
  BY <1>1 DEF Opt!Kept
<1>4. \A key : LastBefore(key, 0) = Opt!Defaults[key]
  BY DEF LastBefore
<1>5. Opt!Rank(0) = 0
  BY <1>1, Ranks
<1>6. /\ \A k \in 1..Opt!Rank(0) : \E i \in Opt!Kept : i <= 0 /\ argv[k] = given[i]
      /\ \A k \in Opt!Rank(0) + 1 .. Len(argv) :
           argv[k] = given[k + (Len(given) - Len(argv))]
  BY <1>1, <1>2, <1>5
<1>7. help <=> \E i \in 1..0 : given[i].key = "help"
  <2>1. \A i \in 1..0 : FALSE
    OBVIOUS
  <2> QED  BY <1>1, <2>1, Zenon
<1>8. 0 \in 0..Len(given) /\ Opt!Rank(0) = 0 - (Len(given) - Len(argv))
  BY <1>2, <1>5
<1>9. Through(0)
  BY <1>1, <1>3, <1>4, <1>6, <1>7, <1>8, Zenon DEF Through
<1>10. Through(Place - 1)
  BY <1>2, <1>9
<1> QED  BY <1>1, <1>10 DEF ParseInv, Fresh

(* Whatever the order of the options and of what is between them, each      *)
(* setting ends as the last valid one, and the rest is left in its order    *)
(* (autohttpfs.cpp:41-57, 105-110).                                         *)
THEOREM OptionsAlwaysTaken == FsSpec => []OptionsTaken
<1>1. OptionsInv /\ ParseInv => OptionsTaken
  <2> SUFFICES ASSUME OptionsInv, ParseInv, stage = "options", Opt!Parsed
               PROVE  Opt!OptionsTaken
    BY DEF OptionsTaken, Opt!OptionsTaken
  <2> DEFINE n == Len(given)
  <2>1. given \in Seq(Arguments) /\ Through(Place - 1) /\ it = Len(argv) + 1
    BY DEF ParseInv, OptionsInv, Fresh, Taken, Opt!Parsed
  <2>2. Place - 1 = n /\ Through(n)
    <3>1. Len(argv) \in Nat /\ n \in Nat
      BY <2>1 DEF OptionsInv
    <3>2. Place - 1 = n
      BY <2>1, <3>1 DEF Place
    <3> QED  BY <2>1, <3>2
  <2>3. Len(argv) = Opt!Cardinality(Opt!Kept)
    <3>1. Opt!Rank(n) = Cardinality(Opt!Kept)
      BY <2>1, Ranks
    <3>2. Opt!Rank(n) = Len(argv)
      BY <2>1, <2>2 DEF Through, OptionsInv
    <3>3. Opt!Cardinality(Opt!Kept) = Cardinality(Opt!Kept)
      BY Zenon DEF Opt!Cardinality, Cardinality, Opt!IsFiniteSet, IsFiniteSet
    <3> QED  BY <3>1, <3>2, <3>3
  <2>4. \A i \in Opt!Kept : argv[Opt!Rank(i)] = given[i]
    BY <2>1, <2>2 DEF Through, Opt!Kept
  <2>5. ASSUME NEW key \in Opt!Range(Opt!Helpers)
        PROVE  settings[key] = Opt!LastValue(key)
    <3>1. settings[key] = LastBefore(key, n)
      BY <2>2 DEF Through, Opt!Range, Range
    <3>2. DOMAIN given = 1..n
      BY <2>1
    <3> QED  BY <3>1, <3>2 DEF LastBefore, Opt!LastValue
  <2>6. help <=> \E i \in DOMAIN given : given[i].key = "help"
    BY <2>1, <2>2 DEF Through
  <2> QED  BY <2>3, <2>4, <2>5, <2>6, Zenon DEF Opt!OptionsTaken
<1>2. FsInv => OptionsInv
  BY DEF FsInv
<1>3. FsInit => ParseInv
  BY ParseInit
<1>4. OptionsInv /\ ParseInv /\ [FsNext]_fsVars => ParseInv'
  BY ParseStep
<1> QED  BY <1>1, <1>2, <1>3, <1>4, FsInvariant, PTL DEF FsSpec
-----------------------------------------------------------------------------
(* The tree of .proc.                                                       *)

PathAt(i) == Proc!MountPath(Proc!Mounts[i])

LEMMA TwoNames ==
  ASSUME NEW m, NEW n
  PROVE  Append(<<m>>, n) = <<m, n>>
<1> DEFINE S == {m, n}
           s == Append(<<m>>, n)
           t == <<m, n>>
<1>1. <<m>> \in Seq(S) /\ n \in S
  OBVIOUS
<1>2. s \in Seq(S) /\ Len(s) = 2 /\ s[1] = m /\ s[2] = n
  BY <1>1
<1>3. t \in Seq(S) /\ Len(t) = 2 /\ t[1] = m /\ t[2] = n
  OBVIOUS
<1> HIDE DEF s, t
<1>4. \A i \in 1..Len(s) : s[i] = t[i]
  BY <1>2, <1>3
<1>5. s = t
  BY <1>2, <1>3, <1>4, SeqEqual
<1> QED  BY <1>5 DEF s, t

(* What the table says: all but .proc is mounted on a directory of the      *)
(* table that has its own path, and no two directories have the same.       *)
LEMMA MountTable ==
  /\ Proc!Mounts[1].base = {} /\ PathAt(1) = <<".proc">>
  /\ \A i \in 2..10 : \E b \in {1, 2, 5} :
       /\ Proc!Mounts[i].base = {b}
       /\ PathAt(i) = Append(Proc!Mounts[b].path, Proc!Mounts[i].name)
  /\ \A i \in 1..10 : Proc!Mounts[i].class = "Dir" <=> i \in {1, 2, 5}
  /\ \A b \in {1, 2, 5} : PathAt(b) = Proc!Mounts[b].path
  /\ \A i \in 1..10, b \in {1, 2, 5} : PathAt(i) = PathAt(b) => i = b
<1> DEFINE M == Proc!Mounts
<1>1. /\ M[1].base = {} /\ M[1].name = ".proc"
      /\ M[2].base = {1} /\ M[2].name = "benchmark"
      /\ M[3].base = {2} /\ M[4].base = {2}
      /\ M[5].base = {1} /\ M[5].name = "cache"
      /\ \A i \in 6..10 : M[i].base = {5}
  BY DEF Proc!Mounts, Proc!DirAt, Proc!FileAt
<1>2. /\ M[1].path = <<".proc">> /\ M[2].path = <<".proc", "benchmark">>
      /\ M[5].path = <<".proc", "cache">>
  BY DEF Proc!Mounts, Proc!DirAt
<1>3. \A i \in 1..10 : M[i].class = "Dir" <=> i \in {1, 2, 5}
  BY DEF Proc!Mounts, Proc!DirAt, Proc!FileAt
<1> HIDE DEF M
<1>4. PathAt(1) = <<".proc">>
  BY <1>1 DEF PathAt, Proc!MountPath, M
<1>5. ASSUME NEW i \in 2..10, NEW b \in {1, 2, 5}, M[i].base = {b}
      PROVE  PathAt(i) = Append(M[b].path, M[i].name)
  <2>1. (CHOOSE j \in M[i].base : TRUE) = b
    BY <1>5
  <2> QED  BY <1>5, <2>1 DEF PathAt, Proc!MountPath, M
<1>6. \A i \in 2..10 : \E b \in {1, 2, 5} : M[i].base = {b}
  BY <1>1
<1>7. \A b \in {1, 2, 5} : PathAt(b) = M[b].path
  <2>1. /\ PathAt(2) = Append(<<".proc">>, "benchmark")
        /\ PathAt(5) = Append(<<".proc">>, "cache")
    <3>1. /\ PathAt(2) = Append(M[1].path, M[2].name)
          /\ PathAt(5) = Append(M[1].path, M[5].name)
      <4>1. 2 \in 2..10 /\ 5 \in 2..10 /\ 1 \in {1, 2, 5}
        OBVIOUS
      <4> QED  BY <1>1, <1>5, <4>1, Zenon
    <3> QED  BY <1>1, <1>2, <3>1, Zenon
  <2>2. \A n : Append(<<".proc">>, n) = <<".proc", n>>
    BY TwoNames, Zenon
  <2> QED  BY <1>2, <1>4, <2>1, <2>2
<1>8. ASSUME NEW i \in 1..10, NEW b \in {1, 2, 5}, PathAt(i) = PathAt(b), i # b
      PROVE  FALSE
  <2>1. /\ PathAt(1) = <<".proc">> /\ PathAt(2) = <<".proc", "benchmark">>
        /\ PathAt(5) = <<".proc", "cache">>
    BY <1>2, <1>7, Zenon
  <2>2. \A m, n, k : /\ Len(<<m>>) = 1 /\ Len(<<m, n>>) = 2
                     /\ Len(Append(<<m, n>>, k)) = 3
    OBVIOUS
  <2>3. CASE i \in {1, 2, 5}
    BY <1>8, <2>1, <2>3
  <2>4. CASE i \notin {1, 2, 5}
    <3>1. i \in 2..10 /\ (M[i].base = {2} \/ M[i].base = {5})
      <4>1. i \in {3, 4} \/ i \in 6..10
        BY <2>4
      <4> QED  BY <1>1, <4>1
    <3>2. \E c \in {2, 5} : PathAt(i) = Append(M[c].path, M[i].name)
      BY <1>5, <3>1
    <3>3. Len(PathAt(i)) = 3
      BY <1>2, <2>2, <3>2, Zenon
    <3>4. Len(PathAt(b)) \in {1, 2}
      BY <2>1, <2>2
    <3> QED  BY <1>8, <3>3, <3>4
  <2> QED  BY <2>3, <2>4
<1>9. \A i \in 2..10 : \E b \in {1, 2, 5} :
        M[i].base = {b} /\ PathAt(i) = Append(M[b].path, M[i].name)
  BY <1>5, <1>6
<1>10. \A i \in 1..10, b \in {1, 2, 5} : PathAt(i) = PathAt(b) => i = b
  BY <1>8
<1> QED  BY <1>1, <1>3, <1>4, <1>7, <1>9, <1>10 DEF M

LEMMA PathsOfDirs == \A b \in {1, 2, 5} : \E S : Proc!Mounts[b].path \in Seq(S)
<1>1. /\ Proc!Mounts[1].path = <<".proc">>
      /\ Proc!Mounts[2].path = <<".proc", "benchmark">>
      /\ Proc!Mounts[5].path = <<".proc", "cache">>
  BY DEF Proc!Mounts, Proc!DirAt
<1> DEFINE S == {".proc", "benchmark", "cache"}
<1>2. /\ <<".proc">> \in Seq(S) /\ <<".proc", "benchmark">> \in Seq(S)
      /\ <<".proc", "cache">> \in Seq(S)
  OBVIOUS
<1> QED  BY <1>1, <1>2

LEMMA TakeOff ==
  ASSUME NEW S, NEW q \in Seq(S), NEW n
  PROVE  /\ SubSeq(Append(q, n), 1, Len(Append(q, n)) - 1) = q
         /\ Append(q, n)[Len(Append(q, n))] = n
<1> DEFINE T == S \cup {n}
           a == Append(q, n)
           u == SubSeq(a, 1, Len(a) - 1)
<1>1. q \in Seq(T) /\ n \in T
  OBVIOUS
<1>2. /\ a \in Seq(T) /\ Len(a) = Len(q) + 1 /\ Len(q) \in Nat
      /\ \A j \in 1..Len(q) : a[j] = q[j]
      /\ a[Len(q) + 1] = n
  BY <1>1
<1> HIDE DEF a
<1>3. u \in Seq(T) /\ Len(u) = Len(q) /\ \A j \in 1..Len(q) : u[j] = a[j]
  BY <1>2
<1> HIDE DEF u
<1>4. u = q
  BY <1>1, <1>2, <1>3, SeqEqual
<1> QED  BY <1>2, <1>4 DEF a, u

(* What init() has mounted stays.                                           *)
MountedProcs ==
  [p \in {Proc!MountPath(m) : m \in Range(Proc!Mounts)} |->
     LET here == {i \in DOMAIN Proc!Mounts : Proc!MountPath(Proc!Mounts[i]) = p}
     IN  Proc!Mounts[CHOOSE i \in here : \A j \in here : i <= j]]
MountedDirs(procs) ==
  [p \in {q \in DOMAIN procs : procs[q].class = "Dir"} |->
     {m.name : m \in {m \in Range(Proc!Mounts) :
                        \E i \in m.base : Proc!Mounts[i] = procs[p]}}]
MountedInv ==
  stage = "mounted" => m_procs = MountedProcs /\ m_dirs = MountedDirs(m_procs)

LEMMA MountedStep ==
  ASSUME MountedInv, SetupInv, [FsNext]_fsVars
  PROVE  MountedInv'
<1>1. CASE Mount
  <2>1. m_procs' = MountedProcs
    BY <1>1, Zenon DEF Mount, Proc!MountAll, MountedProcs, Proc!Range, Range
  <2>2. m_dirs' = MountedDirs(m_procs')
    BY <1>1, Zenon DEF Mount, Proc!MountAll, MountedDirs, Proc!Range, Range
  <2> QED  BY <2>1, <2>2 DEF MountedInv
<1>2. CASE UNCHANGED tree /\ (stage' = stage \/ stage' # "mounted")
  BY <1>2 DEF tree, MountedInv
<1>3. ParseArgs \/ Setup \/ Exit \/ UNCHANGED mount =>
        UNCHANGED tree /\ (stage' = stage \/ stage' # "mounted")
  BY DEF ParseArgs, Setup, Exit, mount
<1> QED  BY <1>1, <1>2, <1>3, Frame

(* The objects and the names, by their numbers in the table.                *)
LEMMA MountedObjects ==
  ASSUME MountedInv, stage = "mounted"
  PROVE  /\ \A i \in 1..10 : PathAt(i) \in DOMAIN m_procs
         /\ \A p \in DOMAIN m_procs : \E i \in 1..10 :
              PathAt(i) = p /\ m_procs[p] = Proc!Mounts[i]
         /\ \A p \in DOMAIN m_procs : m_procs[p].class = "Dir" =>
              p \in DOMAIN m_dirs
         /\ \A p \in DOMAIN m_dirs : p \in DOMAIN m_procs /\ \A n :
              n \in m_dirs[p] <=> \E i \in 1..10 : \E b \in Proc!Mounts[i].base :
                                 n = Proc!Mounts[i].name /\ Proc!Mounts[b] = m_procs[p]
<1> DEFINE here(p) == {i \in 1..10 : PathAt(i) = p}
           first(p) == CHOOSE i \in here(p) : \A j \in here(p) : i <= j
<1>1. DOMAIN Proc!Mounts = 1..10
  BY DEF Proc!Mounts
<1>2. /\ DOMAIN m_procs = {PathAt(i) : i \in 1..10}
      /\ \A p \in DOMAIN m_procs : m_procs[p] = Proc!Mounts[first(p)]
  BY <1>1 DEF MountedInv, MountedProcs, Range, PathAt
<1>3. ASSUME NEW p \in DOMAIN m_procs PROVE first(p) \in here(p)
  <2>1. here(p) # {} /\ here(p) \subseteq Nat
    BY <1>2
  <2>2. PICK i \in here(p) : \A j \in here(p) : <<j, i>> \notin OpToRel(<, Nat)
    BY <2>1, NatLessThanWellFounded, WFMin, Zenon
  <2>3. \A j \in here(p) : ~ (j < i)
    BY <2>1, <2>2, Zenon DEF OpToRel
  <2>4. \A j \in here(p) : i <= j
    BY <2>1, <2>3
  <2> QED  BY <2>4
<1>4. \A p \in DOMAIN m_procs : \E i \in 1..10 :
        PathAt(i) = p /\ m_procs[p] = Proc!Mounts[i]
  BY <1>2, <1>3
<1>5. /\ DOMAIN m_dirs = {q \in DOMAIN m_procs : m_procs[q].class = "Dir"}
      /\ \A p \in DOMAIN m_dirs :
           m_dirs[p] = {m.name : m \in {m \in Range(Proc!Mounts) :
                                   \E i \in m.base : Proc!Mounts[i] = m_procs[p]}}
  BY DEF MountedInv, MountedDirs
<1>6. ASSUME NEW p \in DOMAIN m_dirs, NEW n
      PROVE  n \in m_dirs[p] <=> \E i \in 1..10 : \E b \in Proc!Mounts[i].base :
               n = Proc!Mounts[i].name /\ Proc!Mounts[b] = m_procs[p]
  BY <1>1, <1>5 DEF Range
<1> QED  BY <1>2, <1>4, <1>5, <1>6

(* What the handlers return for a path of .proc.                            *)
LEMMA ProcReturns ==
  ASSUME AttrInv, m_errno = 0, NEW p \in ProcPaths, Dotted(p)
  PROVE  /\ GetattrRet(p) = 0
         /\ OpendirRet(p) = 0 <=> m_procs[p].class = "Dir"
         /\ OpenRet(p) = 0 <=> m_procs[p].class # "Dir"
<1>1. Proc!Found(p) /\ GetAttr(p) = {}
  <2>1. p # Root
    BY DEF Dotted
  <2>2. GetAttr(p) = {}
    <3>1. p # Host /\ p # Page
      BY DEF Dotted, Host, Page
    <3>2. p \notin DOMAIN m_attr
      BY <3>1 DEF AttrInv
    <3> QED  BY <2>1, <3>2 DEF GetAttr
  <2> QED  BY <2>2 DEF Proc!Found, ProcPaths
<1>2. /\ Proc!GetattrAt(p) = 0
      /\ Proc!OpendirAt(p) = IF Proc!IsA(p, {"Dir"}) THEN 0 ELSE Proc!Inherited
      /\ Proc!OpenAt(p) = IF Proc!IsA(p, {"Dir"}) THEN Proc!Inherited ELSE 0
  BY <1>1, Zenon DEF Proc!GetattrAt, Proc!OpendirAt, Proc!OpenAt
<1>3. Proc!Inherited # 0 /\ -ENOENT # 0
  BY DEF Proc!Inherited, Proc!ENOSYS, ENOENT
<1>4. GetattrRet(p) = 0
  BY <1>2, Zenon DEF GetattrRet
<1>5. OpendirRet(p) = IF Proc!OpendirAt(p) = 0 THEN 0 ELSE -ENOENT
  BY <1>1 DEF OpendirRet
<1>6. OpenRet(p) = IF Proc!OpenAt(p) = 0 THEN 0 ELSE -ENOENT
  BY <1>1 DEF OpenRet
<1> QED  BY <1>2, <1>3, <1>4, <1>5, <1>6 DEF Proc!IsA

(* Every name that is listed in .proc is there, as a file or a directory,   *)
(* and every object can be reached by names (procmap.cpp:99-126).           *)
THEOREM ProcTreeIsAlwaysWhole == FsSpec => []ProcTreeIsWhole
<1>1. FsInv /\ MountedInv => ProcTreeIsWhole
  <2> SUFFICES ASSUME FsInv, MountedInv, m_errno = 0
               PROVE  /\ \A p \in {q \in ProcPaths : Proc!IsA(q, {"Dir"})} :
                           \A n \in m_dirs[p] :
                             /\ GetattrRet(Append(p, n)) = 0
                             /\ (OpenRet(Append(p, n)) = 0) #
                                  (OpendirRet(Append(p, n)) = 0)
                      /\ \A p \in ProcPaths :
                           Len(p) > 1 => LET up == SubSeq(p, 1, Len(p) - 1)
                                         IN  /\ Proc!Found(up)
                                             /\ p[Len(p)] \in m_dirs[up]
    BY DEF ProcTreeIsWhole
  <2>1. CASE stage # "mounted"
    BY <2>1 DEF FsInv, TreeInv, ProcPaths
  <2>2. CASE stage = "mounted"
    <3> DEFINE M == Proc!Mounts
    <3>1. \A p \in ProcPaths : Dotted(p)
      BY DEF FsInv, TreeInv, ProcPaths, Dotted, Root
    <3>2. ASSUME NEW p \in ProcPaths, m_procs[p].class = "Dir", NEW n \in m_dirs[p]
          PROVE  Append(p, n) \in ProcPaths
      <4>1. PICK f \in 1..10 : PathAt(f) = p /\ m_procs[p] = M[f]
        BY <2>2, MountedObjects DEF ProcPaths
      <4>2. p = M[f].path
        BY <3>2, <4>1, MountTable
      <4>i. PICK i \in 1..10 : \E b \in M[i].base : n = M[i].name /\ M[b] = m_procs[p]
        BY <2>2, <3>2, MountedObjects DEF ProcPaths
      <4>3. PICK b \in M[i].base : n = M[i].name /\ M[b] = m_procs[p]
        BY <4>i
      <4>4. i \in 2..10
        <5>1. i # 1
          BY <4>3, MountTable, Zenon
        <5> QED  BY <5>1
      <4>5. PathAt(i) = Append(M[b].path, M[i].name)
        <5>1. PICK c \in {1, 2, 5} :
                M[i].base = {c} /\ PathAt(i) = Append(M[c].path, M[i].name)
          BY <4>4, MountTable, Zenon
        <5> QED  BY <4>3, <5>1, Zenon
      <4>6. PathAt(i) = Append(p, n)
        BY <4>1, <4>2, <4>3, <4>5
      <4> QED  BY <2>2, <4>6, MountedObjects DEF ProcPaths
    <3>3. ASSUME NEW p \in ProcPaths, Len(p) > 1
          PROVE  /\ Proc!Found(SubSeq(p, 1, Len(p) - 1))
                 /\ p[Len(p)] \in m_dirs[SubSeq(p, 1, Len(p) - 1)]
      <4>1. PICK i \in 1..10 : PathAt(i) = p
        BY <2>2, MountedObjects DEF ProcPaths
      <4>2. i \in 2..10
        <5>1. Len(<<".proc">>) = 1
          OBVIOUS
        <5>2. i = 1 => Len(p) = 1
          BY <4>1, <5>1, MountTable, Zenon
        <5>3. ~ (1 > 1)
          OBVIOUS
        <5>4. i # 1
          BY <3>3, <5>2, <5>3, Zenon
        <5> QED  BY <5>4
      <4>3. PICK b \in {1, 2, 5} :
              M[i].base = {b} /\ p = Append(M[b].path, M[i].name)
        BY <4>1, <4>2, MountTable
      <4>4. SubSeq(p, 1, Len(p) - 1) = M[b].path /\ p[Len(p)] = M[i].name
        <5>1. PICK S : M[b].path \in Seq(S)
          BY <4>3, PathsOfDirs
        <5> DEFINE q == M[b].path
                   n == M[i].name
        <5> HIDE DEF q, n
        <5>2. q \in Seq(S) /\ p = Append(q, n)
          BY <4>3, <5>1 DEF q, n
        <5>3. SubSeq(p, 1, Len(p) - 1) = q /\ p[Len(p)] = n
          BY <5>2, TakeOff, Zenon
        <5> QED  BY <5>3, Zenon DEF q, n
      <4>5. PathAt(b) = M[b].path /\ b \in 1..10
        <5>1. PathAt(b) = M[b].path
          BY MountTable, Zenon
        <5>2. b \in 1..10
          OBVIOUS
        <5> QED  BY <5>1, <5>2
      <4>6. M[b].path \in ProcPaths /\ m_procs[M[b].path] = M[b]
        <5>1. M[b].path \in ProcPaths
          BY <2>2, <4>5, MountedObjects, Zenon DEF ProcPaths
        <5>2. PICK j \in 1..10 :
                PathAt(j) = M[b].path /\ m_procs[M[b].path] = M[j]
          BY <2>2, <5>1, MountedObjects, Zenon DEF ProcPaths
        <5>3. j = b
          BY <4>5, <5>2, MountTable, Zenon
        <5> QED  BY <5>1, <5>2, <5>3
      <4>7. M[b].class = "Dir"
        BY <4>5, MountTable
      <4>8. M[i].name \in m_dirs[M[b].path]
        <5>1. M[b].path \in DOMAIN m_dirs
          BY <2>2, <4>6, <4>7, MountedObjects, Zenon DEF ProcPaths
        <5>2. b \in M[i].base
          BY <4>3
        <5>3. \A n : n \in m_dirs[M[b].path] <=>
                \E j \in 1..10 : \E c \in M[j].base :
                  n = M[j].name /\ M[c] = m_procs[M[b].path]
          BY <2>2, <5>1, MountedObjects, Zenon
        <5> QED  BY <4>6, <5>2, <5>3, Zenon
      <4> QED  BY <4>4, <4>6, <4>8 DEF Proc!Found, ProcPaths
    <3> QED  BY <3>1, <3>2, <3>3, ProcReturns DEF Proc!IsA, FsInv
  <2> QED  BY <2>1, <2>2
<1>2. FsInit => MountedInv
  BY DEF FsInit, MountedInv
<1>3. FsInv /\ MountedInv /\ [FsNext]_fsVars => MountedInv'
  BY MountedStep DEF FsInv
<1> QED  BY <1>1, <1>2, <1>3, FsInvariant, PTL DEF FsSpec
=============================================================================
