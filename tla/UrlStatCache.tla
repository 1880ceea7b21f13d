---------------------------- MODULE UrlStatCache ----------------------------
(***************************************************************************)
(* The shared stat cache of cache.h:89-128 and cache.cpp:80-192, from the  *)
(* return of init() to the return of stop().                               *)
(*                                                                         *)
(* Clients are the FUSE worker threads.  They call add, find and remove;   *)
(* each critical section under m_lock is one step, and whatever the code   *)
(* does before taking the lock or after releasing it is a step of its own. *)
(* The cleaner thread trims the map and sleeps.  It reads the size and the *)
(* limit without the lock, one after the other.  A stopper destroys the    *)
(* cache once the clients are gone.                                        *)
(***************************************************************************)
EXTENDS UrlStatMap

CONSTANTS
  Clients,         \* threads that call the cache
  Paths,           \* keys
  Attrs,           \* a (mode, length) pair is one value
  MTimes,          \* modification times offered to add()
  ExpireSettings,  \* values m_expire_sec takes
  MaxSettings,     \* values m_max_entries takes
  DefaultExpire, DefaultMax,
  MaxTime,         \* bound on the clock
  SizeModulus,     \* 2^w for the w bits of a size_t
  \* trim deletes DeltaMin at a time below SubLow, 1/DeltaDiv of the excess
  \* below SubHigh, DeltaMax from there on (5, 50, 10, 200, 20 in the code)
  SubLow, SubHigh, DeltaMin, DeltaDiv, DeltaMax,
  RereadsBounds    \* does the build read the size and the limit again?

Settings ==
  /\ DefaultExpire \in ExpireSettings /\ ExpireSettings \subseteq Int
  /\ DefaultMax \in MaxSettings /\ MaxSettings \subseteq 0..(SizeModulus - 1)

(* How many entries one chunk of trim() deletes. *)
Delta(excess) ==
  IF excess < SubLow THEN DeltaMin
  ELSE IF excess < SubHigh THEN excess \div DeltaDiv ELSE DeltaMax

ASSUME SettingsAssumption == Settings
ASSUME TimeAssumption == MaxTime \in Nat \ {0} /\ 0 \in MTimes
ASSUME RereadsAssumption == RereadsBounds \in BOOLEAN
ASSUME PathsAssumption == IsFiniteSet(Paths)
ASSUME ModulusAssumption == SizeModulus \in Nat \ {0}
(* A chunk is not empty, and a size_t holds the number of all paths and a   *)
(* chunk on top of it.                                                      *)
ASSUME DeltaAssumption ==
  \A excess \in 0..(SizeModulus - 1) :
    /\ Delta(excess) \in 1..(SizeModulus - 1)
    /\ Cardinality(Paths) + Delta(excess) < SizeModulus

(* Arithmetic of size_t: the difference or sum of two size_t's, reduced.   *)
Wrap(x) == IF x < 0 THEN x + SizeModulus
           ELSE IF x >= SizeModulus THEN x - SizeModulus ELSE x

Data == [attr : Attrs, mtime : MTimes]
Stamps == {0} \cup {t + e : t \in 1..MaxTime, e \in ExpireSettings}
UrlStat == [attr : Attrs, mtime : MTimes, expire : Stamps]
DataOf(us) == [attr |-> us.attr, mtime |-> us.mtime]

VARIABLES
  now,            \* time(NULL)
  m_stats,        \* the UrlStatMap
  m_expire_sec, m_max_entries, m_stop_cleaner,
  pc,             \* what each client does
  req,            \* the call a client is in: its path and its UrlStat
  signalled,      \* SIGUSR2 is pending for the cleaner
  cpc,            \* where the cleaner is
  seen,           \* the size it read
  sub, delta, b,  \* the locals of trim()
  limit,          \* the limit it read
  stopper         \* where stop() is

clientVars == <<pc, req>>
settings == <<m_expire_sec, m_max_entries>>
trimLocals == <<seen, sub, delta, b, limit>>
cleanerVars == <<cpc, seen, sub, delta, b, limit>>
vars == <<now, m_stats, m_expire_sec, m_max_entries, m_stop_cleaner, pc, req,
          signalled, cpc, seen, sub, delta, b, limit, stopper>>

NoCall == [path |-> "none"]

Init ==
  /\ now = 1
  /\ m_stats = EmptyMap
  /\ m_expire_sec = DefaultExpire
  /\ m_max_entries = DefaultMax
  /\ m_stop_cleaner = FALSE
  /\ pc = [c \in Clients |-> "idle"]
  /\ req = [c \in Clients |-> NoCall]
  /\ signalled = FALSE
  /\ cpc = "loop"
  /\ seen = 0 /\ sub = 0 /\ delta = 0 /\ b = 0 /\ limit = 0
  /\ stopper = "running"

(* A client begins a call only while the file system is mounted. *)
MayCall(c) == pc[c] = "idle" /\ stopper = "running"

(* A bug: entries live one second too long. *)
StampedLate(d) ==
  [attr |-> d.attr, mtime |-> d.mtime, expire |-> now + m_expire_sec + 1]

(* The UrlStat an add() at this moment will insert. *)
Stamped(d) ==
  [attr |-> d.attr, mtime |-> d.mtime, expire |-> now + m_expire_sec]

\* add(path, stat) computes the expiry before it takes the lock.
CallAdd(c, p, d) ==
  /\ MayCall(c)
  /\ pc' = [pc EXCEPT ![c] = "insert"]
  /\ req' = [req EXCEPT ![c] = [path |-> p, us |-> Stamped(d)]]
  /\ UNCHANGED <<now, m_stats, settings, m_stop_cleaner, signalled,
                 cleanerVars, stopper>>

\* The data find() hands to add(path, mode, length): the mtime is dropped.
Refreshed(us) == [attr |-> us.attr, mtime |-> 0]

\* A bug: the UrlStat found is kept in a variable all threads share.
LookupShared(c, p) ==
  /\ MayCall(c)
  /\ Finds(m_stats, p, now)
  /\ pc' = [pc EXCEPT ![c] = "refresh"]
  /\ req' = [d \in Clients |->
               IF d = c THEN [path |-> p, us |-> m_stats.tree[p]]
               ELSE IF pc[d] = "refresh"
                 THEN [path |-> req[d].path, us |-> m_stats.tree[p]]
               ELSE req[d]]
  /\ UNCHANGED <<now, m_stats, settings, m_stop_cleaner, signalled,
                 cleanerVars, stopper>>

\* find(path): the lookup under the lock; a miss returns at once.
Lookup(c, p) ==
  /\ MayCall(c)
  /\ Finds(m_stats, p, now)
  /\ pc' = [pc EXCEPT ![c] = "refresh"]
  /\ req' = [req EXCEPT ![c] = [path |-> p, us |-> m_stats.tree[p]]]
  /\ UNCHANGED <<now, m_stats, settings, m_stop_cleaner, signalled,
                 cleanerVars, stopper>>

\* A hit adds the path again once the lock is released.
Refresh(c) ==
  /\ pc[c] = "refresh"
  /\ pc' = [pc EXCEPT ![c] = "insert"]
  /\ req' = [req EXCEPT ![c].us = Stamped(Refreshed(req[c].us))]
  /\ UNCHANGED <<now, m_stats, settings, m_stop_cleaner, signalled,
                 cleanerVars, stopper>>

\* The critical section of add().
LockedInsert(c) ==
  /\ pc[c] = "insert"
  /\ m_stats' = Insert(m_stats, req[c].path, req[c].us)
  /\ IF IsNew(m_stats, req[c].path) /\ Size(m_stats') > m_max_entries
       THEN pc' = [pc EXCEPT ![c] = "alarm"]
       ELSE pc' = [pc EXCEPT ![c] = "idle"]
  /\ req' = [req EXCEPT ![c] = NoCall]
  /\ UNCHANGED <<now, settings, m_stop_cleaner, signalled, cleanerVars,
                 stopper>>

\* pthread_kill(m_cleaner, SIGUSR2) after the lock is released.
Alarm(c) ==
  /\ pc[c] = "alarm"
  /\ pc' = [pc EXCEPT ![c] = "idle"]
  /\ signalled' = TRUE
  /\ UNCHANGED <<now, m_stats, settings, m_stop_cleaner, req, cleanerVars,
                 stopper>>

\* remove(path)
RemovePath(c, p) ==
  /\ MayCall(c)
  /\ m_stats' = Remove(m_stats, p)
  /\ UNCHANGED <<now, settings, m_stop_cleaner, clientVars, signalled,
                 cleanerVars, stopper>>

\* The control files store a setting without the lock.
SetExpire(e) ==
  /\ stopper = "running"
  /\ m_expire_sec' = e
  /\ UNCHANGED <<now, m_stats, m_max_entries, m_stop_cleaner, clientVars,
                 signalled, cleanerVars, stopper>>

SetMaxEntries(m) ==
  /\ stopper = "running"
  /\ m_max_entries' = m
  /\ UNCHANGED <<now, m_stats, m_expire_sec, m_stop_cleaner, clientVars,
                 signalled, cleanerVars, stopper>>

Tick ==
  /\ now < MaxTime
  /\ now' = now + 1
  /\ UNCHANGED <<m_stats, settings, m_stop_cleaner, clientVars, signalled,
                 cleanerVars, stopper>>

-----------------------------------------------------------------------------
(* The cleaner thread. *)

\* A bug: the flag is not looked at.
LoopAgain ==
  /\ cpc = "loop"
  /\ cpc' = "size"
  /\ UNCHANGED <<now, m_stats, settings, m_stop_cleaner, clientVars,
                 signalled, trimLocals, stopper>>

\* while(!self->m_stop_cleaner)
LoopTest ==
  /\ cpc = "loop"
  /\ cpc' = IF m_stop_cleaner THEN "exited" ELSE "size"
  /\ UNCHANGED <<now, m_stats, settings, m_stop_cleaner, clientVars,
                 signalled, trimLocals, stopper>>

\* m_stats.size() in the condition of trim's while, read without the lock;
\* at "resize" the same, in m_stats.size() - m_max_entries.
ReadSize ==
  /\ cpc \in {"size", "resize"}
  /\ seen' = Size(m_stats)
  /\ cpc' = IF cpc = "size" THEN "max" ELSE "remax"
  /\ UNCHANGED <<now, m_stats, settings, m_stop_cleaner, clientVars,
                 signalled, sub, delta, b, limit, stopper>>

\* What follows the computation of sub: delta is chosen and b starts at 0.
StartChunks(max) ==
  /\ sub' = Wrap(seen - max)
  /\ delta' = Delta(sub')
  /\ b' = 0
  /\ limit' = max
  /\ cpc' = "chunk"

\* A bug: one entry too many is tolerated.
OverLimitByTwo == seen > m_max_entries + 1

OverLimit == seen > m_max_entries

\* m_max_entries in that condition, and at "remax" in the difference.  An
\* optimising build reuses both values; another reads them again.
ReadMax ==
  /\ cpc \in {"max", "remax"}
  /\ IF cpc = "max" /\ ~ OverLimit
       THEN cpc' = "sleep" /\ seen' = 0 /\ UNCHANGED <<sub, delta, b, limit>>
     ELSE IF cpc = "max" /\ RereadsBounds
       THEN cpc' = "resize" /\ UNCHANGED <<seen, sub, delta, b, limit>>
     ELSE StartChunks(m_max_entries) /\ UNCHANGED seen
  /\ UNCHANGED <<now, m_stats, settings, m_stop_cleaner, clientVars,
                 signalled, stopper>>

\* A bug: one chunk too many.
MoreChunksAndOne == b <= sub

MoreChunks == b < sub

\* The body of the for: m_stats.trim(delta) under the lock, then b += delta.
TrimChunk ==
  /\ cpc = "chunk"
  /\ MoreChunks
  /\ m_stats' = Trim(m_stats, delta)
  /\ b' = Wrap(b + delta)
  /\ UNCHANGED <<now, settings, m_stop_cleaner, clientVars, signalled, cpc,
                 seen, sub, delta, limit, stopper>>

\* The for is done: trim's while tests its condition again.
ChunksDone ==
  /\ cpc = "chunk"
  /\ ~ MoreChunks
  /\ cpc' = "size"
  /\ seen' = 0 /\ sub' = 0 /\ delta' = 0 /\ b' = 0 /\ limit' = 0
  /\ UNCHANGED <<now, m_stats, settings, m_stop_cleaner, clientVars,
                 signalled, stopper>>

\* sleep(5) runs out.
SleepEnds ==
  /\ cpc = "sleep"
  /\ cpc' = "loop"
  /\ UNCHANGED <<now, m_stats, settings, m_stop_cleaner, clientVars,
                 signalled, trimLocals, stopper>>

\* alarm_handler does nothing: the signal only cuts a sleep short, and is
\* lost on a cleaner that is not asleep.
DeliverSignal ==
  /\ signalled
  /\ signalled' = FALSE
  /\ cpc' = IF cpc = "sleep" THEN "loop" ELSE cpc
  /\ UNCHANGED <<now, m_stats, settings, m_stop_cleaner, clientVars,
                 trimLocals, stopper>>

-----------------------------------------------------------------------------
(* stop(), called when no file system operation is left. *)

StopFlag ==
  /\ stopper = "running"
  /\ \A c \in Clients : pc[c] = "idle"
  /\ m_stop_cleaner' = TRUE
  /\ stopper' = "kill"
  /\ UNCHANGED <<now, m_stats, settings, clientVars, signalled, cleanerVars>>

StopKill ==
  /\ stopper = "kill"
  /\ signalled' = TRUE
  /\ stopper' = "join"
  /\ UNCHANGED <<now, m_stats, settings, m_stop_cleaner, clientVars,
                 cleanerVars>>

\* pthread_join returns once the cleaner has.
StopJoin ==
  /\ stopper = "join"
  /\ cpc = "exited"
  /\ stopper' = "stopped"
  /\ UNCHANGED <<now, m_stats, settings, m_stop_cleaner, clientVars,
                 signalled, cleanerVars>>

Terminated == stopper = "stopped" /\ UNCHANGED vars

-----------------------------------------------------------------------------
ClientNext ==
  \E c \in Clients :
    \/ \E p \in Paths, d \in Data : CallAdd(c, p, d)
    \/ \E p \in Paths : Lookup(c, p) \/ RemovePath(c, p)
    \/ Refresh(c) \/ LockedInsert(c) \/ Alarm(c)

SettingNext ==
  \/ \E e \in ExpireSettings : SetExpire(e)
  \/ \E m \in MaxSettings : SetMaxEntries(m)

CleanerStep ==
  LoopTest \/ ReadSize \/ ReadMax \/ TrimChunk \/ ChunksDone

CleanerNext == CleanerStep \/ SleepEnds \/ DeliverSignal

StopperNext == StopFlag \/ StopKill \/ StopJoin

Next ==
  \/ ClientNext \/ SettingNext \/ Tick \/ CleanerNext \/ StopperNext
  \/ Terminated

Spec == Init /\ [][Next]_vars

(* Threads that can run are scheduled, a sleep ends, a signal arrives, and *)
(* stop() runs to its end once it has begun.  Nothing makes a client call. *)
Fairness ==
  /\ WF_vars(CleanerStep) /\ WF_vars(SleepEnds) /\ WF_vars(DeliverSignal)
  /\ WF_vars(StopKill) /\ WF_vars(StopJoin)

FairSpec == Spec /\ Fairness

-----------------------------------------------------------------------------
(* Types. *)

SizeT == 0..(SizeModulus - 1)
Call == [path : Paths, us : UrlStat]

MapTypes == MapOf(m_stats, Paths, UrlStat)

SettingTypes ==
  /\ now \in 1..MaxTime
  /\ m_expire_sec \in ExpireSettings
  /\ m_max_entries \in MaxSettings
  /\ m_stop_cleaner \in BOOLEAN
  /\ signalled \in BOOLEAN
  /\ stopper \in {"running", "kill", "join", "stopped"}

ClientTypes ==
  /\ pc \in [Clients -> {"idle", "refresh", "insert", "alarm"}]
  /\ req \in [Clients -> Call \cup {NoCall}]
  /\ \A c \in Clients : pc[c] \in {"refresh", "insert"} => req[c] \in Call

CleanerTypes ==
  /\ cpc \in {"loop", "size", "max", "resize", "remax", "chunk", "sleep",
              "exited"}
  /\ seen \in SizeT /\ sub \in SizeT /\ delta \in SizeT /\ b \in SizeT
  /\ limit \in SizeT

(* Every variable has its type, and a client that is inside a call has the *)
(* path and the stat of that call.                                         *)
TypeOK == MapTypes /\ SettingTypes /\ ClientTypes /\ CleanerTypes

-----------------------------------------------------------------------------
(* Safety. *)

(* The FIFO list of iterators and the map always describe the same keys,   *)
(* each once, whatever adds, refreshes, removals and trims interleave.     *)
(* trim() erases through the list (cache.cpp:59-61): a stale or repeated   *)
(* iterator there would be undefined behaviour.                            *)
ListMatchesMap == WellFormed(m_stats)

(* The cleaner deletes only while the map is larger than the limit it read *)
(* when it started the round, and one chunk leaves the map less than one   *)
(* chunk below it, although it reads both bounds without the lock while    *)
(* clients insert and the limit changes (cache.cpp:151-160).               *)
TrimStopsAtThreshold ==
  (cpc = "chunk" /\ MoreChunks) => Size(m_stats) > limit

(* Why the cleaner stops in time, when the build reads each bound once: it *)
(* saw no more entries than there were, only it deletes, and b counts all  *)
(* it may have deleted since.                                              *)
TrimRound ==
  /\ cpc \notin {"resize", "remax"}
  /\ cpc \in {"max", "chunk"} => seen <= Cardinality(Paths)
  /\ cpc = "max" => seen <= Size(m_stats)
  /\ cpc = "chunk" => /\ sub + limit = seen
                      /\ delta = Delta(sub)
                      /\ seen <= Size(m_stats) + b

-----------------------------------------------------------------------------
(* Liveness, under FairSpec. *)

AllIdle == \A c \in Clients : pc[c] = "idle"

(* Once the clients stop calling and the limit stops changing, the cache   *)
(* shrinks to the limit for good, unless it is being destroyed: a signal   *)
(* that misses the cleaner is made up for when its sleep ends.             *)
QuietCacheShrinks ==
  \A m \in MaxSettings :
    <>[](AllIdle /\ m_max_entries = m) =>
      <>[](Size(m_stats) <= m \/ m_stop_cleaner)

(* stop() returns: the cleaner sees the flag wherever the signal found it  *)
(* (cache.cpp:92-98, 181-184).                                             *)
StopReturns == (stopper = "kill") ~> (stopper = "stopped")

-----------------------------------------------------------------------------
(* The cache implements the sequential FIFO: its order is the list, and    *)
(* each entry is seen without its expiry.                                  *)
Held == [p \in Keys(m_stats) |-> DataOf(m_stats.tree[p])]

Fifo == INSTANCE FifoCache WITH order <- m_stats.m_entries, held <- Held

(* Every step of every thread stores one path or evicts a prefix of the    *)
(* arrival order, or changes nothing but expiries (cache.cpp:24-63).       *)
ImplementsFifo == Fifo!Spec

=============================================================================
