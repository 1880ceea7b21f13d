------------------------- MODULE UrlStatCacheProofs -------------------------
(* Theorems about UrlStatCache for any clients, paths, settings and word   *)
(* size, and any chunk sizes that satisfy DeltaAssumption.                 *)
EXTENDS UrlStatCache, UrlStatMapProofs

-----------------------------------------------------------------------------
(* Constants. *)

(* The stat that add() builds, and an expired one, are stats. *)
LEMMA StatsOK ==
  /\ \A us \in UrlStat : Expired(us) \in UrlStat
  /\ \A us \in UrlStat : Refreshed(us) \in Data
  /\ SettingTypes => \A d \in Data : Stamped(d) \in UrlStat
<1>1. \A us \in UrlStat : Expired(us) \in UrlStat
  BY DEF UrlStat, Expired, Stamps
<1>2. \A us \in UrlStat : Refreshed(us) \in Data
  BY TimeAssumption DEF UrlStat, Refreshed, Data
<1>3. ASSUME SettingTypes, NEW d \in Data
      PROVE  Stamped(d) \in UrlStat
  <2>1. now + m_expire_sec \in Stamps
    BY <1>3 DEF SettingTypes, Stamps
  <2> QED  BY <2>1 DEF Stamped, UrlStat, Data
<1> QED  BY <1>1, <1>2, <1>3

(* Settings are size_t's, chunks are positive, and there are fewer paths   *)
(* than a size_t can count, even with a chunk on top.                      *)
LEMMA SizesOK ==
  /\ SizeModulus \in Nat \ {0}
  /\ 0 \in SizeT
  /\ MaxSettings \subseteq SizeT
  /\ Cardinality(Paths) \in SizeT
  /\ \A s \in SizeT : /\ Delta(s) \in SizeT
                      /\ Delta(s) >= 1
                      /\ Cardinality(Paths) + Delta(s) < SizeModulus
<1>1. SizeModulus \in Nat \ {0} /\ 0 \in SizeT
  BY ModulusAssumption DEF SizeT
<1>2. MaxSettings \subseteq SizeT
  BY SettingsAssumption DEF Settings, SizeT
<1>3. Cardinality(Paths) \in Nat
  BY PathsAssumption, FS_CardinalityType
<1> QED
  BY <1>1, <1>2, <1>3, DeltaAssumption DEF SizeT

(* A reduced sum or difference of two size_t's is a size_t. *)
LEMMA WrapOK ==
  ASSUME NEW x \in SizeT, NEW y \in SizeT
  PROVE  Wrap(x - y) \in SizeT /\ Wrap(x + y) \in SizeT
BY SizesOK DEF SizeT, Wrap

(* The map never holds more keys than there are paths. *)
LEMMA MapSize ==
  ASSUME NEW map, MapOf(map, Paths, UrlStat)
  PROVE  /\ IsFiniteSet(Keys(map))
         /\ Size(map) \in SizeT
         /\ Size(map) <= Cardinality(Paths)
<1>1. Keys(map) \in SUBSET Paths
  BY DEF MapOf
<1>2. /\ IsFiniteSet(Keys(map))
      /\ Cardinality(Keys(map)) <= Cardinality(Paths)
  BY <1>1, PathsAssumption, FS_Subset
<1>3. Cardinality(Keys(map)) \in Nat
  BY <1>2, FS_CardinalityType
<1> QED  BY <1>2, <1>3, SizesOK DEF Size, SizeT

-----------------------------------------------------------------------------
(* Types. *)

(* Every step keeps the types of all variables. *)
LEMMA TypeStep ==
  ASSUME TypeOK, [Next]_vars
  PROVE  TypeOK'
<1> USE DEF TypeOK
<1>1. ASSUME UNCHANGED vars
      PROVE  TypeOK'
  BY <1>1 DEF vars, MapTypes, SettingTypes, ClientTypes, CleanerTypes
<1>2. ASSUME NEW c \in Clients, NEW p \in Paths, NEW d \in Data,
             CallAdd(c, p, d)
      PROVE  TypeOK'
  <2>1. [path |-> p, us |-> Stamped(d)] \in Call
    BY StatsOK DEF Call
  <2>2. ClientTypes'
    BY <1>2, <2>1 DEF CallAdd, ClientTypes
  <2> QED  BY <1>2, <2>2 DEF CallAdd, MapTypes, SettingTypes, CleanerTypes,
              settings, cleanerVars
<1>3. ASSUME NEW c \in Clients, NEW p \in Paths, Lookup(c, p)
      PROVE  TypeOK'
  <2>1. [path |-> p, us |-> m_stats.tree[p]] \in Call
    BY <1>3 DEF Lookup, Finds, Call, MapTypes, MapOf
  <2>2. ClientTypes'
    BY <1>3, <2>1 DEF Lookup, ClientTypes
  <2> QED  BY <1>3, <2>2 DEF Lookup, MapTypes, SettingTypes, CleanerTypes,
              settings, cleanerVars
<1>4. ASSUME NEW c \in Clients, Refresh(c)
      PROVE  TypeOK'
  <2>1. req[c] \in Call /\ req[c].us \in UrlStat
    BY <1>4 DEF Refresh, ClientTypes, Call
  <2>2. Stamped(Refreshed(req[c].us)) \in UrlStat
    BY <2>1, StatsOK
  <2>3. [req[c] EXCEPT !.us = Stamped(Refreshed(req[c].us))] \in Call
    BY <2>1, <2>2 DEF Call
  <2>4. ClientTypes'
    BY <1>4, <2>3 DEF Refresh, ClientTypes
  <2> QED  BY <1>4, <2>4 DEF Refresh, MapTypes, SettingTypes, CleanerTypes,
              settings, cleanerVars
<1>5. ASSUME NEW c \in Clients, LockedInsert(c)
      PROVE  TypeOK'
  <2>1. req[c].path \in Paths /\ req[c].us \in UrlStat
    BY <1>5 DEF LockedInsert, ClientTypes, Call
  <2>2. MapTypes'
    BY <1>5, <2>1, InsertOK DEF LockedInsert, MapTypes
  <2>3. ClientTypes'
    BY <1>5 DEF LockedInsert, ClientTypes
  <2> QED  BY <1>5, <2>2, <2>3 DEF LockedInsert, SettingTypes, CleanerTypes,
              settings, cleanerVars
<1>6. ASSUME NEW c \in Clients, Alarm(c)
      PROVE  TypeOK'
  BY <1>6 DEF Alarm, MapTypes, SettingTypes, ClientTypes, CleanerTypes,
     settings, cleanerVars
<1>7. ASSUME NEW c \in Clients, NEW p \in Paths, RemovePath(c, p)
      PROVE  TypeOK'
  <2>1. MapTypes'
    BY <1>7, StatsOK, RemoveOK DEF RemovePath, MapTypes
  <2> QED  BY <1>7, <2>1 DEF RemovePath, SettingTypes, ClientTypes,
              CleanerTypes, settings, clientVars, cleanerVars
<1>8. ASSUME SettingNext
      PROVE  TypeOK'
  BY <1>8 DEF SettingNext, SetExpire, SetMaxEntries, MapTypes, SettingTypes,
     ClientTypes, CleanerTypes, clientVars, cleanerVars
<1>9. ASSUME Tick
      PROVE  TypeOK'
  <2>1. (now + 1) \in 1..MaxTime
    BY <1>9, TimeAssumption DEF Tick, SettingTypes
  <2> QED  BY <1>9, <2>1 DEF Tick, MapTypes, SettingTypes, ClientTypes,
              CleanerTypes, settings, clientVars, cleanerVars
<1>10. ASSUME CleanerNext
       PROVE  TypeOK'
  <2> USE DEF SettingTypes, ClientTypes, settings, clientVars, trimLocals
  <2>1. CASE LoopTest \/ SleepEnds \/ DeliverSignal
    BY <2>1 DEF LoopTest, SleepEnds, DeliverSignal, MapTypes, CleanerTypes
  <2>2. CASE ReadSize
    BY <2>2, MapSize DEF ReadSize, MapTypes, CleanerTypes
  <2>3. m_max_entries \in SizeT /\ 0 \in SizeT
    BY SizesOK
  <2>4. Wrap(seen - m_max_entries) \in SizeT
    BY <2>3, WrapOK DEF CleanerTypes
  <2>5. StartChunks(m_max_entries) =>
          /\ sub' \in SizeT /\ delta' \in SizeT /\ b' \in SizeT
          /\ limit' \in SizeT /\ cpc' = "chunk"
    BY <2>3, <2>4, SizesOK DEF StartChunks
  <2>6. CASE ReadMax
    BY <2>3, <2>5, <2>6 DEF ReadMax, MapTypes, CleanerTypes
  <2>7. CASE TrimChunk
    <3>1. delta \in Nat
      BY SizesOK DEF CleanerTypes, SizeT
    <3>2. MapTypes'
      BY <2>7, <3>1, TrimOK DEF TrimChunk, MapTypes
    <3>3. Wrap(b + delta) \in SizeT
      BY WrapOK DEF CleanerTypes
    <3> QED  BY <2>7, <3>2, <3>3 DEF TrimChunk, CleanerTypes
  <2>8. CASE ChunksDone
    BY <2>3, <2>8 DEF ChunksDone, MapTypes, CleanerTypes
  <2> QED  BY <1>10, <2>1, <2>2, <2>6, <2>7, <2>8
           DEF CleanerNext, CleanerStep
<1>11. ASSUME StopperNext
       PROVE  TypeOK'
  BY <1>11 DEF StopperNext, StopFlag, StopKill, StopJoin, MapTypes,
     SettingTypes, ClientTypes, CleanerTypes, settings, clientVars, cleanerVars
<1> QED
  BY <1>1, <1>2, <1>3, <1>4, <1>5, <1>6, <1>7, <1>8, <1>9, <1>10, <1>11
  DEF Next, ClientNext, Terminated

(* Every variable always has its type. *)
THEOREM TypeCorrect == Spec => []TypeOK
<1>1. Init => TypeOK
  <2> SUFFICES ASSUME Init PROVE TypeOK
    OBVIOUS
  <2>1. MapTypes
    BY EmptyMapOK DEF Init, MapTypes
  <2>2. SettingTypes
    <3>1. 1 \in 1..MaxTime
      BY TimeAssumption
    <3>2. DefaultExpire \in ExpireSettings /\ DefaultMax \in MaxSettings
      BY SettingsAssumption, Zenon DEF Settings
    <3> QED  BY <3>1, <3>2 DEF Init, SettingTypes
  <2>3. ClientTypes
    BY DEF Init, ClientTypes
  <2>4. CleanerTypes
    BY SizesOK DEF Init, CleanerTypes
  <2> QED  BY <2>1, <2>2, <2>3, <2>4 DEF TypeOK
<1>2. TypeOK /\ [Next]_vars => TypeOK'
  BY TypeStep
<1> QED  BY <1>1, <1>2, PTL DEF Spec

-----------------------------------------------------------------------------
(* Only three actions write the map, and only one of them deletes. *)
LEMMA MapChange ==
  ASSUME [Next]_vars
  PROVE  \/ m_stats' = m_stats
         \/ \E c \in Clients : LockedInsert(c)
         \/ \E c \in Clients, p \in Paths : RemovePath(c, p)
         \/ TrimChunk
<1>1. CASE UNCHANGED vars
  BY <1>1 DEF vars
<1>2. CASE ClientNext
  BY <1>2 DEF ClientNext, CallAdd, Lookup, Refresh, Alarm
<1>3. CASE SettingNext \/ Tick
  BY <1>3 DEF SettingNext, SetExpire, SetMaxEntries, Tick
<1>4. CASE CleanerNext
  BY <1>4 DEF CleanerNext, CleanerStep, LoopTest, ReadSize, ReadMax,
     ChunksDone, SleepEnds, DeliverSignal
<1>5. CASE StopperNext
  BY <1>5 DEF StopperNext, StopFlag, StopKill, StopJoin
<1> QED  BY <1>1, <1>2, <1>3, <1>4, <1>5 DEF Next, Terminated

-----------------------------------------------------------------------------
(* The list and the map. *)

(* The FIFO list of iterators always lists the keys of the map, each once. *)
THEOREM ListMatchesMapAlways == Spec => []ListMatchesMap
<1>1. Init => ListMatchesMap
  BY EmptyMapOK DEF Init, ListMatchesMap
<1>2. TypeOK /\ ListMatchesMap /\ [Next]_vars => ListMatchesMap'
  <2> SUFFICES ASSUME TypeOK, ListMatchesMap, [Next]_vars
               PROVE  ListMatchesMap'
    OBVIOUS
  <2> USE DEF ListMatchesMap
  <2>1. CASE m_stats' = m_stats
    BY <2>1
  <2>2. ASSUME NEW c \in Clients, LockedInsert(c)
        PROVE  ListMatchesMap'
    <3>1. req[c].path \in Paths /\ req[c].us \in UrlStat
      BY <2>2 DEF LockedInsert, TypeOK, ClientTypes, Call
    <3> QED  BY <2>2, <3>1, InsertOK DEF LockedInsert, TypeOK, MapTypes
  <2>3. ASSUME NEW c \in Clients, NEW p \in Paths, RemovePath(c, p)
        PROVE  ListMatchesMap'
    BY <2>3, StatsOK, RemoveOK DEF RemovePath
  <2>4. ASSUME TrimChunk
        PROVE  ListMatchesMap'
    <3>1. delta \in Nat
      BY SizesOK DEF TypeOK, CleanerTypes, SizeT
    <3> QED  BY <2>4, <3>1, TrimOK DEF TrimChunk, TypeOK, MapTypes
  <2> QED  BY <2>1, <2>2, <2>3, <2>4, MapChange
<1> QED  BY <1>1, <1>2, TypeCorrect, PTL DEF Spec

-----------------------------------------------------------------------------
(* The limit. *)

(* A step that is not a chunk of trim() never makes the map smaller. *)
LEMMA OnlyChunksShrink ==
  ASSUME TypeOK, TypeOK', [Next]_vars, ~ TrimChunk
  PROVE  Size(m_stats) <= Size(m_stats')
<1>1. /\ IsFiniteSet(Keys(m_stats')) /\ Size(m_stats) \in Int
  BY MapSize DEF TypeOK, SizeT, MapTypes
<1>2. SUFFICES Keys(m_stats) \subseteq Keys(m_stats')
  BY <1>1, FS_Subset DEF Size
<1>3. ASSUME NEW c \in Clients, LockedInsert(c)
      PROVE  Keys(m_stats) \subseteq Keys(m_stats')
  <2>1. req[c].path \in Paths /\ req[c].us \in UrlStat
    BY <1>3 DEF LockedInsert, TypeOK, ClientTypes, Call
  <2> QED  BY <1>3, <2>1, InsertOK DEF LockedInsert, TypeOK, MapTypes
<1>4. ASSUME NEW c \in Clients, NEW p \in Paths, RemovePath(c, p)
      PROVE  Keys(m_stats) \subseteq Keys(m_stats')
  BY <1>4, StatsOK, RemoveOK DEF RemovePath
<1> QED  BY <1>3, <1>4, MapChange

(* TrimRound is inductive. *)
LEMMA TrimRoundStep ==
  ASSUME ~ RereadsBounds, TypeOK, TypeOK', TrimRound, [Next]_vars
  PROVE  TrimRound'
<1>1. /\ Size(m_stats) \in Nat /\ Size(m_stats') \in Nat
      /\ Size(m_stats) <= Cardinality(Paths)
      /\ Cardinality(Paths) \in Nat
  BY MapSize, SizesOK DEF TypeOK, SizeT, MapTypes
<1>2. ASSUME ~ TrimChunk
      PROVE  Size(m_stats) <= Size(m_stats')
  BY <1>2, OnlyChunksShrink
<1>3. CASE TrimChunk
  <2>1. /\ cpc = "chunk" /\ b < sub
        /\ UNCHANGED <<cpc, seen, sub, delta, limit>>
        /\ m_stats' = Trim(m_stats, delta) /\ b' = Wrap(b + delta)
    BY <1>3 DEF TrimChunk, MoreChunks
  <2>2. /\ sub \in SizeT /\ limit \in Nat /\ b \in Nat /\ seen \in Nat
        /\ delta = Delta(sub) /\ delta \in Nat
        /\ Cardinality(Paths) + delta < SizeModulus
        /\ SizeModulus \in Nat
    BY <2>1, SizesOK DEF TypeOK, CleanerTypes, TrimRound, SizeT
  <2>3. sub + limit = seen /\ seen <= Size(m_stats) + b
        /\ seen <= Cardinality(Paths)
    BY <2>1 DEF TrimRound
  <2>4. sub \in Nat /\ b < Cardinality(Paths)
    BY <1>1, <2>1, <2>2, <2>3 DEF SizeT
  <2>5. b' = b + delta
    BY <1>1, <2>1, <2>2, <2>4 DEF Wrap
  <2>6. Size(m_stats') >= Size(m_stats) - delta
    BY <2>1, <2>2, TrimSize, MapSize DEF TypeOK, MapTypes
  <2>7. seen <= Size(m_stats') + b'
    BY <1>1, <2>2, <2>3, <2>5, <2>6
  <2> QED  BY <2>1, <2>2, <2>3, <2>7 DEF TrimRound
<1>4. CASE Size(m_stats) <= Size(m_stats')
  <2>1. CASE UNCHANGED cleanerVars
    <3>1. /\ UNCHANGED <<cpc, seen, sub, delta, b, limit>>
          /\ seen \in Int /\ b \in Int
      BY <2>1 DEF cleanerVars, TypeOK, CleanerTypes, SizeT
    <3>2. Cardinality(Paths)' = Cardinality(Paths)
      OBVIOUS
    <3> QED  BY <1>1, <1>4, <3>1 DEF TrimRound
  <2>2. CASE LoopTest \/ SleepEnds \/ ChunksDone
    BY <2>2 DEF LoopTest, SleepEnds, ChunksDone, TrimRound
  <2>3. CASE DeliverSignal
    <3>1. /\ cpc' = IF cpc = "sleep" THEN "loop" ELSE cpc
          /\ UNCHANGED <<m_stats, seen, sub, delta, b, limit>>
      BY <2>3 DEF DeliverSignal, trimLocals
    <3> QED  BY <3>1 DEF TrimRound
  <2>4. CASE ReadSize
    BY <1>1, <2>4 DEF ReadSize, TrimRound
  <2>5. CASE ReadMax
    <3>1. cpc = "max" /\ m_stats' = m_stats
      BY <2>5 DEF ReadMax, TrimRound
    <3>2. CASE OverLimit
      <4>1. StartChunks(m_max_entries) /\ seen' = seen
        BY <2>5, <3>1, <3>2 DEF ReadMax
      <4>2. /\ seen \in SizeT /\ m_max_entries \in SizeT
            /\ seen > m_max_entries /\ SizeModulus \in Nat
        BY <3>2, SizesOK DEF OverLimit, TypeOK, CleanerTypes, SettingTypes
      <4>3. Wrap(seen - m_max_entries) = seen - m_max_entries
        BY <4>2 DEF Wrap, SizeT
      <4>4. /\ cpc' = "chunk" /\ b' = 0 /\ limit' = m_max_entries
            /\ sub' = seen - m_max_entries /\ delta' = Delta(sub')
        BY <4>1, <4>3 DEF StartChunks
      <4>5. seen <= Size(m_stats) /\ seen <= Cardinality(Paths)
        BY <3>1 DEF TrimRound
      <4>6. sub' + limit' = seen' /\ seen' <= Size(m_stats') + b'
        BY <1>1, <3>1, <4>1, <4>2, <4>4, <4>5 DEF SizeT
      <4> QED  BY <4>1, <4>4, <4>5, <4>6 DEF TrimRound
    <3>3. CASE ~ OverLimit
      BY <2>5, <3>1, <3>3 DEF ReadMax, TrimRound
    <3> QED  BY <3>2, <3>3
  <2>6. CASE ~ CleanerNext
    BY <2>1, <2>6 DEF Next, vars, cleanerVars, ClientNext, CallAdd, Lookup,
       Refresh, LockedInsert, Alarm, RemovePath, SettingNext, SetExpire,
       SetMaxEntries, Tick, StopperNext, StopFlag, StopKill, StopJoin,
       Terminated
  <2> QED  BY <1>3, <2>2, <2>3, <2>4, <2>5, <2>6
           DEF CleanerNext, CleanerStep
<1> QED  BY <1>2, <1>3, <1>4

(* A build that reads each bound once deletes only while the map is larger *)
(* than the limit it read, whatever the other threads do meanwhile.        *)
THEOREM TrimStops ==
  ASSUME ~ RereadsBounds
  PROVE  Spec => []TrimStopsAtThreshold
<1>1. Init => TrimRound
  BY DEF Init, TrimRound
<1>2. TypeOK /\ TypeOK' /\ TrimRound /\ [Next]_vars => TrimRound'
  BY TrimRoundStep
<1>3. TypeOK /\ TrimRound => TrimStopsAtThreshold
  <2> SUFFICES ASSUME TypeOK, TrimRound, cpc = "chunk", b < sub
               PROVE  Size(m_stats) > limit
    BY DEF TrimStopsAtThreshold, MoreChunks
  <2>1. sub + limit = seen /\ seen <= Size(m_stats) + b
    BY DEF TrimRound
  <2>2. /\ Size(m_stats) \in Int /\ sub \in Int /\ limit \in Int
        /\ b \in Int /\ seen \in Int
    BY MapSize DEF TypeOK, MapTypes, CleanerTypes, SizeT
  <2> QED  BY <2>1, <2>2
<1> QED  BY <1>1, <1>2, <1>3, TypeCorrect, PTL DEF Spec

-----------------------------------------------------------------------------
(* Refinement. *)

(* Every step of the cache stores, evicts, or leaves order and data alone. *)
LEMMA FifoStep ==
  ASSUME TypeOK, TypeOK', [Next]_vars
  PROVE  [Fifo!Next]_(Fifo!vars)
<1> USE DEF TypeOK, MapTypes
<1>1. CASE m_stats' = m_stats
  BY <1>1 DEF Fifo!vars, Held, Keys
<1>2. ASSUME NEW c \in Clients, LockedInsert(c)
      PROVE  Fifo!Next
  <2> DEFINE p == req[c].path
             us == req[c].us
  <2>1. p \in Paths /\ us \in UrlStat /\ m_stats' = Insert(m_stats, p, us)
    BY <1>2 DEF LockedInsert, ClientTypes, Call
  <2>2. DataOf(us) \in Data
    BY <2>1 DEF DataOf, UrlStat, Data
  <2> HIDE DEF p, us
  <2>3. /\ m_stats'.tree = [q \in Keys(m_stats) \cup {p} |->
                              IF q = p THEN us ELSE m_stats.tree[q]]
        /\ m_stats'.m_entries = IF p \in Keys(m_stats) THEN m_stats.m_entries
                                ELSE Append(m_stats.m_entries, p)
    BY <2>1 DEF Insert, EntriesWith, IsNew
  <2>4. Keys(m_stats') = Keys(m_stats) \cup {p}
    BY <2>1, InsertOK
  <2>5. DOMAIN Held = Keys(m_stats)
    BY DEF Held
  <2>6. Held' = [q \in Keys(m_stats) \cup {p} |->
                   IF q = p THEN DataOf(us) ELSE Held[q]]
    BY <2>3, <2>4 DEF Held
  <2>7. Fifo!Store(p, DataOf(us))
    BY <2>3, <2>5, <2>6 DEF Fifo!Store
  <2> QED  BY <2>1, <2>2, <2>7 DEF Fifo!Next
<1>3. ASSUME NEW c \in Clients, NEW p \in Paths, RemovePath(c, p)
      PROVE  UNCHANGED Fifo!vars
  <2>1. /\ m_stats'.m_entries = m_stats.m_entries
        /\ m_stats'.tree = [q \in Keys(m_stats) |->
                 IF q = p THEN Expired(m_stats.tree[q]) ELSE m_stats.tree[q]]
    BY <1>3 DEF RemovePath, Remove
  <2>2. \A us \in UrlStat : DataOf(Expired(us)) = DataOf(us)
    BY DEF DataOf, Expired, UrlStat
  <2>3. \A q \in Keys(m_stats) :
          DataOf(m_stats'.tree[q]) = DataOf(m_stats.tree[q])
    BY <2>1, <2>2 DEF MapOf
  <2>4. Keys(m_stats') = Keys(m_stats)
    BY <2>1 DEF Keys
  <2>5. Held' = Held
    BY <2>3, <2>4 DEF Held
  <2> QED  BY <2>1, <2>5 DEF Fifo!vars
<1>4. ASSUME TrimChunk
      PROVE  [Fifo!Next]_(Fifo!vars)
  <2> DEFINE k == TrimCount(m_stats, delta)
             e == m_stats.m_entries
  <2>1. delta \in Nat /\ m_stats' = Trim(m_stats, delta)
    BY <1>4, SizesOK DEF TrimChunk, CleanerTypes, SizeT
  <2>2. /\ k \in 0..Len(e)
        /\ Keys(m_stats') = Keys(m_stats) \ Oldest(m_stats, k)
        /\ m_stats'.m_entries = SubSeq(e, k + 1, Len(e))
    <3> DEFINE m == Trim(m_stats, delta)
    <3>1. MapOf(m_stats, Paths, UrlStat)
      OBVIOUS
    <3>2. k \in 0..Len(e)
      BY <2>1, <3>1, TrimOK
    <3>3. Keys(m) = Keys(m_stats) \ Oldest(m_stats, k)
      BY DEF Trim, Keys
    <3>4. m.m_entries = SubSeq(e, k + 1, Len(e))
      BY DEF Trim
    <3> QED  BY <2>1, <3>2, <3>3, <3>4
  <2>3. m_stats'.tree
          = [q \in Keys(m_stats) \ Oldest(m_stats, k) |-> m_stats.tree[q]]
    BY <2>1 DEF Trim
  <2>4. e \in Seq(Paths) /\ Len(e) \in Nat
    BY DEF MapOf
  <2> HIDE DEF k
  <2>5. Held' = [q \in DOMAIN Held \ Oldest(m_stats, k) |-> Held[q]]
    BY <2>2, <2>3 DEF Held
  <2>6. CASE k = 0
    <3>1. Oldest(m_stats, k) = {}
      BY <2>6 DEF Oldest
    <3>2. SubSeq(e, k + 1, Len(e)) = e
      BY <2>4, <2>6
    <3>3. Held' = Held
      BY <2>5, <3>1 DEF Held
    <3> QED  BY <2>2, <3>2, <3>3 DEF Fifo!vars
  <2>7. CASE k # 0
    <3>1. k \in 1..Len(e)
      BY <2>2, <2>4, <2>7
    <3>2. Fifo!Evict(k)
      BY <2>2, <2>5 DEF Fifo!Evict, Oldest
    <3> QED  BY <3>1, <3>2 DEF Fifo!Next
  <2> QED  BY <2>6, <2>7
<1> QED  BY <1>1, <1>2, <1>3, <1>4, MapChange

(* The concurrent cache implements the sequential FIFO. *)
THEOREM CacheIsFifo == Spec => ImplementsFifo
<1>1. Init => Fifo!Init
  <2> SUFFICES ASSUME Init
               PROVE  m_stats.m_entries = << >> /\ Held = [p \in {} |-> 0]
    BY DEF Fifo!Init
  <2>1. Keys(m_stats) = {} /\ m_stats.m_entries = << >>
    BY DEF Init, EmptyMap, Keys
  <2> QED  BY <2>1 DEF Held
<1>2. TypeOK /\ TypeOK' /\ [Next]_vars => [Fifo!Next]_(Fifo!vars)
  BY FifoStep
<1> QED  BY <1>1, <1>2, TypeCorrect, PTL DEF Spec, ImplementsFifo, Fifo!Spec
=============================================================================
