------------------------- MODULE CacheHistoryProofs --------------------------
(* Theorems about CacheHistory, for any clients, paths and settings, and   *)
(* for both builds of trim().                                              *)
EXTENDS CacheHistory, UrlStatCacheProofs

-----------------------------------------------------------------------------
(* The history variables restrict nothing. *)

(* A step with history is a step of the cache. *)
LEMMA HStepIsStep ==
  ASSUME [HNext]_hvars
  PROVE  [Next]_vars
<1>1. CASE UNCHANGED hvars
  BY <1>1 DEF hvars
<1>2. ASSUME NEW c \in Clients, NEW p \in Paths, NEW d \in Data,
             HCallAdd(c, p, d)
      PROVE  Next
  BY <1>2 DEF HCallAdd, Next, ClientNext
<1>3. ASSUME NEW c \in Clients, HRefresh(c)
      PROVE  Next
  BY <1>3 DEF HRefresh, Next, ClientNext
<1>4. ASSUME NEW c \in Clients, NEW p \in Paths, HRemove(c, p)
      PROVE  Next
  BY <1>4 DEF HRemove, Next, ClientNext
<1>5. ASSUME HOther
      PROVE  Next
  BY <1>5 DEF HOther, Next, ClientNext
<1> QED  BY <1>1, <1>2, <1>3, <1>4, <1>5 DEF HNext

(* So whatever holds of the cache holds of the cache with its history.     *)
THEOREM HistoryOnlyRecords == HSpec => Spec
<1>1. HInit => Init
  BY DEF HInit
<1>2. [HNext]_hvars => [Next]_vars
  BY HStepIsStep
<1> QED  BY <1>1, <1>2, PTL DEF HSpec, Spec

-----------------------------------------------------------------------------
(* What a step can do to the entries and to the calls under way. *)

Busy(c) == pc[c] \in {"refresh", "insert"}

(* No call begins, and none goes on. *)
CallsStay ==
  /\ req' = req
  /\ \A c \in Clients : Busy(c)' <=> Busy(c)
  /\ \A c \in Clients : Busy(c) => pc'[c] = pc[c]

(* A step is one of five on entries or calls, or touches neither.          *)
LEMMA HSteps ==
  ASSUME TypeOK, [HNext]_hvars
  PROVE  \/ \E c \in Clients, p \in Paths, d \in Data : HCallAdd(c, p, d)
         \/ \E c \in Clients : HRefresh(c)
         \/ \E c \in Clients, p \in Paths : HRemove(c, p)
         \/ \E c \in Clients, p \in Paths : Lookup(c, p) /\ UNCHANGED history
         \/ \E c \in Clients : LockedInsert(c) /\ UNCHANGED history
         \/ TrimChunk /\ CallsStay /\ UNCHANGED <<now, history>>
         \/ CallsStay /\ UNCHANGED <<m_stats, history>> /\ now' >= now
<1> USE DEF TypeOK, ClientTypes, SettingTypes
<1>1. now \in Int /\ pc \in [Clients -> {"idle", "refresh", "insert", "alarm"}]
  OBVIOUS
<1>2. CASE UNCHANGED hvars
  BY <1>1, <1>2 DEF hvars, vars, CallsStay, Busy
<1>3. ASSUME NEW c \in Clients, Alarm(c), UNCHANGED history
      PROVE  CallsStay /\ UNCHANGED <<m_stats, history>> /\ now' >= now
  BY <1>1, <1>3 DEF Alarm, CallsStay, Busy
<1>4. ASSUME SettingNext \/ Tick, UNCHANGED history
      PROVE  CallsStay /\ UNCHANGED <<m_stats, history>> /\ now' >= now
  BY <1>1, <1>4 DEF SettingNext, SetExpire, SetMaxEntries, Tick, clientVars,
     CallsStay, Busy
<1>5. ASSUME StopperNext \/ Terminated, UNCHANGED history
      PROVE  CallsStay /\ UNCHANGED <<m_stats, history>> /\ now' >= now
  BY <1>1, <1>5 DEF StopperNext, StopFlag, StopKill, StopJoin, Terminated,
     vars, clientVars, CallsStay, Busy
<1>6. ASSUME TrimChunk, UNCHANGED history
      PROVE  CallsStay /\ UNCHANGED <<now, history>>
  BY <1>6 DEF TrimChunk, clientVars, CallsStay, Busy
<1>7. ASSUME CleanerNext, ~ TrimChunk, UNCHANGED history
      PROVE  CallsStay /\ UNCHANGED <<m_stats, history>> /\ now' >= now
  BY <1>1, <1>7 DEF CleanerNext, CleanerStep, LoopTest, ReadSize, ReadMax,
     ChunksDone, SleepEnds, DeliverSignal, clientVars, CallsStay, Busy
<1> QED  BY <1>2, <1>3, <1>4, <1>5, <1>6, <1>7 DEF HNext, HOther

(* The entries after an insert, a removal and a chunk of trim().           *)
LEMMA InsertedEntries ==
  ASSUME TypeOK, NEW c \in Clients, LockedInsert(c)
  PROVE  /\ req[c].path \in Paths /\ req[c].us \in UrlStat
         /\ Keys(m_stats') = Keys(m_stats) \cup {req[c].path}
         /\ \A p \in Keys(m_stats') :
              m_stats'.tree[p] = IF p = req[c].path THEN req[c].us
                                 ELSE m_stats.tree[p]
<1>1. req[c].path \in Paths /\ req[c].us \in UrlStat
  BY DEF LockedInsert, TypeOK, ClientTypes, Call
<1>2. m_stats' = Insert(m_stats, req[c].path, req[c].us)
  BY DEF LockedInsert
<1> QED  BY <1>1, <1>2 DEF Insert, Keys

LEMMA RemovedEntries ==
  ASSUME NEW c \in Clients, NEW p \in Paths, RemovePath(c, p)
  PROVE  /\ Keys(m_stats') = Keys(m_stats)
         /\ \A q \in Keys(m_stats) :
              m_stats'.tree[q] = IF q = p THEN Expired(m_stats.tree[q])
                                 ELSE m_stats.tree[q]
BY DEF RemovePath, Remove, Keys

LEMMA TrimmedEntries ==
  ASSUME TrimChunk
  PROVE  /\ Keys(m_stats') \subseteq Keys(m_stats)
         /\ \A p \in Keys(m_stats') : m_stats'.tree[p] = m_stats.tree[p]
BY DEF TrimChunk, Trim, Keys

(* Every entry has a stat, and Expired() changes only its expiry.          *)
LEMMA EntryTypes ==
  ASSUME TypeOK
  PROVE  /\ Keys(m_stats) \subseteq Paths
         /\ \A p \in Keys(m_stats) :
              /\ m_stats.tree[p] \in UrlStat
              /\ Expired(m_stats.tree[p]).attr = m_stats.tree[p].attr
              /\ Expired(m_stats.tree[p]).mtime = m_stats.tree[p].mtime
              /\ Expired(m_stats.tree[p]).expire = 0
BY DEF TypeOK, MapTypes, MapOf, Keys, UrlStat, Expired

-----------------------------------------------------------------------------
(* Nothing is served that was not added. *)

OfferedType == offered \in [Paths -> SUBSET Data]

(* What was offered stays so. *)
LEMMA OfferedStep ==
  ASSUME TypeOK, OfferedType, [HNext]_hvars
  PROVE  /\ OfferedType'
         /\ \A p \in Paths : offered[p] \subseteq offered'[p]
         /\ \A p \in Paths : \A us : WasOffered(p, us) => WasOffered(p, us)'
<1>1. OfferedType' /\ \A p \in Paths : offered[p] \subseteq offered'[p]
  <2>1. ASSUME NEW c \in Clients, NEW p \in Paths, NEW d \in Data,
               HCallAdd(c, p, d)
        PROVE  OfferedType' /\ \A q \in Paths : offered[q] \subseteq offered'[q]
    BY <2>1 DEF HCallAdd, OfferedType
  <2>2. CASE UNCHANGED offered
    BY <2>2 DEF OfferedType
  <2> QED  BY <2>1, <2>2, HSteps DEF HRefresh, HRemove, history
<1> QED  BY <1>1 DEF WasOffered

(* A chain of copies: a call takes what add() was given, or what an entry  *)
(* holds and loses at most its mtime; an entry takes what a call has.      *)
LEMMA ServedStep ==
  ASSUME TypeOK, OfferedType, ServedWasOffered, [HNext]_hvars
  PROVE  ServedWasOffered'
<1> DEFINE EntriesOK == \A p \in Keys(m_stats) : WasOffered(p, m_stats.tree[p])
           CallsOK == \A c \in Clients :
                        Busy(c) => WasOffered(req[c].path, req[c].us)
<1>1. EntriesOK /\ CallsOK
  BY DEF ServedWasOffered, Busy
<1>2. SUFFICES EntriesOK' /\ CallsOK'
  BY DEF ServedWasOffered, Busy
<1>3. /\ Keys(m_stats) \subseteq Paths
      /\ \A p \in Paths : \A us : WasOffered(p, us) => WasOffered(p, us)'
      /\ \A c \in Clients : Busy(c) => req[c] \in Call
  BY EntryTypes, OfferedStep DEF Busy, TypeOK, ClientTypes
<1>4. m_stats' = m_stats => EntriesOK'
  BY <1>1, <1>3
<1>5. CallsStay => CallsOK'
  BY <1>1, <1>3 DEF CallsStay, Call
<1>6. ASSUME NEW k \in Clients, \A c \in Clients \ {k} :
                pc'[c] = pc[c] /\ req'[c] = req[c],
             Busy(k)' => WasOffered(req[k].path, req[k].us)'
      PROVE  CallsOK'
  BY <1>1, <1>3, <1>6 DEF Busy, Call
<1>7. ASSUME NEW c \in Clients, NEW p \in Paths, NEW d \in Data,
             HCallAdd(c, p, d)
      PROVE  EntriesOK' /\ CallsOK'
  <2>1. /\ m_stats' = m_stats
        /\ \A o \in Clients \ {c} : pc'[o] = pc[o] /\ req'[o] = req[o]
        /\ req'[c] = [path |-> p, us |-> Stamped(d)]
        /\ d \in offered'[p]
    BY <1>7 DEF HCallAdd, CallAdd, TypeOK, ClientTypes, OfferedType
  <2>2. WasOffered(req[c].path, req[c].us)'
    BY <2>1 DEF WasOffered, Stamped
  <2> QED  BY <1>4, <1>6, <2>1, <2>2
<1>8. ASSUME NEW c \in Clients, HRefresh(c)
      PROVE  EntriesOK' /\ CallsOK'
  <2>1. /\ m_stats' = m_stats /\ Busy(c)
        /\ \A o \in Clients \ {c} : pc'[o] = pc[o] /\ req'[o] = req[o]
        /\ req'[c] = [req[c] EXCEPT !.us = Stamped(Refreshed(req[c].us))]
    BY <1>8 DEF HRefresh, Refresh, Busy, TypeOK, ClientTypes
  <2>2. /\ req'[c].path = req[c].path /\ req[c].path \in Paths
        /\ req'[c].us.attr = req[c].us.attr /\ req'[c].us.mtime = 0
    BY <1>3, <2>1 DEF Call, Stamped, Refreshed
  <2>3. WasOffered(req[c].path, req[c].us)'
    BY <1>1, <1>3, <2>1, <2>2 DEF WasOffered
  <2> QED  BY <1>4, <1>6, <2>1, <2>3
<1>9. ASSUME NEW c \in Clients, NEW p \in Paths, HRemove(c, p)
      PROVE  EntriesOK' /\ CallsOK'
  <2>1. RemovePath(c, p) /\ CallsStay
    BY <1>9 DEF HRemove, RemovePath, CallsStay, Busy, clientVars
  <2>2. EntriesOK'
    BY <1>1, <1>3, <2>1, RemovedEntries, EntryTypes DEF WasOffered
  <2> QED  BY <1>5, <2>1, <2>2
<1>10. ASSUME NEW c \in Clients, NEW p \in Paths, Lookup(c, p)
       PROVE  EntriesOK' /\ CallsOK'
  <2>1. /\ m_stats' = m_stats /\ p \in Keys(m_stats)
        /\ \A o \in Clients \ {c} : pc'[o] = pc[o] /\ req'[o] = req[o]
        /\ req'[c] = [path |-> p, us |-> m_stats.tree[p]]
    BY <1>10 DEF Lookup, Finds, TypeOK, ClientTypes
  <2>2. WasOffered(req[c].path, req[c].us)'
    BY <1>1, <1>3, <2>1
  <2> QED  BY <1>4, <1>6, <2>1, <2>2
<1>11. ASSUME NEW c \in Clients, LockedInsert(c)
       PROVE  EntriesOK' /\ CallsOK'
  <2>1. /\ Busy(c) /\ ~ Busy(c)'
        /\ \A o \in Clients \ {c} : pc'[o] = pc[o] /\ req'[o] = req[o]
    BY <1>11 DEF LockedInsert, Busy, TypeOK, ClientTypes
  <2>2. EntriesOK'
    BY <1>1, <1>3, <1>11, <2>1, InsertedEntries
  <2> QED  BY <1>6, <2>1, <2>2
<1>12. ASSUME TrimChunk, CallsStay
       PROVE  EntriesOK' /\ CallsOK'
  <2>1. EntriesOK'
    BY <1>1, <1>3, <1>12, TrimmedEntries
  <2> QED  BY <1>5, <1>12, <2>1
<1> QED
  BY <1>4, <1>5, <1>7, <1>8, <1>9, <1>10, <1>11, <1>12, HSteps

(* What the cache holds, or a hit puts back, was added for that path.      *)
THEOREM ServedWasOfferedAlways == HSpec => []ServedWasOffered
<1>1. HInit => OfferedType /\ ServedWasOffered
  BY EmptyMapOK DEF HInit, Init, OfferedType, ServedWasOffered
<1>2. TypeOK /\ OfferedType /\ ServedWasOffered /\ [HNext]_hvars
        => (OfferedType /\ ServedWasOffered)'
  BY OfferedStep, ServedStep
<1> QED  BY <1>1, <1>2, HistoryOnlyRecords, TypeCorrect, PTL DEF HSpec

-----------------------------------------------------------------------------
(* Entries expire. *)

(* The bound that IdleEntryExpires sets for entries holds of what a call   *)
(* is about to insert, too; and no stamp is later than now.                *)
Bounded ==
  /\ touched \in [Paths -> Nat]
  /\ \A p \in Paths : touched[p] <= now
  /\ IdleEntryExpires
  /\ \A c \in Clients :
       pc[c] = "insert" => StampedWithin(req[c].path, req[c].us)

(* Neither the clock nor a stamp goes back. *)
LEMMA TouchedStep ==
  ASSUME TypeOK, Bounded, [HNext]_hvars
  PROVE  /\ touched' \in [Paths -> Nat]
         /\ \A p \in Paths : touched[p] <= touched'[p] /\ touched'[p] <= now'
<1>1. now \in Nat /\ \A c \in Clients : Busy(c) => req[c].path \in Paths
  BY TimeAssumption DEF TypeOK, SettingTypes, ClientTypes, Call, Busy
<1>2. ASSUME NEW c \in Clients, NEW p \in Paths, NEW d \in Data,
             HCallAdd(c, p, d)
      PROVE  touched' = [touched EXCEPT ![p] = now] /\ now' = now
  BY <1>2 DEF HCallAdd, CallAdd
<1>3. ASSUME NEW c \in Clients, HRefresh(c)
      PROVE  /\ touched' = [touched EXCEPT ![req[c].path] = now] /\ now' = now
             /\ req[c].path \in Paths
  BY <1>1, <1>3 DEF HRefresh, Refresh, Busy
<1>4. \/ UNCHANGED touched /\ now' >= now /\ now' \in Int
      \/ \E p \in Paths : touched' = [touched EXCEPT ![p] = now] /\ now' = now
  <2>1. now' \in Int
    BY HStepIsStep, TypeStep DEF TypeOK, SettingTypes
  <2> QED  BY <1>1, <1>2, <1>3, <2>1, HSteps
  DEF HRemove, RemovePath, Lookup, LockedInsert, history
<1> QED  BY <1>1, <1>4 DEF Bounded

(* A stamp taken now is within the bound, and the bound only moves on.     *)
LEMMA StampsOK ==
  ASSUME TypeOK, Bounded, [HNext]_hvars
  PROVE  /\ \A p \in Paths, us \in UrlStat :
              StampedWithin(p, us) => StampedWithin(p, us)'
         /\ \A us : \E e \in ExpireSettings : Stamped(us).expire <= now + e
<1>1. ASSUME NEW p \in Paths, NEW us \in UrlStat, StampedWithin(p, us)
      PROVE  StampedWithin(p, us)'
  <2>1. CASE us.expire = 0
    BY <2>1 DEF StampedWithin
  <2>2. ASSUME NEW e \in ExpireSettings, us.expire <= touched[p] + e
        PROVE  us.expire <= touched'[p] + e
    <3>1. e \in Int /\ us.expire \in Int
      BY SettingsAssumption DEF Settings, UrlStat, Stamps
    <3>2. touched[p] \in Nat /\ touched'[p] \in Nat /\ touched[p] <= touched'[p]
      BY TouchedStep DEF Bounded
    <3> QED  BY <2>2, <3>1, <3>2
  <2> QED  BY <1>1, <2>1, <2>2 DEF StampedWithin
<1>2. m_expire_sec \in ExpireSettings /\ now + m_expire_sec \in Int
  BY SettingsAssumption DEF Settings, TypeOK, SettingTypes
<1> QED  BY <1>1, <1>2 DEF Stamped

(* Bounded is inductive: a call stamps its path when it computes an expiry *)
(* and may insert it much later, when others have stamped the path again.  *)
LEMMA BoundedStep ==
  ASSUME TypeOK, Bounded, [HNext]_hvars
  PROVE  Bounded'
<1> DEFINE CallsOK == \A c \in Clients :
                pc[c] = "insert" => StampedWithin(req[c].path, req[c].us)
<1>1. SUFFICES IdleEntryExpires' /\ CallsOK'
  BY TouchedStep DEF Bounded
<1>2. /\ Keys(m_stats) \subseteq Paths
      /\ \A p \in Keys(m_stats) : m_stats.tree[p] \in UrlStat
      /\ \A c \in Clients : Busy(c) => req[c].path \in Paths /\ req[c].us \in UrlStat
      /\ IdleEntryExpires /\ CallsOK
  BY EntryTypes DEF Bounded, TypeOK, ClientTypes, Call, Busy
<1>3. \A p \in Paths, us \in UrlStat :
        StampedWithin(p, us) => StampedWithin(p, us)'
  BY StampsOK
<1>4. m_stats' = m_stats => IdleEntryExpires'
  BY <1>2, <1>3 DEF IdleEntryExpires
<1>5. CallsStay => CallsOK'
  BY <1>2, <1>3 DEF CallsStay, Busy
<1>6. ASSUME NEW k \in Clients, \A c \in Clients \ {k} :
                pc'[c] = pc[c] /\ req'[c] = req[c],
             pc'[k] = "insert" => StampedWithin(req[k].path, req[k].us)'
      PROVE  CallsOK'
  BY <1>2, <1>3, <1>6 DEF Busy
<1>7. ASSUME NEW c \in Clients, NEW p \in Paths, NEW d \in Data,
             HCallAdd(c, p, d)
      PROVE  IdleEntryExpires' /\ CallsOK'
  <2>1. /\ m_stats' = m_stats
        /\ \A o \in Clients \ {c} : pc'[o] = pc[o] /\ req'[o] = req[o]
        /\ req'[c] = [path |-> p, us |-> Stamped(d)]
        /\ touched'[p] = now
    BY <1>7 DEF HCallAdd, CallAdd, TypeOK, ClientTypes, Bounded
  <2>2. StampedWithin(req[c].path, req[c].us)'
    BY <2>1, StampsOK DEF StampedWithin
  <2> QED  BY <1>4, <1>6, <2>1, <2>2
<1>8. ASSUME NEW c \in Clients, HRefresh(c)
      PROVE  IdleEntryExpires' /\ CallsOK'
  <2>1. /\ m_stats' = m_stats /\ Busy(c)
        /\ \A o \in Clients \ {c} : pc'[o] = pc[o] /\ req'[o] = req[o]
        /\ req'[c] = [req[c] EXCEPT !.us = Stamped(Refreshed(req[c].us))]
        /\ touched' = [touched EXCEPT ![req[c].path] = now]
    BY <1>8 DEF HRefresh, Refresh, Busy, TypeOK, ClientTypes
  <2>2. req[c] \in Call /\ req[c].path \in Paths
    BY <2>1 DEF TypeOK, ClientTypes, Call, Busy
  <2>3. req'[c].path = req[c].path /\ req'[c].us = Stamped(Refreshed(req[c].us))
    BY <2>1, <2>2 DEF Call
  <2>4. touched'[req[c].path] = now
    BY <2>1, <2>2 DEF Bounded
  <2>5. StampedWithin(req[c].path, req[c].us)'
    BY <2>3, <2>4, StampsOK DEF StampedWithin
  <2> QED  BY <1>4, <1>6, <2>1, <2>5
<1>9. ASSUME NEW c \in Clients, NEW p \in Paths, HRemove(c, p)
      PROVE  IdleEntryExpires' /\ CallsOK'
  <2>1. RemovePath(c, p) /\ CallsStay
    BY <1>9 DEF HRemove, RemovePath, CallsStay, Busy, clientVars
  <2>2. \A q \in Keys(m_stats) :
          m_stats'.tree[q].expire = 0 \/ m_stats'.tree[q] = m_stats.tree[q]
    BY <2>1, RemovedEntries, EntryTypes
  <2>3. IdleEntryExpires'
    BY <1>2, <1>3, <2>1, <2>2, RemovedEntries DEF IdleEntryExpires, StampedWithin
  <2> QED  BY <1>5, <2>1, <2>3
<1>10. ASSUME NEW c \in Clients, NEW p \in Paths, Lookup(c, p)
       PROVE  IdleEntryExpires' /\ CallsOK'
  <2>1. /\ m_stats' = m_stats /\ pc'[c] = "refresh"
        /\ \A o \in Clients \ {c} : pc'[o] = pc[o] /\ req'[o] = req[o]
    BY <1>10 DEF Lookup, TypeOK, ClientTypes
  <2> QED  BY <1>4, <1>6, <2>1
<1>11. ASSUME NEW c \in Clients, LockedInsert(c)
       PROVE  IdleEntryExpires' /\ CallsOK'
  <2>1. /\ pc[c] = "insert" /\ pc'[c] # "insert"
        /\ \A o \in Clients \ {c} : pc'[o] = pc[o] /\ req'[o] = req[o]
    BY <1>11 DEF LockedInsert, TypeOK, ClientTypes
  <2>2. IdleEntryExpires'
    BY <1>2, <1>3, <1>11, <2>1, InsertedEntries DEF IdleEntryExpires
  <2> QED  BY <1>6, <2>1, <2>2
<1>12. ASSUME TrimChunk, CallsStay
       PROVE  IdleEntryExpires' /\ CallsOK'
  <2>1. IdleEntryExpires'
    BY <1>2, <1>3, <1>12, TrimmedEntries DEF IdleEntryExpires
  <2> QED  BY <1>5, <1>12, <2>1
<1> QED
  BY <1>4, <1>5, <1>7, <1>8, <1>9, <1>10, <1>11, <1>12, HSteps

(* No entry outlives the last call for its path by more than an expiry     *)
(* setting, however late that call comes to insert what it has stamped.    *)
THEOREM IdleEntriesExpire == HSpec => []IdleEntryExpires
<1>1. HInit => Bounded
  BY EmptyMapOK DEF HInit, Init, Bounded, IdleEntryExpires
<1>2. TypeOK /\ Bounded /\ [HNext]_hvars => Bounded'
  BY BoundedStep
<1>3. Bounded => IdleEntryExpires
  BY DEF Bounded
<1> QED  BY <1>1, <1>2, <1>3, HistoryOnlyRecords, TypeCorrect, PTL DEF HSpec

-----------------------------------------------------------------------------
(* What is removed stays away. *)

(* A path removed while no call for it was in flight has no such call, and *)
(* its entry, if it has one still, has expired at time 0.                  *)
StaysRemoved ==
  /\ removed \in [Paths -> {"no", "alone", "raced"}]
  /\ \A p \in Paths : removed[p] = "alone" =>
       /\ ~ InFlight(p)
       /\ p \in Keys(m_stats) => m_stats.tree[p].expire = 0

LEMMA StaysRemovedStep ==
  ASSUME TypeOK, StaysRemoved, [HNext]_hvars
  PROVE  StaysRemoved'
<1>1. /\ Keys(m_stats) \subseteq Paths
      /\ \A c \in Clients : Busy(c) => req[c].path \in Paths
      /\ now \in 1..MaxTime
  BY EntryTypes DEF TypeOK, ClientTypes, SettingTypes, Call, Busy
<1>2. \A p \in Paths : InFlight(p) <=>
        \E c \in Clients : Busy(c) /\ req[c].path = p
  BY DEF InFlight, Busy
<1>3. CallsStay => \A p \in Paths : InFlight(p)' <=> InFlight(p)
  BY DEF CallsStay, Busy, InFlight
<1>4. ASSUME NEW c \in Clients, NEW p \in Paths, NEW d \in Data,
             HCallAdd(c, p, d)
      PROVE  StaysRemoved'
  <2>1. /\ m_stats' = m_stats
        /\ \A o \in Clients \ {c} : pc'[o] = pc[o] /\ req'[o] = req[o]
        /\ req'[c].path = p
        /\ removed' = [removed EXCEPT ![p] = "no"]
    BY <1>4 DEF HCallAdd, CallAdd, TypeOK, ClientTypes
  <2>2. \A q \in Paths \ {p} : InFlight(q)' => InFlight(q)
    BY <2>1 DEF InFlight
  <2> QED  BY <2>1, <2>2 DEF StaysRemoved
<1>5. ASSUME NEW c \in Clients, HRefresh(c)
      PROVE  StaysRemoved'
  <2>1. /\ UNCHANGED <<m_stats, removed>> /\ Busy(c)
        /\ \A o \in Clients \ {c} : pc'[o] = pc[o] /\ req'[o] = req[o]
        /\ req'[c] = [req[c] EXCEPT !.us = Stamped(Refreshed(req[c].us))]
    BY <1>5 DEF HRefresh, Refresh, Busy, TypeOK, ClientTypes
  <2>2. req'[c].path = req[c].path
    BY <2>1 DEF TypeOK, ClientTypes, Call, Busy
  <2>3. \A q \in Paths : InFlight(q)' => InFlight(q)
    BY <2>1, <2>2 DEF InFlight, Busy
  <2> QED  BY <2>1, <2>3 DEF StaysRemoved
<1>6. ASSUME NEW c \in Clients, NEW p \in Paths, HRemove(c, p)
      PROVE  StaysRemoved'
  <2>1. RemovePath(c, p) /\ CallsStay
        /\ removed' = [removed EXCEPT ![p] =
                          IF InFlight(p) THEN "raced" ELSE "alone"]
    BY <1>6 DEF HRemove, RemovePath, CallsStay, Busy, clientVars
  <2>2. /\ Keys(m_stats') = Keys(m_stats)
        /\ \A q \in Keys(m_stats) : m_stats.tree[q].expire = 0 \/ q = p =>
              m_stats'.tree[q].expire = 0
    BY <2>1, RemovedEntries, EntryTypes
  <2> QED  BY <1>3, <2>1, <2>2 DEF StaysRemoved
<1>7. ASSUME NEW c \in Clients, NEW p \in Paths, Lookup(c, p), UNCHANGED history
      PROVE  StaysRemoved'
  <2>1. /\ m_stats' = m_stats /\ removed' = removed /\ Finds(m_stats, p, now)
        /\ \A o \in Clients \ {c} : pc'[o] = pc[o] /\ req'[o] = req[o]
        /\ req'[c].path = p
    BY <1>7 DEF Lookup, TypeOK, ClientTypes, history
  <2>2. removed[p] # "alone"
    BY <1>1, <2>1 DEF StaysRemoved, Finds, IsValid
  <2>3. \A q \in Paths \ {p} : InFlight(q)' => InFlight(q)
    BY <2>1 DEF InFlight
  <2> QED  BY <2>1, <2>2, <2>3 DEF StaysRemoved
<1>8. ASSUME NEW c \in Clients, LockedInsert(c), UNCHANGED history
      PROVE  StaysRemoved'
  <2>1. /\ Busy(c) /\ ~ Busy(c)' /\ removed' = removed
        /\ \A o \in Clients \ {c} : pc'[o] = pc[o] /\ req'[o] = req[o]
    BY <1>8 DEF LockedInsert, Busy, TypeOK, ClientTypes, history
  <2>2. \A q \in Paths : InFlight(q)' => InFlight(q)
    BY <2>1 DEF InFlight, Busy
  <2>3. removed[req[c].path] # "alone"
    BY <1>1, <1>2, <2>1 DEF StaysRemoved
  <2> QED  BY <1>8, <2>1, <2>2, <2>3, InsertedEntries DEF StaysRemoved
<1>9. ASSUME TrimChunk, CallsStay, UNCHANGED history
      PROVE  StaysRemoved'
  BY <1>3, <1>9, TrimmedEntries DEF StaysRemoved, history
<1>10. ASSUME CallsStay, UNCHANGED <<m_stats, history>>
       PROVE  StaysRemoved'
  BY <1>3, <1>10 DEF StaysRemoved, history
<1> QED  BY <1>4, <1>5, <1>6, <1>7, <1>8, <1>9, <1>10, HSteps

(* A path removed while nobody was adding or refreshing it is not found    *)
(* before it is added again.                                               *)
THEOREM RemovedStaysGoneAlways == HSpec => []RemovedStaysGone
<1>1. HInit => StaysRemoved
  BY EmptyMapOK DEF HInit, Init, StaysRemoved, InFlight
<1>2. TypeOK /\ StaysRemoved /\ [HNext]_hvars => StaysRemoved'
  BY StaysRemovedStep
<1>3. TypeOK /\ StaysRemoved => RemovedStaysGone
  BY DEF TypeOK, SettingTypes, StaysRemoved, RemovedStaysGone, Finds, IsValid
<1> QED  BY <1>1, <1>2, <1>3, HistoryOnlyRecords, TypeCorrect, PTL DEF HSpec
=============================================================================
