---------------------------- MODULE CacheHistory ----------------------------
(***************************************************************************)
(* UrlStatCache with history variables: what add() was given, when a path  *)
(* was last stamped, and how it was removed.  They record and never        *)
(* restrict: HNext conjoins to each step of Next what it adds.             *)
(***************************************************************************)
EXTENDS UrlStatCache

VARIABLES
  offered,  \* the data add() was called with, for each path
  touched,  \* when a call last computed an expiry for the path
  removed   \* was a call for the path in flight when it was removed ("raced")
            \* or not ("alone")?  "no" if it was added since

history == <<offered, touched, removed>>
hvars == <<vars, history>>

HInit ==
  /\ Init
  /\ offered = [p \in Paths |-> {}]
  /\ touched = [p \in Paths |-> 0]
  /\ removed = [p \in Paths |-> "no"]

InFlight(p) ==
  \E c \in Clients : pc[c] \in {"refresh", "insert"} /\ req[c].path = p

HCallAdd(c, p, d) ==
  /\ CallAdd(c, p, d)
  /\ offered' = [offered EXCEPT ![p] = @ \cup {d}]
  /\ touched' = [touched EXCEPT ![p] = now]
  /\ removed' = [removed EXCEPT ![p] = "no"]

HRefresh(c) ==
  /\ Refresh(c)
  /\ touched' = [touched EXCEPT ![req[c].path] = now]
  /\ UNCHANGED <<offered, removed>>

HRemove(c, p) ==
  /\ RemovePath(c, p)
  /\ removed' = [removed EXCEPT ![p] =
       IF InFlight(p) THEN "raced" ELSE "alone"]
  /\ UNCHANGED <<offered, touched>>

HOther ==
  /\ \/ \E c \in Clients, p \in Paths : Lookup(c, p)
     \/ \E c \in Clients : LockedInsert(c) \/ Alarm(c)
     \/ SettingNext \/ Tick \/ CleanerNext \/ StopperNext \/ Terminated
  /\ UNCHANGED history

HNext ==
  \/ \E c \in Clients, p \in Paths, d \in Data : HCallAdd(c, p, d)
  \/ \E c \in Clients : HRefresh(c)
  \/ \E c \in Clients, p \in Paths : HRemove(c, p)
  \/ HOther

HSpec == HInit /\ [][HNext]_hvars

HTypeOK ==
  /\ TypeOK
  /\ offered \in [Paths -> SUBSET Data]
  /\ touched \in [Paths -> 0..MaxTime]
  /\ removed \in [Paths -> {"no", "alone", "raced"}]

-----------------------------------------------------------------------------
(* What a refresh may have made of the data d: find() adds the path again  *)
(* without its mtime (cache.cpp:143).                                      *)
WasOffered(p, us) ==
  \E d \in offered[p] : us.attr = d.attr /\ us.mtime \in {d.mtime, 0}

(* Whatever the cache holds for a path, or a find is about to put back,    *)
(* was once given to add() for that very path, with the mtime of the same  *)
(* call or with none.                                                      *)
ServedWasOffered ==
  /\ \A p \in Keys(m_stats) : WasOffered(p, m_stats.tree[p])
  /\ \A c \in Clients :
       pc[c] \in {"refresh", "insert"} => WasOffered(req[c].path, req[c].us)

(* No entry outlives the last call that stamped its path by more than the  *)
(* largest expiry setting: a path nobody asks about is revalidated.  A hit *)
(* counts as such a call (cache.cpp:143); a slow add, stamped before it    *)
(* waits for the lock (cache.cpp:103), may set the expiry back but never   *)
(* beyond this bound.                                                      *)
StampedWithin(p, us) ==
  us.expire = 0 \/ \E e \in ExpireSettings : us.expire <= touched[p] + e

IdleEntryExpires ==
  \A p \in Keys(m_stats) : StampedWithin(p, m_stats.tree[p])

(* A path removed while no call for it was in flight is not found again    *)
(* before somebody adds it (cache.cpp:120-127).                            *)
RemovedStaysGone ==
  \A p \in Paths : removed[p] = "alone" => ~ Finds(m_stats, p, now)

-----------------------------------------------------------------------------
(* A property the code does not have. *)

(* The mtime the cache holds for a path is one that was stored with it.    *)
KeepsMTime ==
  \A p \in Keys(m_stats) :
    \E d \in offered[p] : DataOf(m_stats.tree[p]) = d
=============================================================================
