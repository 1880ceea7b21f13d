-------------------------- MODULE RemoteAttrProofs ---------------------------
(* Theorems about RemoteAttr for any clients, paths and resources.  What   *)
(* they need of the server beyond ResourcesAssumption is named below; each *)
(* is false for some server, and the property it stands for then fails.    *)
EXTENDS RemoteAttr, SequenceTheorems, TLAPS

(* No file is described by headers that FileStat cannot parse. *)
DescriptionsParse == \A r \in Resources : r.kind = "reg" => r.filestat # "bad"

(* The third probe recognises all that exists. *)
ThirdProbeDecides == \A r \in Resources : r.kind = "reg" => r.plain \in {200, 301}

(* A file's headers tell its size. *)
SizesAreSent ==
  \A r \in Resources :
    r.kind = "reg" => \/ r.filestat = "good"
                      \/ r.filestat = "none" /\ r.length = {r.size}

-----------------------------------------------------------------------------
(* What a response and a stored stat are. *)

(* A response carries a description only with status 200, and none at all  *)
(* comes for a path where there is nothing.                                *)
LEMMA ResponseOK ==
  ASSUME NEW r \in Resources, NEW u \in URLs, NEW accept \in BOOLEAN
  PROVE  LET s == Respond(r, u, accept)
         IN  /\ s \in Responses
             /\ s.status = CASE u = "path/" -> r.slash
                             [] u = "target" -> IF r.kind = "reg" THEN 200 ELSE 404
                             [] OTHER -> IF accept THEN r.json ELSE r.plain
             /\ s.length = IF s.status \in Redirects THEN {PageLength} ELSE r.length
             /\ s.filestat = IF s.status = 200 THEN r.filestat ELSE "none"
             /\ s.about = Stat(IF r.kind = "dir" THEN "dir" ELSE "reg", r.size)
             /\ r.kind = "nothing" => s.status = 404
             /\ s.status = 200 => r.kind \in {"dir", "reg"}
<1> DEFINE s == Respond(r, u, accept)
<1>1. Resource(r)
  BY ResourcesAssumption
<1>2. s \in Responses
  BY DEF Responses
<1>3. s.status = CASE u = "path/" -> r.slash
                   [] u = "target" -> IF r.kind = "reg" THEN 200 ELSE 404
                   [] OTHER -> IF accept THEN r.json ELSE r.plain
  BY DEF Respond
<1>4. /\ s.length = IF s.status \in Redirects THEN {PageLength} ELSE r.length
      /\ s.filestat = IF s.status = 200 THEN r.filestat ELSE "none"
      /\ s.about = Stat(IF r.kind = "dir" THEN "dir" ELSE "reg", r.size)
  BY DEF Respond
<1>5. r.kind = "nothing" => s.status = 404
  BY <1>1, <1>3 DEF Resource
<1>6. s.status = 200 => r.kind \in {"dir", "reg"}
  BY <1>1, <1>5 DEF Resource
<1> HIDE DEF s
<1> QED  BY <1>2, <1>3, <1>4, <1>5, <1>6 DEF s

(* Lengths and stats that can be stored are of their types. *)
LEMMA StatTypes ==
  /\ DefaultStat \in Stats
  /\ \A r \in Resources :
       /\ r.length \subseteq Lengths
       /\ Stat("dir", r.size) \in Stats /\ Stat("reg", r.size) \in Stats
  /\ \A s \in Responses :
       /\ s.length \subseteq Lengths /\ s.about \in Stats
       /\ s.filestat \in {"none", "good", "bad"}
<1>1. /\ 0 \in Lengths /\ PageLength \in Lengths
      /\ \A r \in Resources : r.size \in Lengths /\ r.length \subseteq Lengths
  BY DEF Lengths
<1>2. /\ DefaultStat \in Stats
      /\ \A r \in Resources :
           Stat("dir", r.size) \in Stats /\ Stat("reg", r.size) \in Stats
  BY <1>1 DEF DefaultStat, Stat, Stats
<1>3. ASSUME NEW s \in Responses
      PROVE  /\ s.length \subseteq Lengths /\ s.about \in Stats
             /\ s.filestat \in {"none", "good", "bad"}
  <2>1. PICK r \in Resources, u \in URLs, accept \in BOOLEAN :
          s = Respond(r, u, accept)
    BY <1>3 DEF Responses
  <2>2. Resource(r)
    BY ResourcesAssumption
  <2>3. /\ s.length = IF s.status \in Redirects THEN {PageLength} ELSE r.length
        /\ s.filestat = IF s.status = 200 THEN r.filestat ELSE "none"
        /\ s.about = Stat(IF r.kind = "dir" THEN "dir" ELSE "reg", r.size)
    BY <2>1, ResponseOK
  <2> QED  BY <1>1, <1>2, <2>2, <2>3 DEF Resource
<1> QED  BY <1>1, <1>2, <1>3

(* A request whose responses before the last are redirects: only the last  *)
(* one can describe the path, and its length counts if it names one.       *)
Redirected(rs) ==
  /\ rs \in Seq(Responses) /\ rs # << >>
  /\ \A i \in 1 .. Len(rs) - 1 : rs[i].status \in Redirects

LEMMA ContentLengthOK ==
  ASSUME NEW rs \in Seq(Responses), rs # << >>
  PROVE  /\ ContentLength(rs) \in Lengths
         /\ \A n : rs[Len(rs)].length = {n} => ContentLength(rs) = n
<1> DEFINE HasLength(r) == r.length # {}
           last == Latest(rs, HasLength)
<1>1. /\ Len(rs) \in Nat /\ Len(rs) # 0
      /\ \A i \in 1..Len(rs) : rs[i].length \subseteq Lengths
  BY StatTypes
<1>2. ContentLength(rs) =
        IF last = {} THEN Unknown
        ELSE CHOOSE n \in UNION {rs[i].length : i \in last} : TRUE
  BY DEF ContentLength
<1>3. \A i \in last : i \in 1..Len(rs) /\ rs[i].length # {}
  BY DEF Latest
<1>4. ContentLength(rs) \in Lengths
  <2>1. CASE last = {}
    BY <1>2, <2>1 DEF Lengths
  <2>2. CASE last # {}
    <3>1. \E n : n \in UNION {rs[i].length : i \in last}
      BY <1>3, <2>2
    <3>2. ContentLength(rs) \in UNION {rs[i].length : i \in last}
      BY <1>2, <2>2, <3>1
    <3> QED  BY <1>1, <1>3, <3>2
  <2> QED  BY <2>1, <2>2
<1>5. ASSUME NEW n, rs[Len(rs)].length = {n}
      PROVE  ContentLength(rs) = n
  <2>1. last = {Len(rs)}
    <3>1. Len(rs) \in last
      BY <1>1, <1>5 DEF Latest
    <3>2. ASSUME NEW i \in last
          PROVE  i = Len(rs)
      <4>1. /\ i \in 1..Len(rs)
            /\ \A j \in i + 1 .. Len(rs) : ~ HasLength(rs[j])
        BY DEF Latest
      <4>2. Len(rs) \notin i + 1 .. Len(rs)
        BY <1>5, <4>1
      <4> QED  BY <1>1, <4>1, <4>2
    <3> QED  BY <3>1, <3>2
  <2>2. UNION {rs[i].length : i \in last} = {n}
    BY <1>5, <2>1
  <2> QED  BY <1>2, <2>1, <2>2
<1> QED  BY <1>4, <1>5

LEMMA StoredStatType ==
  ASSUME NEW rs \in Seq(Responses), rs # << >>,
         NEW kind \in {"dir", "reg"}, NEW old \in Stats
  PROVE  StoredStat(rs, kind, old) \in Stats
<1>1. CASE FileStats(rs) = {}
  BY <1>1, ContentLengthOK DEF StoredStat, Stat, Stats
<1>2. CASE FileStats(rs) # {}
  <2> DEFINE r == CHOOSE r \in FileStats(rs) : TRUE
  <2>1. FileStats(rs) \subseteq Responses
    BY DEF FileStats, Latest
  <2>2. r \in Responses
    BY <1>2, <2>1
  <2>3. StoredStat(rs, kind, old) = IF r.filestat = "good" THEN r.about ELSE old
    BY <1>2 DEF StoredStat
  <2> QED  BY <2>2, <2>3, StatTypes
<1> QED  BY <1>1, <1>2

LEMMA StoredStatOK ==
  ASSUME NEW rs, Redirected(rs), NEW kind \in {"dir", "reg"}, NEW old \in Stats
  PROVE  LET s == rs[Len(rs)]
         IN  /\ s \in Responses
             /\ s.filestat = "none" =>
                  StoredStat(rs, kind, old) = Stat(kind, ContentLength(rs))
             /\ s.filestat = "good" => StoredStat(rs, kind, old) = s.about
             /\ s.filestat = "bad" => StoredStat(rs, kind, old) = old
<1> DEFINE s == rs[Len(rs)]
           HasFileStat(r) == r.filestat # "none"
           last == Latest(rs, HasFileStat)
<1>1. Len(rs) \in Nat /\ Len(rs) # 0 /\ s \in Responses
  BY DEF Redirected
<1>2. ASSUME NEW i \in 1 .. Len(rs) - 1
      PROVE  rs[i].filestat = "none"
  <2>1. PICK r \in Resources, u \in URLs, accept \in BOOLEAN :
          rs[i] = Respond(r, u, accept)
    BY <1>1 DEF Redirected, Responses
  <2>2. rs[i].filestat = IF rs[i].status = 200 THEN r.filestat ELSE "none"
    BY <2>1, ResponseOK
  <2> QED  BY <2>2 DEF Redirected, Redirects
<1>3. last \subseteq {Len(rs)} /\ (last # {} <=> s.filestat # "none")
  BY <1>1, <1>2 DEF Latest
<1>4. FileStats(rs) = IF s.filestat = "none" THEN {} ELSE {s}
  <2>1. FileStats(rs) = {rs[i] : i \in last}
    BY DEF FileStats
  <2> QED  BY <1>3, <2>1
<1>5. /\ s.filestat = "none" =>
           StoredStat(rs, kind, old) = Stat(kind, ContentLength(rs))
      /\ s.filestat = "good" => StoredStat(rs, kind, old) = s.about
      /\ s.filestat = "bad" => StoredStat(rs, kind, old) = old
  BY <1>4 DEF StoredStat
<1> QED  BY <1>1, <1>5

-----------------------------------------------------------------------------
(* Type correctness. *)

LEMMA StoreTypes ==
  ASSUME TypeOK, NEW p \in Files, NEW s \in Stats, Cache!Store(p, s)
  PROVE  /\ held' \in [DOMAIN held' -> Stats] /\ DOMAIN held' \subseteq Files
         /\ order' \in Seq(Files)
<1>1. /\ held' = [q \in DOMAIN held \cup {p} |-> IF q = p THEN s ELSE held[q]]
      /\ order' = IF p \in DOMAIN held THEN order ELSE Append(order, p)
  BY DEF Cache!Store
<1>2. \A q \in DOMAIN held : held[q] \in Stats
  BY DEF TypeOK
<1> QED  BY <1>1, <1>2 DEF TypeOK

LEMMA EvictTypes ==
  ASSUME TypeOK, NEW n \in 1..Len(order), Cache!Evict(n)
  PROVE  /\ held' \in [DOMAIN held' -> Stats] /\ DOMAIN held' \subseteq Files
         /\ order' \in Seq(Files)
<1>1. /\ order' = SubSeq(order, n + 1, Len(order))
      /\ held' = [q \in DOMAIN held \ {order[i] : i \in 1..n} |-> held[q]]
  BY DEF Cache!Evict
<1>2. \A q \in DOMAIN held : held[q] \in Stats
  BY DEF TypeOK
<1>3. order' \in Seq(Files)
  <2>1. order \in Seq(Files) /\ n + 1 \in 1 .. Len(order) + 1
    BY DEF TypeOK
  <2> QED  BY <1>1, <2>1, SubSeqProperties
<1> QED  BY <1>1, <1>2, <1>3 DEF TypeOK

(* Another request, or the answer ENOENT. *)
LEMMA TryNextTypes ==
  ASSUME TypeOK, NEW c \in Clients, path[c] \in Files, TryNext(c)
  PROVE  /\ pc' \in [Clients -> {"idle", "refresh", "ask", "received"}]
         /\ probe' \in [Clients -> 1..3] /\ url' \in [Clients -> URLs]
         /\ got' \in [Clients -> Seq(Responses)] /\ stat' \in [Clients -> Stats]
         /\ result' \in [Clients -> {0, -ENOENT}]
         /\ pc'[c] # "received"
         /\ \A d \in Clients \ {c} : pc'[d] = pc[d] /\ got'[d] = got[d]
<1>1. << >> \in Seq(Responses) /\ \A k \in 1..3 : Url(k) \in URLs
  BY DEF Url, URLs
<1>2. CASE probe[c] < 3
  <2>1. /\ probe' = [probe EXCEPT ![c] = @ + 1]
        /\ url' = [url EXCEPT ![c] = Url(probe[c] + 1)]
        /\ got' = [got EXCEPT ![c] = << >>] /\ pc' = [pc EXCEPT ![c] = "ask"]
        /\ UNCHANGED <<result, stat>>
    BY <1>2 DEF TryNext
  <2>2. probe[c] + 1 \in 1..3
    <3>1. probe[c] \in 1..3
      BY DEF TypeOK
    <3> QED  BY <1>2, <3>1
  <2> QED  BY <1>1, <2>1, <2>2 DEF TypeOK
<1>3. CASE ~ (probe[c] < 3)
  <2>1. /\ probe' = [probe EXCEPT ![c] = 1] /\ url' = [url EXCEPT ![c] = Url(1)]
        /\ got' = [got EXCEPT ![c] = << >>] /\ pc' = [pc EXCEPT ![c] = "idle"]
        /\ result' = [result EXCEPT ![c] = -ENOENT]
        /\ stat' = [stat EXCEPT ![c] = stat[c]]
    BY <1>3 DEF TryNext, NoRequest, Answer
  <2> QED  BY <1>1, <2>1 DEF TypeOK
<1> QED  BY <1>2, <1>3

(* What a client has received when it stores it. *)
LEMMA FoundKind ==
  ASSUME NEW c \in Clients, Found(c) # "nothing"
  PROVE  Found(c) \in {"dir", "reg"}
BY DEF Found, KindFound

(* Every variable has its type in every reachable state. *)
THEOREM TypeCorrect == Spec => []TypeOK
<1>1. Init => TypeOK
  <2> SUFFICES ASSUME Init PROVE TypeOK
    OBVIOUS
  <2>1. held = [p \in {} |-> 0] /\ order = << >>
    BY DEF Init, Cache!Init
  <2>2. DefaultStat \in Stats /\ << >> \in Seq(Responses)
    BY StatTypes
  <2>3. was \in [Files -> SUBSET Resources]
    BY DEF Init
  <2> QED
    BY <2>1, <2>2, <2>3, BoundsAssumption DEF Init, TypeOK, URLs
<1>2. TypeOK /\ [Next]_vars => TypeOK'
  <2> SUFFICES ASSUME TypeOK, [Next]_vars PROVE TypeOK'
    OBVIOUS
  <2>1. ASSUME NEW c \in Clients, NEW p \in Dots \cup {Root}, GetAttrLocal(c, p)
        PROVE  TypeOK'
    <3>1. Stat("dir", 0) \in Stats /\ DefaultStat \in Stats
      BY StatTypes DEF DefaultStat
    <3>2. /\ pc' = [pc EXCEPT ![c] = "idle"]
          /\ \/ /\ result' = [result EXCEPT ![c] = 0]
                /\ stat' = [stat EXCEPT ![c] = Stat("dir", 0)]
             \/ /\ result' = [result EXCEPT ![c] = -ENOENT]
                /\ stat' = [stat EXCEPT ![c] = DefaultStat]
          /\ path' = [path EXCEPT ![c] = p]
          /\ UNCHANGED <<server, order, held, probe, url, got, changes, was, excused>>
      BY <2>1 DEF GetAttrLocal, Answer, cache, history
    <3>3. /\ result' \in [Clients -> {0, -ENOENT}]
          /\ stat' \in [Clients -> Stats]
      BY <3>1, <3>2 DEF TypeOK
    <3>4. /\ path' \in [Clients -> Files \cup Dots \cup {Root}]
          /\ pc' \in [Clients -> {"idle", "refresh", "ask", "received"}]
          /\ \A d \in Clients : pc'[d] # "idle" => pc'[d] = pc[d] /\ path'[d] = path[d]
      BY <3>2 DEF TypeOK
    <3> QED  BY <3>2, <3>3, <3>4 DEF TypeOK
  <2>2. ASSUME NEW c \in Clients, NEW p \in Files, GetAttrHit(c, p)
        PROVE  TypeOK'
    <3>1. held[p] \in Stats
      BY <2>2 DEF GetAttrHit, TypeOK
    <3> QED  BY <2>2, <3>1 DEF GetAttrHit, TypeOK, cache, history
  <2>3. ASSUME NEW c \in Clients, NEW p \in Files, GetAttrMiss(c, p)
        PROVE  TypeOK'
    BY <2>3, StatTypes DEF GetAttrMiss, TypeOK, cache
  <2>4. ASSUME NEW c \in Clients, Refresh(c)
        PROVE  TypeOK'
    <3>1. path[c] \in Files /\ stat[c] \in Stats /\ Cache!Store(path[c], stat[c])
      BY <2>4 DEF Refresh, TypeOK
    <3>2. /\ held' \in [DOMAIN held' -> Stats] /\ DOMAIN held' \subseteq Files
          /\ order' \in Seq(Files)
      BY <3>1, StoreTypes
    <3> QED
      BY <2>4, <3>1, <3>2 DEF Refresh, Answer, TypeOK, request, history
  <2>5. ASSUME NEW c \in Clients, Response(c)
        PROVE  TypeOK'
    <3> DEFINE r == Respond(server[path[c]], url[c], Accept(probe[c]))
    <3>1. path[c] \in Files /\ server[path[c]] \in Resources
      BY <2>5 DEF Response, TypeOK
    <3>2. r \in Responses
      <4>1. url[c] \in URLs /\ Accept(probe[c]) \in BOOLEAN
        BY DEF TypeOK, Accept
      <4> QED  BY <3>1, <4>1, ResponseOK
    <3>3. Location(server[path[c]]) \in URLs
      BY DEF Location, URLs
    <3>4. /\ got' = [got EXCEPT ![c] = Append(got[c], r)]
          /\ \/ /\ url' = [url EXCEPT ![c] = Location(server[path[c]])]
                /\ pc' = pc
             \/ pc' = [pc EXCEPT ![c] = "received"] /\ url' = url
          /\ UNCHANGED <<server, order, held, path, probe, stat, result,
                         changes, was, excused>>
      BY <2>5 DEF Response, cache, history
    <3> HIDE DEF r
    <3>5. Append(got[c], r) # << >> /\ Append(got[c], r) \in Seq(Responses)
      <4>1. got[c] \in Seq(Responses)
        BY DEF TypeOK
      <4> QED  BY <3>2, <4>1, AppendProperties
    <3> QED  BY <3>1, <3>2, <3>3, <3>4, <3>5 DEF TypeOK
  <2>6. ASSUME NEW c \in Clients, Fail(c)
        PROVE  TypeOK'
    <3>1. path[c] \in Files
      BY <2>6 DEF Fail, TypeOK
    <3> QED
      BY <2>6, <3>1, TryNextTypes DEF Fail, TypeOK, cache
  <2>7. ASSUME NEW c \in Clients, StoreAttr(c)
        PROVE  TypeOK'
    <3> DEFINE s == StoredStat(got[c], Found(c), stat[c])
    <3>1. path[c] \in Files /\ s \in Stats
      BY <2>7, FoundKind, StoredStatType DEF StoreAttr, TypeOK
    <3>2. /\ Cache!Store(path[c], s)
          /\ pc' = [pc EXCEPT ![c] = "idle"] /\ stat' = [stat EXCEPT ![c] = s]
          /\ result' = [result EXCEPT ![c] = 0]
          /\ probe' = [probe EXCEPT ![c] = 1] /\ url' = [url EXCEPT ![c] = "path/"]
          /\ got' = [got EXCEPT ![c] = << >>]
          /\ UNCHANGED <<server, path, changes, was, excused>>
      BY <2>7 DEF StoreAttr, Answer, NoRequest, Url, history
    <3> HIDE DEF s
    <3>3. /\ held' \in [DOMAIN held' -> Stats] /\ DOMAIN held' \subseteq Files
          /\ order' \in Seq(Files)
      BY <3>1, <3>2, StoreTypes
    <3> QED  BY <3>1, <3>2, <3>3 DEF TypeOK, URLs
  <2>8. ASSUME NEW c \in Clients, NotFound(c)
        PROVE  TypeOK'
    <3>1. path[c] \in Files
      BY <2>8 DEF NotFound, TypeOK
    <3> QED
      BY <2>8, <3>1, TryNextTypes DEF NotFound, TypeOK, cache, history
  <2>9. ASSUME NEW p \in Files, NEW r \in Resources, Change(p, r)
        PROVE  TypeOK'
    <3>1. changes' \in 0..MaxChanges
      BY <2>9, BoundsAssumption DEF Change, TypeOK
    <3> QED
      BY <2>9, <3>1 DEF Change, TypeOK, cache, request
  <2>10. ASSUME NEW n \in 1..Len(order), EvictEntries(n)
         PROVE  TypeOK'
    <3>1. /\ held' \in [DOMAIN held' -> Stats] /\ DOMAIN held' \subseteq Files
          /\ order' \in Seq(Files)
      BY <2>10, EvictTypes DEF EvictEntries
    <3> QED
      BY <2>10, <3>1 DEF EvictEntries, TypeOK, request, history
  <2>11. CASE UNCHANGED vars
    BY <2>11 DEF vars, TypeOK
  <2> QED
    BY <2>1, <2>2, <2>3, <2>4, <2>5, <2>6, <2>7, <2>8, <2>9, <2>10, <2>11
    DEF Next, ClientStep
<1> QED  BY <1>1, <1>2, PTL DEF Spec

-----------------------------------------------------------------------------
(* What a lookup knows. *)

(* The last response of c came from resource r for URL u; only the second  *)
(* request can have been led to another URL.                               *)
Sent(c, r, u) ==
  /\ got[c][Len(got[c])] = Respond(r, u, Accept(probe[c]))
  /\ r.kind = "nothing" => excused[c]
  /\ probe[c] # 2 => u = Url(probe[c])

(* Between calls nothing is left of a request.  A client that asks has     *)
(* followed redirects only, and one that has an answer has it from what    *)
(* the server has had at the path.                                         *)
Lookup(c) ==
  /\ pc[c] \in {"idle", "refresh"} =>
       probe[c] = 1 /\ url[c] = "path/" /\ got[c] = << >>
  /\ pc[c] \in {"ask", "received"} =>
       /\ stat[c] = DefaultStat
       /\ server[path[c]].kind = "nothing" => excused[c]
  /\ pc[c] = "ask" =>
       /\ \A i \in 1..Len(got[c]) : got[c][i].status \in Redirects
       /\ probe[c] # 2 => url[c] = Url(probe[c])
  /\ pc[c] = "received" =>
       /\ Redirected(got[c])
       /\ \E r \in was[path[c]], u \in URLs : Sent(c, r, u)

LookupInv ==
  /\ \A p \in Files : server[p] \in was[p]
  /\ \A c \in Clients : Lookup(c)

(* A client that a step leaves alone knows what it knew. *)
LEMMA LookupFrame ==
  ASSUME NEW c \in Clients, Lookup(c), UNCHANGED <<server, was>>,
         UNCHANGED <<pc[c], path[c], probe[c], url[c], got[c], stat[c],
                     excused[c]>>
  PROVE  Lookup(c)'
BY DEF Lookup, Sent

(* Another request starts afresh, and so does another call. *)
LEMMA TryNextLookup ==
  ASSUME TypeOK, NEW c \in Clients, pc[c] \in {"ask", "received"},
         LookupInv, TryNext(c), UNCHANGED <<server, path, was>>,
         excused[c] => excused'[c],
         \A d \in Clients \ {c} : excused'[d] = excused[d]
  PROVE  LookupInv'
<1>1. CASE probe[c] < 3
  <2>1. /\ probe' = [probe EXCEPT ![c] = @ + 1]
        /\ url' = [url EXCEPT ![c] = Url(probe[c] + 1)]
        /\ got' = [got EXCEPT ![c] = << >>] /\ pc' = [pc EXCEPT ![c] = "ask"]
        /\ UNCHANGED <<result, stat>>
    BY <1>1 DEF TryNext
  <2>2. Lookup(c)'
    <3>1. pc'[c] = "ask" /\ got'[c] = << >> /\ url'[c] = Url(probe'[c])
          /\ stat'[c] = stat[c] /\ path'[c] = path[c]
      BY <2>1 DEF TypeOK
    <3> QED  BY <3>1 DEF Lookup, LookupInv
  <2>3. ASSUME NEW d \in Clients \ {c}
        PROVE  Lookup(d)'
    BY <2>1, <2>3, LookupFrame DEF LookupInv, TypeOK
  <2> QED  BY <2>2, <2>3 DEF LookupInv
<1>2. CASE ~ (probe[c] < 3)
  <2>1. /\ probe' = [probe EXCEPT ![c] = 1] /\ url' = [url EXCEPT ![c] = "path/"]
        /\ got' = [got EXCEPT ![c] = << >>] /\ pc' = [pc EXCEPT ![c] = "idle"]
        /\ stat' = [stat EXCEPT ![c] = stat[c]]
    BY <1>2 DEF TryNext, NoRequest, Answer, Url
  <2>2. Lookup(c)'
    BY <2>1 DEF Lookup, TypeOK
  <2>3. ASSUME NEW d \in Clients \ {c}
        PROVE  Lookup(d)'
    BY <2>1, <2>3, LookupFrame DEF LookupInv, TypeOK
  <2> QED  BY <2>2, <2>3 DEF LookupInv
<1> QED  BY <1>1, <1>2

LEMMA LookupStep == TypeOK /\ LookupInv /\ [Next]_vars => LookupInv'
<1> SUFFICES ASSUME TypeOK, LookupInv, [Next]_vars PROVE LookupInv'
  OBVIOUS
<1>1. ASSUME NEW c \in Clients, NEW p \in Dots \cup {Root}, GetAttrLocal(c, p)
      PROVE  LookupInv'
  <2>1. /\ pc[c] = "idle" /\ pc' = [pc EXCEPT ![c] = "idle"]
        /\ path' = [path EXCEPT ![c] = p]
        /\ \E s : stat' = [stat EXCEPT ![c] = s]
        /\ UNCHANGED <<server, probe, url, got, was, excused>>
    BY <1>1 DEF GetAttrLocal, Answer, history
  <2>2. Lookup(c)'
    BY <2>1 DEF LookupInv, Lookup, TypeOK
  <2>3. ASSUME NEW d \in Clients \ {c}
        PROVE  Lookup(d)'
    BY <2>1, <2>3, LookupFrame DEF LookupInv, TypeOK
  <2> QED  BY <2>1, <2>2, <2>3 DEF LookupInv
<1>2. ASSUME NEW c \in Clients, NEW p \in Files, GetAttrHit(c, p)
      PROVE  LookupInv'
  <2>1. /\ pc[c] = "idle" /\ pc' = [pc EXCEPT ![c] = "refresh"]
        /\ path' = [path EXCEPT ![c] = p]
        /\ stat' = [stat EXCEPT ![c] = held[p]]
        /\ UNCHANGED <<server, probe, url, got, was, excused>>
    BY <1>2 DEF GetAttrHit, history
  <2>2. Lookup(c)'
    BY <2>1 DEF LookupInv, Lookup, TypeOK
  <2>3. ASSUME NEW d \in Clients \ {c}
        PROVE  Lookup(d)'
    BY <2>1, <2>3, LookupFrame DEF LookupInv, TypeOK
  <2> QED  BY <2>1, <2>2, <2>3 DEF LookupInv
<1>3. ASSUME NEW c \in Clients, NEW p \in Files, GetAttrMiss(c, p)
      PROVE  LookupInv'
  <2>1. /\ pc[c] = "idle" /\ pc' = [pc EXCEPT ![c] = "ask"]
        /\ path' = [path EXCEPT ![c] = p]
        /\ stat' = [stat EXCEPT ![c] = DefaultStat]
        /\ excused' = [excused EXCEPT ![c] = server[p].kind = "nothing"]
        /\ UNCHANGED <<server, probe, url, got, was>>
    BY <1>3 DEF GetAttrMiss
  <2>2. Lookup(c)'
    <3>1. /\ pc'[c] = "ask" /\ path'[c] = p /\ stat'[c] = DefaultStat
          /\ server[p].kind = "nothing" => excused'[c]
      BY <2>1 DEF TypeOK
    <3>2. probe'[c] = 1 /\ url'[c] = Url(1) /\ got'[c] = << >>
      BY <2>1 DEF LookupInv, Lookup, Url
    <3> QED  BY <2>1, <3>1, <3>2 DEF Lookup
  <2>3. ASSUME NEW d \in Clients \ {c}
        PROVE  Lookup(d)'
    BY <2>1, <2>3, LookupFrame DEF LookupInv, TypeOK
  <2> QED  BY <2>1, <2>2, <2>3 DEF LookupInv
<1>4. ASSUME NEW c \in Clients, Refresh(c)
      PROVE  LookupInv'
  <2>1. /\ pc[c] = "refresh" /\ pc' = [pc EXCEPT ![c] = "idle"]
        /\ stat' = [stat EXCEPT ![c] = stat[c]]
        /\ UNCHANGED <<server, path, probe, url, got, was, excused>>
    BY <1>4 DEF Refresh, Answer, request, history
  <2>2. Lookup(c)'
    BY <2>1 DEF LookupInv, Lookup, TypeOK
  <2>3. ASSUME NEW d \in Clients \ {c}
        PROVE  Lookup(d)'
    BY <2>1, <2>3, LookupFrame DEF LookupInv, TypeOK
  <2> QED  BY <2>1, <2>2, <2>3 DEF LookupInv
<1>5. ASSUME NEW c \in Clients, Response(c)
      PROVE  LookupInv'
  <2> DEFINE r == server[path[c]]
             s == Respond(r, url[c], Accept(probe[c]))
  <2>1. /\ pc[c] = "ask" /\ got' = [got EXCEPT ![c] = Append(got[c], s)]
        /\ \/ /\ s.status \in Redirects /\ Follows(probe[c])
              /\ url' = [url EXCEPT ![c] = Location(r)] /\ pc' = pc
           \/ pc' = [pc EXCEPT ![c] = "received"] /\ url' = url
        /\ UNCHANGED <<server, path, probe, stat, was, excused>>
    BY <1>5 DEF Response, history
  <2>2. /\ path[c] \in Files /\ r \in Resources /\ url[c] \in URLs
        /\ Accept(probe[c]) \in BOOLEAN /\ probe[c] \in 1..3
        /\ got[c] \in Seq(Responses)
    BY <2>1 DEF TypeOK, Accept
  <2>3. /\ s \in Responses
        /\ url[c] = "path/" => s.status = r.slash
        /\ r.slash \notin Redirects
    BY <2>2, ResponseOK, ResourcesAssumption DEF Resource
  <2>4. /\ Lookup(c) /\ r \in was[path[c]]
        /\ \A i \in 1..Len(got[c]) : got[c][i].status \in Redirects
        /\ r.kind = "nothing" => excused[c]
        /\ probe[c] # 2 => url[c] = Url(probe[c])
    BY <2>1, <2>2 DEF LookupInv, Lookup
  <2>5. /\ got'[c] = Append(got[c], s) /\ Len(got'[c]) = Len(got[c]) + 1
        /\ got'[c] \in Seq(Responses) /\ got'[c][Len(got'[c])] = s
        /\ \A i \in 1 .. Len(got'[c]) - 1 : got'[c][i] = got[c][i]
    BY <2>1, <2>2, <2>3, AppendProperties DEF TypeOK
  <2>6. Lookup(c)'
    <3>1. CASE s.status \in Redirects /\ Follows(probe[c]) /\ pc' = pc
      <4>1. probe[c] = 2
        BY <2>2, <2>3, <2>4, <3>1 DEF Follows, Url
      <4>2. \A i \in 1..Len(got'[c]) : got'[c][i].status \in Redirects
        BY <2>2, <2>4, <2>5, <3>1
      <4> QED  BY <2>1, <2>4, <3>1, <4>1, <4>2 DEF Lookup
    <3>2. CASE pc' = [pc EXCEPT ![c] = "received"] /\ url' = url
      <4>1. pc'[c] = "received"
        BY <3>2 DEF TypeOK
      <4>2. Redirected(got[c])'
        BY <2>2, <2>4, <2>5 DEF Redirected
      <4>3. Sent(c, r, url[c])'
        <5>1. /\ got'[c][Len(got'[c])] = Respond(r, url[c], Accept(probe[c]))
              /\ UNCHANGED <<server, path, url, probe, excused>>
          BY <2>1, <2>5, <3>2
        <5> HIDE DEF s
        <5> QED  BY <2>4, <5>1 DEF Sent
      <4> QED  BY <2>1, <2>2, <2>4, <4>1, <4>2, <4>3 DEF Lookup
    <3> QED  BY <2>1, <3>1, <3>2
  <2>7. ASSUME NEW d \in Clients \ {c}
        PROVE  Lookup(d)'
    <3>1. UNCHANGED <<pc[d], path[d], probe[d], url[d], got[d], stat[d],
                      excused[d]>>
      BY <2>1, <2>7 DEF TypeOK
    <3> QED  BY <2>1, <2>7, <3>1, LookupFrame DEF LookupInv
  <2> QED  BY <2>1, <2>6, <2>7 DEF LookupInv
<1>6. ASSUME NEW c \in Clients, Fail(c)
      PROVE  LookupInv'
  BY <1>6, TryNextLookup DEF Fail, TypeOK
<1>7. ASSUME NEW c \in Clients, StoreAttr(c)
      PROVE  LookupInv'
  <2>1. /\ pc' = [pc EXCEPT ![c] = "idle"]
        /\ \E s : stat' = [stat EXCEPT ![c] = s]
        /\ probe' = [probe EXCEPT ![c] = 1] /\ url' = [url EXCEPT ![c] = "path/"]
        /\ got' = [got EXCEPT ![c] = << >>]
        /\ UNCHANGED <<server, path, was, excused>>
    BY <1>7 DEF StoreAttr, Answer, NoRequest, Url, history
  <2>2. Lookup(c)'
    BY <2>1 DEF LookupInv, Lookup, TypeOK
  <2>3. ASSUME NEW d \in Clients \ {c}
        PROVE  Lookup(d)'
    BY <2>1, <2>3, LookupFrame DEF LookupInv, TypeOK
  <2> QED  BY <2>1, <2>2, <2>3 DEF LookupInv
<1>8. ASSUME NEW c \in Clients, NotFound(c)
      PROVE  LookupInv'
  BY <1>8, TryNextLookup DEF NotFound, history
<1>9. ASSUME NEW p \in Files, NEW r \in Resources, Change(p, r)
      PROVE  LookupInv'
  <2>1. /\ server' = [server EXCEPT ![p] = r]
        /\ was' = [was EXCEPT ![p] = @ \cup {r}]
        /\ excused' = [d \in Clients |->
                         excused[d] \/ (path[d] = p /\ r.kind = "nothing")]
        /\ UNCHANGED <<pc, path, probe, url, got, stat>>
    BY <1>9 DEF Change, request
  <2>2. \A q \in Files : server'[q] \in was'[q] /\ was[q] \subseteq was'[q]
    BY <2>1 DEF LookupInv, TypeOK
  <2>3. ASSUME NEW d \in Clients
        PROVE  Lookup(d)'
    <3>1. /\ excused[d] => excused'[d]
          /\ path[d] \in Files /\ server'[path[d]].kind = "nothing"
               => server[path[d]].kind = "nothing" \/ excused'[d]
      BY <2>1 DEF TypeOK
    <3>2. pc[d] # "idle" => path[d] \in Files
      BY DEF TypeOK
    <3>3. \A q, u : Sent(d, q, u) => Sent(d, q, u)'
      BY <2>1, <3>1 DEF Sent
    <3> QED  BY <2>1, <2>2, <3>1, <3>2, <3>3 DEF LookupInv, Lookup
  <2> QED  BY <2>2, <2>3 DEF LookupInv
<1>10. ASSUME NEW n \in 1..Len(order), EvictEntries(n)
       PROVE  LookupInv'
  BY <1>10, LookupFrame DEF EvictEntries, LookupInv, request, history
<1>11. CASE UNCHANGED vars
  BY <1>11, LookupFrame DEF vars, LookupInv
<1> QED
  BY <1>1, <1>2, <1>3, <1>4, <1>5, <1>6, <1>7, <1>8, <1>9, <1>10, <1>11
  DEF Next, ClientStep

LEMMA LookupInvariant == Spec => []LookupInv
<1>1. Init => LookupInv
  BY DEF Init, LookupInv, Lookup
<1> QED  BY <1>1, TypeCorrect, LookupStep, PTL DEF Spec

-----------------------------------------------------------------------------
(* What is stored, and what it says of the resource r that it came from.   *)

LEMMA Stored ==
  ASSUME TypeOK, LookupInv, NEW c \in Clients, pc[c] = "received",
         Found(c) # "nothing",
         NEW r \in was[path[c]], NEW u \in URLs, Sent(c, r, u)
  PROVE  LET s == StoredStat(got[c], Found(c), stat[c])
         IN  /\ Resource(r) /\ r.kind # "nothing"
             /\ probe[c] = 1 => r.slash \in {200, 403} /\ s.kind = "dir"
             /\ probe[c] = 2 => \/ u = "path" /\ r.json = 200
                                \/ u = "path/" /\ r.slash = 200
                                \/ u = "target" /\ r.kind = "reg"
             /\ probe[c] = 3 => \/ r.plain = 200
                                \/ r.plain = 301 /\ s.kind = "dir"
             /\ probe[c] = 2 \/ (probe[c] = 3 /\ r.plain = 200) =>
                  /\ r.filestat = "none" =>
                       /\ s.kind = "reg"
                       /\ r.length = {r.size} => s.length = r.size
                  /\ r.filestat = "good" =>
                       /\ s.kind = IF r.kind = "dir" THEN "dir" ELSE "reg"
                       /\ s.length = r.size
                  /\ r.filestat = "bad" => s.kind = "dir"
<1> DEFINE x == got[c][Len(got[c])]
           s == StoredStat(got[c], Found(c), stat[c])
<1>1. /\ path[c] \in Files /\ r \in Resources /\ probe[c] \in 1..3
      /\ Accept(probe[c]) \in BOOLEAN
  BY DEF TypeOK, Accept
<1>2. /\ Redirected(got[c]) /\ stat[c] = DefaultStat /\ DefaultStat \in Stats
      /\ got[c] \in Seq(Responses) /\ got[c] # << >>
  BY StatTypes DEF LookupInv, Lookup, Redirected
<1>3. /\ x = Respond(r, u, Accept(probe[c]))
      /\ probe[c] # 2 => u = Url(probe[c])
  BY DEF Sent
<1>4. /\ x.status = CASE u = "path/" -> r.slash
                      [] u = "target" -> IF r.kind = "reg" THEN 200 ELSE 404
                      [] OTHER -> IF Accept(probe[c]) THEN r.json ELSE r.plain
      /\ x.length = IF x.status \in Redirects THEN {PageLength} ELSE r.length
      /\ x.filestat = IF x.status = 200 THEN r.filestat ELSE "none"
      /\ x.about = Stat(IF r.kind = "dir" THEN "dir" ELSE "reg", r.size)
      /\ r.kind = "nothing" => x.status = 404
  <2> DEFINE a == Accept(probe[c])
  <2>1. a \in BOOLEAN /\ x = Respond(r, u, a) /\ a = Accept(probe[c])
    BY <1>1, <1>3
  <2> HIDE DEF a, x
  <2> QED  BY <1>1, <2>1, ResponseOK
<1>5. Found(c) = KindFound(probe[c], x.status)
  BY DEF Found, ResStatus
<1>6. /\ probe[c] = 1 => x.status \in {200, 403} /\ Found(c) = "dir"
      /\ probe[c] = 2 => x.status = 200 /\ Found(c) = "reg"
      /\ probe[c] = 3 => \/ x.status = 200 /\ Found(c) = "reg"
                         \/ x.status = 301 /\ Found(c) = "dir"
  BY <1>1, <1>5 DEF KindFound
<1>7. Resource(r) /\ r.kind # "nothing" /\ r.filestat \in {"none", "good", "bad"}
  BY <1>1, <1>4, <1>6, ResourcesAssumption DEF Resource
<1>8. /\ x.filestat = "none" => s = Stat(Found(c), ContentLength(got[c]))
      /\ x.filestat = "good" => s = x.about
      /\ x.filestat = "bad" => s = DefaultStat
  BY <1>2, <1>6, <1>1, FoundKind, StoredStatOK
<1>9. \A n : x.length = {n} => ContentLength(got[c]) = n
  BY <1>2, ContentLengthOK
<1> HIDE DEF x, s
<1>10. /\ probe[c] = 1 => u = "path/" /\ x.status = r.slash
       /\ probe[c] = 3 => u = "path" /\ x.status = r.plain
       /\ probe[c] = 2 /\ u = "path" => x.status = r.json
  BY <1>3, <1>4 DEF Url, Accept
<1>11. /\ DefaultStat.kind = "dir"
       /\ \A k, n : Stat(k, n).kind = k /\ Stat(k, n).length = n
  BY DEF DefaultStat, Stat
<1>12. /\ x.filestat = "none" => s.kind = Found(c)
       /\ x.filestat = "good" => /\ s.kind = IF r.kind = "dir" THEN "dir" ELSE "reg"
                                 /\ s.length = r.size
       /\ x.filestat = "bad" => s.kind = "dir"
  BY <1>4, <1>8, <1>11
<1>13. probe[c] = 1 => r.slash \in {200, 403} /\ s.kind = "dir"
  <2> SUFFICES ASSUME probe[c] = 1
               PROVE  r.slash \in {200, 403} /\ s.kind = "dir"
    OBVIOUS
  <2>1. r.slash \in {200, 403} /\ Found(c) = "dir" /\ r.kind = "dir"
    BY <1>6, <1>7, <1>10 DEF Resource
  <2> QED  BY <1>4, <1>7, <1>12, <2>1
<1>14. probe[c] = 2 => \/ u = "path" /\ r.json = 200
                       \/ u = "path/" /\ r.slash = 200
                       \/ u = "target" /\ r.kind = "reg"
  <2>1. u \in {"path", "path/", "target"}
    BY DEF URLs
  <2> QED  BY <1>4, <1>6, <1>10, <2>1
<1>15. probe[c] = 3 => \/ r.plain = 200
                       \/ r.plain = 301 /\ s.kind = "dir"
  BY <1>4, <1>6, <1>10, <1>12
<1>16. ASSUME probe[c] = 2 \/ (probe[c] = 3 /\ r.plain = 200)
       PROVE  /\ r.filestat = "none" =>
                   /\ s.kind = "reg"
                   /\ r.length = {r.size} => s.length = r.size
              /\ r.filestat = "good" =>
                   /\ s.kind = IF r.kind = "dir" THEN "dir" ELSE "reg"
                   /\ s.length = r.size
              /\ r.filestat = "bad" => s.kind = "dir"
  <2>1. x.status = 200 /\ Found(c) = "reg"
    BY <1>6, <1>10, <1>16
  <2>2. x.filestat = r.filestat /\ x.length = r.length
    BY <1>4, <2>1 DEF Redirects
  <2>3. x.filestat = "none" => s.length = ContentLength(got[c])
    BY <1>8, <1>11
  <2> QED  BY <1>9, <1>12, <2>1, <2>2, <2>3
<1> QED  BY <1>7, <1>13, <1>14, <1>15, <1>16 DEF s

-----------------------------------------------------------------------------
(* Directories were directories. *)

DirWasDir(p, s) ==
  s.kind = "dir" =>
    \E r \in was[p] : r.kind = "dir" \/ (r.kind = "reg" /\ r.plain = 301)

(* A hit carries its entry across the release of the lock. *)
DirsInv ==
  /\ \A p \in DOMAIN held : DirWasDir(p, held[p])
  /\ \A c \in Clients : pc[c] = "refresh" => DirWasDir(path[c], stat[c])

LEMMA StoredDir ==
  ASSUME DescriptionsParse, TypeOK, LookupInv, NEW c \in Clients, StoreAttr(c)
  PROVE  DirWasDir(path[c], StoredStat(got[c], Found(c), stat[c]))
<1>1. PICK r \in was[path[c]], u \in URLs : Sent(c, r, u)
  BY DEF StoreAttr, LookupInv, Lookup
<1>2. r \in Resources /\ probe[c] \in 1..3 /\ pc[c] = "received"
      /\ Found(c) # "nothing"
  BY DEF StoreAttr, TypeOK
<1> DEFINE s == StoredStat(got[c], Found(c), stat[c])
<1>3. /\ Resource(r) /\ r.kind # "nothing"
      /\ probe[c] = 1 => r.slash \in {200, 403}
      /\ probe[c] = 3 => r.plain \in {200, 301}
      /\ probe[c] = 2 \/ (probe[c] = 3 /\ r.plain = 200) =>
           /\ r.filestat = "none" => s.kind = "reg"
           /\ r.filestat = "good" => s.kind = IF r.kind = "dir" THEN "dir" ELSE "reg"
  BY <1>1, <1>2, Stored
<1> HIDE DEF s
<1>4. s.kind = "dir" => r.kind = "dir" \/ (r.kind = "reg" /\ r.plain = 301)
  BY <1>2, <1>3 DEF Resource, DescriptionsParse
<1> QED  BY <1>4 DEF DirWasDir, s

LEMMA DirsStep ==
  ASSUME DescriptionsParse
  PROVE  TypeOK /\ LookupInv /\ DirsInv /\ [Next]_vars => DirsInv'
<1> SUFFICES ASSUME TypeOK, LookupInv, DirsInv, [Next]_vars PROVE DirsInv'
  OBVIOUS
<1>1. ASSUME UNCHANGED <<held, was>>,
             \A c \in Clients : pc'[c] = "refresh" =>
               \/ DirWasDir(path'[c], stat'[c])
               \/ pc[c] = "refresh" /\ path'[c] = path[c] /\ stat'[c] = stat[c]
      PROVE  DirsInv'
  BY <1>1 DEF DirsInv, DirWasDir
<1>2. ASSUME NEW c \in Clients, NEW s, DirWasDir(path[c], s),
             Cache!Store(path[c], s), UNCHANGED <<was, path>>,
             pc' = [pc EXCEPT ![c] = "idle"], stat' = [stat EXCEPT ![c] = s]
      PROVE  DirsInv'
  <2>1. /\ DOMAIN held' = DOMAIN held \cup {path[c]}
        /\ \A q \in DOMAIN held' : held'[q] = IF q = path[c] THEN s ELSE held[q]
    BY <1>2 DEF Cache!Store
  <2>2. \A d \in Clients : pc'[d] = "refresh" => pc[d] = "refresh" /\ stat'[d] = stat[d]
    BY <1>2 DEF TypeOK
  <2> QED  BY <1>2, <2>1, <2>2 DEF DirsInv, DirWasDir
<1>3. ASSUME NEW c \in Clients, NEW p \in Dots \cup {Root}, GetAttrLocal(c, p)
      PROVE  DirsInv'
  <2>1. /\ pc' = [pc EXCEPT ![c] = "idle"] /\ path' = [path EXCEPT ![c] = p]
        /\ \E s : stat' = [stat EXCEPT ![c] = s]
        /\ UNCHANGED <<held, was>>
    BY <1>3 DEF GetAttrLocal, Answer, cache, history
  <2> QED  BY <1>1, <2>1 DEF TypeOK
<1>4. ASSUME NEW c \in Clients, NEW p \in Files, GetAttrHit(c, p)
      PROVE  DirsInv'
  <2>1. /\ p \in DOMAIN held /\ pc' = [pc EXCEPT ![c] = "refresh"]
        /\ path' = [path EXCEPT ![c] = p] /\ stat' = [stat EXCEPT ![c] = held[p]]
        /\ UNCHANGED <<held, was>>
    BY <1>4 DEF GetAttrHit, cache, history
  <2>2. DirWasDir(path'[c], stat'[c])
    BY <2>1 DEF DirsInv, TypeOK
  <2> QED  BY <1>1, <2>1, <2>2 DEF TypeOK
<1>5. ASSUME NEW c \in Clients, NEW p \in Files, GetAttrMiss(c, p)
      PROVE  DirsInv'
  BY <1>1, <1>5 DEF GetAttrMiss, cache, TypeOK
<1>6. ASSUME NEW c \in Clients, Refresh(c)
      PROVE  DirsInv'
  <2>1. DirWasDir(path[c], stat[c])
    BY <1>6 DEF Refresh, DirsInv
  <2> QED  BY <1>2, <1>6, <2>1 DEF Refresh, Answer, request, history
<1>7. ASSUME NEW c \in Clients, Response(c)
      PROVE  DirsInv'
  <2>1. /\ pc' \in {pc, [pc EXCEPT ![c] = "received"]}
        /\ UNCHANGED <<held, was, path, stat>>
    BY <1>7 DEF Response, cache, history
  <2> QED  BY <1>1, <2>1 DEF TypeOK
<1>8. ASSUME NEW c \in Clients, Fail(c) \/ NotFound(c)
      PROVE  DirsInv'
  <2>1. /\ pc' \in {[pc EXCEPT ![c] = "ask"], [pc EXCEPT ![c] = "idle"]}
        /\ stat' \in {stat, [stat EXCEPT ![c] = stat[c]]}
        /\ UNCHANGED <<held, was, path>>
    <3>1. TryNext(c) /\ UNCHANGED <<held, was, path>>
      BY <1>8 DEF Fail, NotFound, cache, history
    <3> QED  BY <3>1 DEF TryNext, Answer
  <2>2. stat' = stat
    BY <2>1 DEF TypeOK
  <2>3. \A d \in Clients : pc'[d] = "refresh" => pc[d] = "refresh"
    BY <2>1 DEF TypeOK
  <2> QED  BY <1>1, <2>1, <2>2, <2>3
<1>9. ASSUME NEW c \in Clients, StoreAttr(c)
      PROVE  DirsInv'
  BY <1>2, <1>9, StoredDir DEF StoreAttr, Answer, history
<1>10. ASSUME NEW p \in Files, NEW r \in Resources, Change(p, r)
       PROVE  DirsInv'
  <2>1. /\ was' = [was EXCEPT ![p] = @ \cup {r}]
        /\ UNCHANGED <<held, pc, path, stat>>
    BY <1>10 DEF Change, cache, request
  <2>2. \A q \in Files : was[q] \subseteq was'[q]
    BY <2>1 DEF TypeOK
  <2>3. \A q \in Files : \A s : DirWasDir(q, s) => DirWasDir(q, s)'
    BY <2>2 DEF DirWasDir
  <2>4. /\ \A q \in DOMAIN held : q \in Files
        /\ \A c \in Clients : pc[c] = "refresh" => path[c] \in Files
    BY DEF TypeOK
  <2> QED  BY <2>1, <2>3, <2>4 DEF DirsInv, DirWasDir
<1>11. ASSUME NEW n \in 1..Len(order), EvictEntries(n)
       PROVE  DirsInv'
  <2>1. /\ \A q \in DOMAIN held' : q \in DOMAIN held /\ held'[q] = held[q]
        /\ UNCHANGED <<was, pc, path, stat>>
    BY <1>11 DEF EvictEntries, Cache!Evict, request, history
  <2> QED  BY <2>1 DEF DirsInv, DirWasDir
<1>12. CASE UNCHANGED vars
  BY <1>12 DEF vars, DirsInv, DirWasDir
<1> QED
  BY <1>3, <1>4, <1>5, <1>6, <1>7, <1>8, <1>9, <1>10, <1>11, <1>12
  DEF Next, ClientStep

(* Where every file's headers parse, nothing is held as a directory that   *)
(* was neither a directory nor a file moved permanently: whatever requests *)
(* are lost and whatever changes (remoteattr.cpp:70-74, 107-110).          *)
THEOREM DirsAlwaysWereDirs ==
  ASSUME DescriptionsParse
  PROVE  Spec => []DirsWereDirs
<1>1. Init => DirsInv
  BY DEF Init, Cache!Init, DirsInv
<1>2. DirsInv => DirsWereDirs
  BY DEF DirsInv, DirsWereDirs, DirWasDir
<1>3. TypeOK /\ LookupInv /\ DirsInv /\ [Next]_vars => DirsInv'
  BY DirsStep
<1> QED  BY <1>1, <1>2, <1>3, TypeCorrect, LookupInvariant, PTL DEF Spec

-----------------------------------------------------------------------------
(* Absent paths were absent. *)

(* The status a client has found nothing in. *)
LEMMA NothingFound ==
  ASSUME TypeOK, LookupInv, NEW c \in Clients, NotFound(c),
         NEW r \in was[path[c]], NEW u \in URLs, Sent(c, r, u)
  PROVE  /\ r \in Resources /\ Resource(r)
         /\ probe[c] = 1 => r.slash \notin {200, 403}
         /\ probe[c] = 2 /\ u = "path" => r.json # 200
         /\ probe[c] = 2 /\ u = "target" => r.kind # "reg"
         /\ probe[c] = 3 => r.plain \notin {200, 301}
<1> DEFINE x == got[c][Len(got[c])]
           a == Accept(probe[c])
<1>1. /\ r \in Resources /\ a \in BOOLEAN /\ probe[c] \in 1..3
  BY DEF NotFound, TypeOK, Accept
<1>2. x = Respond(r, u, a) /\ (probe[c] # 2 => u = Url(probe[c]))
  BY DEF Sent
<1>3. (probe[c] = 2 => a) /\ (probe[c] = 3 => ~ a)
  BY DEF Accept
<1>4. KindFound(probe[c], x.status) = "nothing"
  BY DEF NotFound, Found, ResStatus
<1> HIDE DEF x, a
<1>5. x.status = CASE u = "path/" -> r.slash
                   [] u = "target" -> IF r.kind = "reg" THEN 200 ELSE 404
                   [] OTHER -> IF a THEN r.json ELSE r.plain
  BY <1>1, <1>2, ResponseOK
<1>6. /\ probe[c] = 1 => x.status \notin {200, 403}
      /\ probe[c] = 2 => x.status # 200
      /\ probe[c] = 3 => x.status \notin {200, 301}
  BY <1>4 DEF KindFound
<1>7. Resource(r)
  BY <1>1, ResourcesAssumption
<1>8. probe[c] = 1 => r.slash \notin {200, 403}
  BY <1>2, <1>5, <1>6 DEF Url
<1>9. probe[c] = 2 => (u = "path" => r.json # 200) /\ (u = "target" => r.kind # "reg")
  BY <1>3, <1>5, <1>6
<1>10. probe[c] = 3 => r.plain \notin {200, 301}
  BY <1>2, <1>3, <1>5, <1>6 DEF Url
<1> QED  BY <1>1, <1>7, <1>8, <1>9, <1>10

LEMMA AbsentStep ==
  ASSUME ThirdProbeDecides
  PROVE  TypeOK /\ LookupInv /\ AbsentWasAbsent /\ [Next]_vars
           => AbsentWasAbsent'
<1> SUFFICES ASSUME TypeOK, LookupInv, AbsentWasAbsent, [Next]_vars,
                    NEW c \in Clients, pc'[c] = "idle", path'[c] \in Files,
                    result'[c] = -ENOENT
             PROVE  excused'[c]
  BY DEF AbsentWasAbsent
<1>1. ASSUME UNCHANGED <<pc[c], path[c], result[c]>>, excused[c] => excused'[c]
      PROVE  excused'[c]
  BY <1>1 DEF AbsentWasAbsent
<1>2. ASSUME NEW d \in Clients, NEW p \in Dots \cup {Root}, GetAttrLocal(d, p)
      PROVE  excused'[c]
  <2>1. /\ pc' = [pc EXCEPT ![d] = "idle"] /\ path' = [path EXCEPT ![d] = p]
        /\ \E s : result' = [result EXCEPT ![d] = s]
        /\ UNCHANGED excused
    BY <1>2 DEF GetAttrLocal, Answer, history
  <2>2. d # c
    BY <2>1, PathsAssumption DEF TypeOK
  <2> QED  BY <1>1, <2>1, <2>2 DEF TypeOK
<1>3. ASSUME NEW d \in Clients, NEW p \in Files, GetAttrHit(d, p)
      PROVE  excused'[c]
  <2>1. /\ pc' = [pc EXCEPT ![d] = "refresh"] /\ path' = [path EXCEPT ![d] = p]
        /\ UNCHANGED <<result, excused>>
    BY <1>3 DEF GetAttrHit, history
  <2> QED  BY <1>1, <2>1 DEF TypeOK
<1>4. ASSUME NEW d \in Clients, NEW p \in Files, GetAttrMiss(d, p)
      PROVE  excused'[c]
  <2>1. d # c
    BY <1>4 DEF GetAttrMiss, TypeOK
  <2> QED  BY <1>1, <1>4, <2>1 DEF GetAttrMiss, TypeOK
<1>5. ASSUME NEW d \in Clients, Refresh(d) \/ StoreAttr(d)
      PROVE  excused'[c]
  <2>1. /\ pc' = [pc EXCEPT ![d] = "idle"] /\ result' = [result EXCEPT ![d] = 0]
        /\ UNCHANGED <<path, excused>>
    BY <1>5 DEF Refresh, StoreAttr, Answer, request, history
  <2>2. d # c
    BY <2>1 DEF TypeOK, ENOENT
  <2> QED  BY <1>1, <2>1, <2>2 DEF TypeOK
<1>6. ASSUME NEW d \in Clients, Response(d)
      PROVE  excused'[c]
  <2>1. /\ pc[d] = "ask" /\ pc' \in {pc, [pc EXCEPT ![d] = "received"]}
        /\ UNCHANGED <<path, result, excused>>
    BY <1>6 DEF Response, history
  <2>2. pc[c] = pc'[c]
    BY <2>1 DEF TypeOK
  <2> QED  BY <1>1, <2>1, <2>2
<1>7. ASSUME NEW d \in Clients, Fail(d)
      PROVE  excused'[c]
  <2>1. /\ excused' = [excused EXCEPT ![d] = TRUE] /\ UNCHANGED path
        /\ c # d => UNCHANGED <<pc[c], result[c]>>
    BY <1>7 DEF Fail, TryNext, Answer, TypeOK
  <2> QED  BY <1>1, <2>1 DEF TypeOK
<1>8. ASSUME NEW d \in Clients, NotFound(d)
      PROVE  excused'[c]
  <2>1. /\ UNCHANGED <<path, excused>>
        /\ c # d => UNCHANGED <<pc[c], result[c]>>
    BY <1>8 DEF NotFound, TryNext, Answer, TypeOK, history
  <2>2. CASE c = d
    <3>1. probe[c] = 3
      <4>1. probe[c] \in 1..3 /\ TryNext(c)
        BY <1>8, <2>2 DEF NotFound, TypeOK
      <4>2. probe[c] < 3 => pc'[c] = "ask"
        BY <4>1 DEF TryNext, TypeOK
      <4> QED  BY <4>1, <4>2
    <3>2. PICK r \in was[path[c]], u \in URLs : Sent(c, r, u)
      BY <1>8, <2>2 DEF NotFound, LookupInv, Lookup
    <3>3. r \in Resources /\ Resource(r) /\ r.plain \notin {200, 301}
      BY <1>8, <2>2, <3>1, <3>2, NothingFound
    <3>4. r.kind = "nothing"
      BY <3>3 DEF Resource, ThirdProbeDecides
    <3> QED  BY <2>1, <3>2, <3>4 DEF Sent
  <2> QED  BY <1>1, <2>1, <2>2
<1>9. ASSUME NEW p \in Files, NEW r \in Resources, Change(p, r)
      PROVE  excused'[c]
  BY <1>1, <1>9 DEF Change, request
<1>10. ASSUME NEW n \in 1..Len(order), EvictEntries(n)
       PROVE  excused'[c]
  BY <1>1, <1>10 DEF EvictEntries, request, history
<1>11. CASE UNCHANGED vars
  BY <1>1, <1>11 DEF vars
<1> QED
  BY <1>2, <1>3, <1>4, <1>5, <1>6, <1>7, <1>8, <1>9, <1>10, <1>11
  DEF Next, ClientStep

(* Where the third probe recognises all that exists, a lookup that loses   *)
(* no request answers ENOENT only for a path that was absent meanwhile     *)
(* (remoteattr.cpp:98-116).                                                *)
THEOREM AbsentAlwaysWasAbsent ==
  ASSUME ThirdProbeDecides
  PROVE  Spec => []AbsentWasAbsent
<1>1. Init => AbsentWasAbsent
  BY PathsAssumption DEF Init, AbsentWasAbsent
<1>2. TypeOK /\ LookupInv /\ AbsentWasAbsent /\ [Next]_vars => AbsentWasAbsent'
  BY AbsentStep
<1> QED  BY <1>1, <1>2, TypeCorrect, LookupInvariant, PTL DEF Spec

-----------------------------------------------------------------------------
(* Answers were true. *)

(* When no request is lost and nothing changes its nature while it is      *)
(* looked up, a client knows what the path is not from the probes before:  *)
(* "path/" was refused; a file would have been served as text/json.  Its   *)
(* last response came from a resource of the nature that the path has now, *)
(* and the second request has followed that nature's redirect, if any.     *)
PathNotServed(N) == N.kind = "reg" => N.json \notin Redirects \cup {200}

Led(N, u) ==
  \/ u = "path" /\ N.json \notin Redirects
  \/ u = Location(N) /\ N.json \in Redirects

Settled(c) ==
  LET N == server[path[c]]
  IN  /\ pc[c] \in {"ask", "received"} =>
           /\ probe[c] # 1 => N.slash \notin {200, 403}
           /\ probe[c] = 3 => PathNotServed(N)
      /\ pc[c] = "ask" /\ probe[c] = 2 => url[c] = "path" \/ Led(N, url[c])
      /\ pc[c] = "received" =>
           \E r \in was[path[c]], u \in URLs :
             /\ Sent(c, r, u)
             /\ Nature(r) = Nature(N)
             /\ probe[c] = 2 => Led(r, u)

SettledInv == \A c \in Clients : Settled(c)

LEMMA SettledFrame ==
  ASSUME NEW c \in Clients, Settled(c), UNCHANGED <<server, was>>,
         UNCHANGED <<pc[c], path[c], probe[c], url[c], got[c], excused[c]>>
  PROVE  Settled(c)'
BY DEF Settled, Sent

LEMMA NatureParts ==
  ASSUME NEW r, NEW q, Nature(r) = Nature(q)
  PROVE  /\ r.kind = q.kind /\ r.slash = q.slash
         /\ r.json = q.json /\ r.plain = q.plain
         /\ PathNotServed(q) => PathNotServed(r)
         /\ \A u : Led(q, u) => Led(r, u)
BY DEF Nature, PathNotServed, Led, Location

LEMMA SettledStep ==
  ASSUME ~ Failures, ~ Races
  PROVE  TypeOK /\ LookupInv /\ SettledInv /\ [Next]_vars => SettledInv'
<1> SUFFICES ASSUME TypeOK, LookupInv, SettledInv, [Next]_vars
             PROVE  SettledInv'
  OBVIOUS
<1>1. ASSUME NEW c \in Clients, pc'[c] \in {"idle", "refresh"},
             UNCHANGED <<server, was>>,
             \A d \in Clients \ {c} :
               UNCHANGED <<pc[d], path[d], probe[d], url[d], got[d], excused[d]>>
      PROVE  SettledInv'
  <2>1. Settled(c)'
    BY <1>1 DEF Settled
  <2>2. ASSUME NEW d \in Clients \ {c}
        PROVE  Settled(d)'
    BY <1>1, <2>2, SettledFrame DEF SettledInv
  <2> QED  BY <2>1, <2>2 DEF SettledInv
<1>2. ASSUME NEW c \in Clients, NEW p \in Dots \cup {Root}, GetAttrLocal(c, p)
      PROVE  SettledInv'
  <2>1. /\ pc' = [pc EXCEPT ![c] = "idle"] /\ path' = [path EXCEPT ![c] = p]
        /\ UNCHANGED <<server, probe, url, got, was, excused>>
    BY <1>2 DEF GetAttrLocal, Answer, history
  <2> QED  BY <1>1, <2>1 DEF TypeOK
<1>3. ASSUME NEW c \in Clients, NEW p \in Files, GetAttrHit(c, p)
      PROVE  SettledInv'
  <2>1. /\ pc' = [pc EXCEPT ![c] = "refresh"] /\ path' = [path EXCEPT ![c] = p]
        /\ UNCHANGED <<server, probe, url, got, was, excused>>
    BY <1>3 DEF GetAttrHit, history
  <2> QED  BY <1>1, <2>1 DEF TypeOK
<1>4. ASSUME NEW c \in Clients, NEW p \in Files, GetAttrMiss(c, p)
      PROVE  SettledInv'
  <2>1. /\ pc[c] = "idle" /\ pc' = [pc EXCEPT ![c] = "ask"]
        /\ path' = [path EXCEPT ![c] = p]
        /\ \E e : excused' = [excused EXCEPT ![c] = e]
        /\ UNCHANGED <<server, probe, url, got, was>>
    BY <1>4 DEF GetAttrMiss
  <2>2. Settled(c)'
    <3>1. pc'[c] = "ask" /\ probe'[c] = 1
      BY <2>1 DEF LookupInv, Lookup, TypeOK
    <3> QED  BY <3>1 DEF Settled
  <2>3. ASSUME NEW d \in Clients \ {c}
        PROVE  Settled(d)'
    BY <2>1, <2>3, SettledFrame DEF SettledInv, TypeOK
  <2> QED  BY <2>2, <2>3 DEF SettledInv
<1>5. ASSUME NEW c \in Clients, Refresh(c) \/ StoreAttr(c)
      PROVE  SettledInv'
  <2>1. /\ pc' = [pc EXCEPT ![c] = "idle"]
        /\ probe' \in {probe, [probe EXCEPT ![c] = 1]}
        /\ url' \in {url, [url EXCEPT ![c] = Url(1)]}
        /\ got' \in {got, [got EXCEPT ![c] = << >>]}
        /\ UNCHANGED <<server, path, was, excused>>
    BY <1>5 DEF Refresh, StoreAttr, Answer, NoRequest, request, history
  <2> QED  BY <1>1, <2>1 DEF TypeOK
<1>6. ASSUME NEW c \in Clients, Response(c)
      PROVE  SettledInv'
  <2> DEFINE r == server[path[c]]
             s == Respond(r, url[c], Accept(probe[c]))
  <2>1. /\ pc[c] = "ask" /\ got' = [got EXCEPT ![c] = Append(got[c], s)]
        /\ \/ /\ s.status \in Redirects /\ Follows(probe[c])
              /\ url' = [url EXCEPT ![c] = Location(r)] /\ pc' = pc
           \/ /\ ~ (s.status \in Redirects /\ Follows(probe[c]))
              /\ pc' = [pc EXCEPT ![c] = "received"] /\ url' = url
        /\ UNCHANGED <<server, path, probe, was, excused>>
    BY <1>6 DEF Response, history
  <2>2. /\ path[c] \in Files /\ r \in Resources /\ url[c] \in URLs
        /\ Accept(probe[c]) \in BOOLEAN /\ probe[c] \in 1..3
        /\ got[c] \in Seq(Responses)
    BY <2>1 DEF TypeOK, Accept
  <2>3. /\ s \in Responses
        /\ url[c] = "path/" => s.status = r.slash
        /\ url[c] = "target" => s.status \in {200, 404}
        /\ url[c] = "path" /\ probe[c] = 2 => s.status = r.json
        /\ r.slash \notin Redirects
    <3>1. s \in Responses
          /\ s.status = CASE url[c] = "path/" -> r.slash
                          [] url[c] = "target" -> IF r.kind = "reg" THEN 200 ELSE 404
                          [] OTHER -> IF Accept(probe[c]) THEN r.json ELSE r.plain
      <4> DEFINE a == Accept(probe[c])
                 v == url[c]
      <4>1. r \in Resources /\ a \in BOOLEAN /\ v \in URLs /\ s = Respond(r, v, a)
        BY <2>2
      <4> HIDE DEF a, r, s, v
      <4>2. /\ s \in Responses
            /\ s.status = CASE v = "path/" -> r.slash
                            [] v = "target" -> IF r.kind = "reg" THEN 200 ELSE 404
                            [] OTHER -> IF a THEN r.json ELSE r.plain
        BY <4>1, ResponseOK
      <4> QED  BY <4>2 DEF a, v
    <3>2. Resource(r)
      BY <2>2, ResourcesAssumption
    <3>3. probe[c] = 2 => Accept(probe[c])
      BY DEF Accept
    <3> HIDE DEF r, s
    <3> QED  BY <3>1, <3>2, <3>3 DEF Resource
  <2>4. /\ r \in was[path[c]] /\ (r.kind = "nothing" => excused[c])
        /\ probe[c] # 2 => url[c] = Url(probe[c])
        /\ probe[c] # 1 => r.slash \notin {200, 403}
        /\ probe[c] = 3 => PathNotServed(r)
        /\ probe[c] = 2 => url[c] = "path" \/ Led(r, url[c])
    BY <2>1, <2>2 DEF LookupInv, Lookup, SettledInv, Settled
  <2>5. got'[c] = Append(got[c], s) /\ got'[c][Len(got'[c])] = s
    BY <2>1, <2>2, <2>3, AppendProperties DEF TypeOK
  <2>6. Settled(c)'
    <3>1. CASE s.status \in Redirects /\ Follows(probe[c])
      <4>1. pc'[c] = "ask" /\ url'[c] = Location(r)
        BY <2>1, <3>1 DEF TypeOK
      <4>2. probe[c] = 2
        BY <2>2, <2>3, <2>4, <3>1 DEF Follows, Url
      <4>3. r.json \in Redirects
        BY <2>3, <2>4, <3>1, <4>2 DEF Redirects, Led
      <4>4. Led(r, url[c])'
        BY <2>1, <4>1, <4>3 DEF Led, Location
      <4> QED  BY <2>1, <2>4, <4>1, <4>2, <4>4 DEF Settled
    <3>2. CASE ~ (s.status \in Redirects /\ Follows(probe[c]))
      <4>1. pc'[c] = "received"
        BY <2>1, <3>2 DEF TypeOK
      <4>2. UNCHANGED <<server, path, probe, url, was, excused>>
        BY <2>1, <3>2
      <4>3. Sent(c, r, url[c])'
        <5>1. got'[c][Len(got'[c])] = Respond(r, url[c], Accept(probe[c]))
          BY <2>5
        <5> HIDE DEF s
        <5> QED  BY <2>4, <4>2, <5>1 DEF Sent
      <4>4. probe[c] = 2 => Led(r, url[c])
        BY <2>3, <2>4, <3>2 DEF Led, Follows
      <4> HIDE DEF s
      <4>5. \E q \in was[path[c]], u \in URLs :
              /\ Sent(c, q, u)' /\ Nature(q) = Nature(r)
              /\ probe[c] = 2 => Led(q, u)
        BY <2>2, <2>4, <4>2, <4>3, <4>4
      <4> QED  BY <2>4, <4>1, <4>2, <4>5 DEF Settled
    <3> QED  BY <3>1, <3>2
  <2>7. ASSUME NEW d \in Clients \ {c}
        PROVE  Settled(d)'
    <3>1. UNCHANGED <<pc[d], path[d], probe[d], url[d], got[d], excused[d]>>
      BY <2>1, <2>7 DEF TypeOK
    <3> QED  BY <2>1, <2>7, <3>1, SettledFrame DEF SettledInv
  <2> QED  BY <2>6, <2>7 DEF SettledInv
<1>7. ASSUME NEW c \in Clients, NotFound(c)
      PROVE  SettledInv'
  <2>1. /\ pc[c] = "received" /\ TryNext(c) /\ path[c] \in Files
        /\ probe[c] \in 1..3 /\ UNCHANGED <<server, path, was, excused>>
    BY <1>7 DEF NotFound, TypeOK, history
  <2> DEFINE N == server[path[c]]
  <2>2. PICK r \in was[path[c]], u \in URLs :
          Sent(c, r, u) /\ Nature(r) = Nature(N) /\ (probe[c] = 2 => Led(r, u))
    BY <2>1 DEF SettledInv, Settled
  <2>3. /\ probe[c] = 1 => N.slash \notin {200, 403}
        /\ probe[c] = 2 => N.slash \notin {200, 403} /\ PathNotServed(N)
    <3>1. /\ probe[c] = 1 => r.slash \notin {200, 403}
          /\ probe[c] = 2 /\ u = "path" => r.json # 200
          /\ probe[c] = 2 /\ u = "target" => r.kind # "reg"
      BY <1>7, <2>2, NothingFound
    <3>2. probe[c] = 2 => PathNotServed(r)
      BY <2>2, <3>1 DEF Led, Location, PathNotServed, Redirects
    <3>3. probe[c] = 2 => N.slash \notin {200, 403}
      BY <2>1 DEF SettledInv, Settled
    <3> HIDE DEF N
    <3> QED  BY <2>2, <3>1, <3>2, <3>3, NatureParts
  <2>4. CASE probe[c] < 3
    <3>1. /\ probe' = [probe EXCEPT ![c] = @ + 1]
          /\ url' = [url EXCEPT ![c] = Url(probe[c] + 1)]
          /\ got' = [got EXCEPT ![c] = << >>] /\ pc' = [pc EXCEPT ![c] = "ask"]
      BY <2>1, <2>4 DEF TryNext
    <3>2. Settled(c)'
      <4>1. /\ pc'[c] = "ask" /\ url'[c] = Url(probe'[c])
            /\ probe'[c] = probe[c] + 1
        BY <3>1 DEF TypeOK
      <4> QED  BY <2>1, <2>3, <2>4, <4>1 DEF Settled, Url
    <3>3. ASSUME NEW d \in Clients \ {c}
          PROVE  Settled(d)'
      BY <2>1, <3>1, <3>3, SettledFrame DEF SettledInv, TypeOK
    <3> QED  BY <3>2, <3>3 DEF SettledInv
  <2>5. CASE ~ (probe[c] < 3)
    <3>1. /\ probe' = [probe EXCEPT ![c] = 1] /\ url' = [url EXCEPT ![c] = Url(1)]
          /\ got' = [got EXCEPT ![c] = << >>] /\ pc' = [pc EXCEPT ![c] = "idle"]
      BY <2>1, <2>5 DEF TryNext, NoRequest, Answer
    <3> QED  BY <1>1, <2>1, <3>1 DEF TypeOK
  <2> QED  BY <2>4, <2>5
<1>8. ASSUME NEW p \in Files, NEW r \in Resources, Change(p, r)
      PROVE  SettledInv'
  <2>1. /\ server' = [server EXCEPT ![p] = r]
        /\ was' = [was EXCEPT ![p] = @ \cup {r}]
        /\ excused' = [d \in Clients |->
                         excused[d] \/ (path[d] = p /\ r.kind = "nothing")]
        /\ Nature(r) = Nature(server[p]) \/ ~ LookedUp(p)
        /\ UNCHANGED <<pc, path, probe, url, got>>
    BY <1>8 DEF Change, request
  <2>2. ASSUME NEW d \in Clients
        PROVE  Settled(d)'
    <3>1. CASE pc[d] \notin {"ask", "received"}
      BY <2>1, <3>1 DEF Settled
    <3>2. CASE pc[d] \in {"ask", "received"}
      <4>1. path[d] \in Files /\ Settled(d)
        BY <3>2 DEF TypeOK, SettledInv
      <4>2. Nature(server'[path[d]]) = Nature(server[path[d]])
        <5>1. path[d] = p => Nature(r) = Nature(server[p])
          BY <2>1, <3>2 DEF LookedUp
        <5> QED  BY <2>1, <4>1, <5>1 DEF TypeOK
      <4>3. was[path[d]] \subseteq was'[path[d]]
        BY <2>1, <4>1 DEF TypeOK
      <4>4. \A q, u : Sent(d, q, u) => Sent(d, q, u)'
        BY <2>1 DEF Sent
      <4> DEFINE N == server[path[d]]
                 M == server'[path[d]]
      <4>5. /\ N.slash = M.slash /\ (PathNotServed(N) => PathNotServed(M))
            /\ \A u : Led(N, u) => Led(M, u)
        BY <4>2, NatureParts
      <4>6. /\ probe[d] # 1 => M.slash \notin {200, 403}
            /\ probe[d] = 3 => PathNotServed(M)
            /\ pc[d] = "ask" /\ probe[d] = 2 => url[d] = "path" \/ Led(M, url[d])
        BY <3>2, <4>1, <4>5 DEF Settled
      <4>7. pc[d] = "received" =>
              \E q \in was'[path[d]], u \in URLs :
                /\ Sent(d, q, u)' /\ Nature(q) = Nature(M)
                /\ probe[d] = 2 => Led(q, u)
        BY <4>1, <4>2, <4>3, <4>4 DEF Settled
      <4> QED  BY <2>1, <4>6, <4>7 DEF Settled
    <3> QED  BY <3>1, <3>2
  <2> QED  BY <2>2 DEF SettledInv
<1>9. ASSUME NEW n \in 1..Len(order), EvictEntries(n)
      PROVE  SettledInv'
  BY <1>9, SettledFrame DEF EvictEntries, SettledInv, request, history
<1>10. CASE UNCHANGED vars
  BY <1>10, SettledFrame DEF vars, SettledInv
<1>11. ASSUME NEW c \in Clients
       PROVE  ~ Fail(c)
  BY DEF Fail
<1> QED
  BY <1>2, <1>3, <1>4, <1>5, <1>6, <1>7, <1>8, <1>9, <1>10, <1>11
  DEF Next, ClientStep

(* What is held was true, and so is what a hit carries across the release  *)
(* of the lock.                                                            *)
TrueInv ==
  /\ AnswersWereTrue
  /\ \A c \in Clients : pc[c] = "refresh" => WasTrue(path[c], stat[c])

LEMMA StoredTrue ==
  ASSUME SizesAreSent, TypeOK, LookupInv, SettledInv,
         NEW c \in Clients, StoreAttr(c)
  PROVE  WasTrue(path[c], StoredStat(got[c], Found(c), stat[c]))
<1> DEFINE N == server[path[c]]
           s == StoredStat(got[c], Found(c), stat[c])
<1>1. pc[c] = "received" /\ probe[c] \in 1..3 /\ Found(c) # "nothing"
  BY DEF StoreAttr, TypeOK
<1>2. PICK r \in was[path[c]], u \in URLs :
        Sent(c, r, u) /\ Nature(r) = Nature(N) /\ (probe[c] = 2 => Led(r, u))
  BY <1>1 DEF SettledInv, Settled
<1>3. /\ probe[c] # 1 => N.slash \notin {200, 403}
      /\ probe[c] = 3 => PathNotServed(N)
  BY <1>1 DEF SettledInv, Settled
<1>4. r \in Resources
  BY <1>1, <1>2 DEF TypeOK
<1>5. /\ Resource(r) /\ r.kind # "nothing"
      /\ probe[c] = 1 => r.slash \in {200, 403} /\ s.kind = "dir"
      /\ probe[c] = 2 => \/ u = "path" /\ r.json = 200
                         \/ u = "path/" /\ r.slash = 200
                         \/ u = "target" /\ r.kind = "reg"
      /\ probe[c] = 3 => \/ r.plain = 200
                         \/ r.plain = 301 /\ s.kind = "dir"
      /\ probe[c] = 2 \/ (probe[c] = 3 /\ r.plain = 200) =>
           /\ r.filestat = "none" =>
                s.kind = "reg" /\ (r.length = {r.size} => s.length = r.size)
           /\ r.filestat = "good" =>
                /\ s.kind = IF r.kind = "dir" THEN "dir" ELSE "reg"
                /\ s.length = r.size
  BY <1>1, <1>2, Stored
<1> HIDE DEF N, s
<1>6. /\ probe[c] # 1 => r.slash \notin {200, 403}
      /\ probe[c] = 3 => PathNotServed(r)
  BY <1>2, <1>3, NatureParts
<1>7. CASE probe[c] = 1
  <2>1. r.kind = "dir" /\ s.kind = "dir"
    BY <1>5, <1>7 DEF Resource
  <2> QED  BY <2>1 DEF WasTrue, s
<1>8. ASSUME probe[c] = 2 \/ (probe[c] = 3 /\ r.plain = 200)
      PROVE  WasTrue(path[c], s)
  <2>1. r.kind = "reg"
    BY <1>1, <1>2, <1>5, <1>6, <1>8 DEF Resource, Led, Location, Redirects
  <2>2. s.kind = "reg" /\ s.length = r.size
    BY <1>4, <1>5, <1>8, <2>1 DEF SizesAreSent
  <2> QED  BY <2>1, <2>2 DEF WasTrue
<1>9. CASE probe[c] = 3 /\ r.plain # 200
  <2>1. r.kind = "dir" /\ s.kind = "dir"
    BY <1>5, <1>6, <1>9 DEF Resource, PathNotServed
  <2> QED  BY <2>1 DEF WasTrue, s
<1> QED  BY <1>1, <1>7, <1>8, <1>9 DEF s

LEMMA TrueStep ==
  ASSUME SizesAreSent
  PROVE  TypeOK /\ LookupInv /\ SettledInv /\ TrueInv /\ [Next]_vars => TrueInv'
<1> SUFFICES ASSUME TypeOK, LookupInv, SettledInv, TrueInv, [Next]_vars
             PROVE  TrueInv'
  OBVIOUS
<1>1. ASSUME UNCHANGED <<held, was>>,
             \A c \in Clients :
               \/ UNCHANGED <<pc[c], path[c], result[c], stat[c]>>
               \/ pc'[c] = "refresh" /\ WasTrue(path'[c], stat'[c])
               \/ pc'[c] \in {"ask", "received"}
               \/ pc'[c] = "idle" /\ (path'[c] \notin Files \/ result'[c] # 0)
      PROVE  TrueInv'
  BY <1>1 DEF TrueInv, AnswersWereTrue, Answered, WasTrue
<1>2. ASSUME NEW c \in Clients, NEW s, WasTrue(path[c], s),
             Cache!Store(path[c], s), UNCHANGED <<was, path>>,
             pc' = [pc EXCEPT ![c] = "idle"], stat' = [stat EXCEPT ![c] = s],
             result' = [result EXCEPT ![c] = 0]
      PROVE  TrueInv'
  <2>1. /\ DOMAIN held' = DOMAIN held \cup {path[c]}
        /\ \A q \in DOMAIN held' : held'[q] = IF q = path[c] THEN s ELSE held[q]
    BY <1>2 DEF Cache!Store
  <2>2. /\ pc'[c] = "idle" /\ stat'[c] = s
        /\ \A d \in Clients \ {c} :
             UNCHANGED <<pc[d], path[d], result[d], stat[d]>>
    BY <1>2 DEF TypeOK
  <2>3. \A q \in DOMAIN held' : WasTrue(q, held'[q])
    BY <1>2, <2>1 DEF TrueInv, AnswersWereTrue
  <2>4. \A d \in Clients : /\ Answered(d)' => WasTrue(path'[d], stat'[d])
                           /\ pc'[d] = "refresh" => WasTrue(path'[d], stat'[d])
    BY <1>2, <2>2 DEF TrueInv, AnswersWereTrue, Answered
  <2> QED  BY <1>2, <2>3, <2>4 DEF TrueInv, AnswersWereTrue, WasTrue
<1>3. ASSUME NEW c \in Clients, NEW p \in Dots \cup {Root}, GetAttrLocal(c, p)
      PROVE  TrueInv'
  <2>1. /\ pc' = [pc EXCEPT ![c] = "idle"] /\ path' = [path EXCEPT ![c] = p]
        /\ \E s : stat' = [stat EXCEPT ![c] = s]
        /\ \E e : result' = [result EXCEPT ![c] = e]
        /\ UNCHANGED <<held, was>>
    BY <1>3 DEF GetAttrLocal, Answer, cache, history
  <2>2. p \notin Files
    BY PathsAssumption
  <2>3. pc'[c] = "idle" /\ path'[c] \notin Files
    BY <2>1, <2>2 DEF TypeOK
  <2>4. \A d \in Clients \ {c} : UNCHANGED <<pc[d], path[d], result[d], stat[d]>>
    BY <2>1 DEF TypeOK
  <2> QED  BY <1>1, <2>1, <2>3, <2>4
<1>4. ASSUME NEW c \in Clients, NEW p \in Files, GetAttrHit(c, p)
      PROVE  TrueInv'
  <2>1. /\ p \in DOMAIN held /\ pc' = [pc EXCEPT ![c] = "refresh"]
        /\ path' = [path EXCEPT ![c] = p] /\ stat' = [stat EXCEPT ![c] = held[p]]
        /\ UNCHANGED <<held, result, was>>
    BY <1>4 DEF GetAttrHit, cache, history
  <2>2. WasTrue(path'[c], stat'[c])
    BY <2>1 DEF TrueInv, AnswersWereTrue, TypeOK
  <2> QED  BY <1>1, <2>1, <2>2 DEF TypeOK
<1>5. ASSUME NEW c \in Clients, NEW p \in Files, GetAttrMiss(c, p)
      PROVE  TrueInv'
  BY <1>1, <1>5 DEF GetAttrMiss, cache, TypeOK
<1>6. ASSUME NEW c \in Clients, Refresh(c)
      PROVE  TrueInv'
  <2>1. WasTrue(path[c], stat[c])
    BY <1>6 DEF Refresh, TrueInv
  <2> QED  BY <1>2, <1>6, <2>1 DEF Refresh, Answer, request, history
<1>7. ASSUME NEW c \in Clients, Response(c)
      PROVE  TrueInv'
  <2>1. /\ pc[c] = "ask" /\ pc' \in {pc, [pc EXCEPT ![c] = "received"]}
        /\ UNCHANGED <<held, was, path, result, stat>>
    BY <1>7 DEF Response, cache, history
  <2> QED  BY <1>1, <2>1 DEF TypeOK
<1>8. ASSUME NEW c \in Clients, Fail(c) \/ NotFound(c)
      PROVE  TrueInv'
  <2>1. TryNext(c) /\ UNCHANGED <<held, was, path>>
    BY <1>8 DEF Fail, NotFound, cache, history
  <2>2. \/ pc' = [pc EXCEPT ![c] = "ask"] /\ UNCHANGED <<result, stat>>
        \/ /\ pc' = [pc EXCEPT ![c] = "idle"]
           /\ result' = [result EXCEPT ![c] = -ENOENT]
           /\ stat' = [stat EXCEPT ![c] = stat[c]]
    BY <2>1 DEF TryNext, Answer
  <2>3. -ENOENT # 0
    BY DEF ENOENT
  <2>4. \A d \in Clients \ {c} : UNCHANGED <<pc[d], path[d], result[d], stat[d]>>
    BY <2>1, <2>2 DEF TypeOK
  <2>5. pc'[c] = "ask" \/ (pc'[c] = "idle" /\ result'[c] # 0)
    BY <2>2, <2>3 DEF TypeOK
  <2> QED  BY <1>1, <2>1, <2>4, <2>5
<1>9. ASSUME NEW c \in Clients, StoreAttr(c)
      PROVE  TrueInv'
  BY <1>2, <1>9, StoredTrue DEF StoreAttr, Answer, history
<1>10. ASSUME NEW p \in Files, NEW r \in Resources, Change(p, r)
       PROVE  TrueInv'
  <2>1. /\ was' = [was EXCEPT ![p] = @ \cup {r}]
        /\ UNCHANGED <<held, pc, path, result, stat>>
    BY <1>10 DEF Change, cache, request
  <2>2. \A q \in Files : was[q] \subseteq was'[q]
    BY <2>1 DEF TypeOK
  <2>3. \A q \in Files : \A s : WasTrue(q, s) => WasTrue(q, s)'
    BY <2>2 DEF WasTrue
  <2>4. /\ \A q \in DOMAIN held : q \in Files
        /\ \A c \in Clients : pc[c] = "refresh" => path[c] \in Files
    BY DEF TypeOK
  <2> QED  BY <2>1, <2>3, <2>4 DEF TrueInv, AnswersWereTrue, Answered, WasTrue
<1>11. ASSUME NEW n \in 1..Len(order), EvictEntries(n)
       PROVE  TrueInv'
  <2>1. /\ \A q \in DOMAIN held' : q \in DOMAIN held /\ held'[q] = held[q]
        /\ UNCHANGED <<was, pc, path, result, stat>>
    BY <1>11 DEF EvictEntries, Cache!Evict, request, history
  <2> QED  BY <2>1 DEF TrueInv, AnswersWereTrue, Answered, WasTrue
<1>12. CASE UNCHANGED vars
  BY <1>1, <1>12 DEF vars
<1> QED
  BY <1>3, <1>4, <1>5, <1>6, <1>7, <1>8, <1>9, <1>10, <1>11, <1>12
  DEF Next, ClientStep

(* When files' sizes are sent, no request is lost and nothing changes its  *)
(* nature while it is looked up, everything the cache holds and every      *)
(* successful answer describes what the server has had at the path, however *)
(* calls, evictions and changes interleave (remoteattr.cpp:64-114).        *)
THEOREM AnswersAlwaysWereTrue ==
  ASSUME ~ Failures, ~ Races, SizesAreSent
  PROVE  Spec => []AnswersWereTrue
<1>1. Init => SettledInv
  BY DEF Init, SettledInv, Settled
<1>2. Init => TrueInv
  BY PathsAssumption DEF Init, Cache!Init, TrueInv, AnswersWereTrue, Answered
<1>3. TypeOK /\ LookupInv /\ SettledInv /\ [Next]_vars => SettledInv'
  BY SettledStep
<1>4. TypeOK /\ LookupInv /\ SettledInv /\ TrueInv /\ [Next]_vars => TrueInv'
  BY TrueStep
<1>5. TrueInv => AnswersWereTrue
  BY DEF TrueInv
<1> QED
  BY <1>1, <1>2, <1>3, <1>4, <1>5, TypeCorrect, LookupInvariant, PTL DEF Spec
=============================================================================
