----------------------------- MODULE RemoteAttr -----------------------------
(***************************************************************************)
(* How a path gets its attributes: RemoteAttr::get_attr and store          *)
(* (remoteattr.cpp:26-117) with the HEAD requests of CurlAccessor          *)
(* (curlaccessor.cpp:50-99, 160-195), over the stat cache as FifoCache     *)
(* specifies it.                                                           *)
(*                                                                         *)
(* A lookup that misses the cache asks the server up to three times: for   *)
(* "path/", for "path" following redirects, and for "path" without         *)
(* following them.  Each HTTP response is one step at which the server is  *)
(* read, the processing of the last one and the cache's insert are a later *)
(* step, and nothing is locked in between.                                 *)
(***************************************************************************)
EXTENDS Integers, Sequences

CONSTANTS
  Clients,
  Files,        \* paths that are looked up on the server
  Root, Dots,   \* the path "/", and the paths that begin with "/."
  Resources,    \* what the server may have at a path
  Absent,       \* the resource that is nothing at all
  PageLength,   \* Content-Length of the page that comes with a redirect
  Failures,     \* may a request get no response?
  Races,        \* may a path change what it is while it is looked up?
  MaxChanges    \* bound on the changes of the server

(* What the server has at a path: a directory, a file or nothing; its size *)
(* and what X-FileStat-Json says of it ("none": no such header, "good": the *)
(* truth, "bad": text that FileStat cannot parse); the status of "path/",  *)
(* of "path" asked for as text/json, and of "path" asked for as anything.  *)
(* A redirect leads from "path" to "path/" for a directory and to another  *)
(* URL, its target, for a file.  length is the set that holds the file's   *)
(* Content-Length, or the empty set.                                       *)
Redirects == {301, 302}

Resource(r) ==
  /\ r.kind \in {"dir", "reg", "nothing"}
  /\ r.size \in Nat
  /\ r.length \in SUBSET Nat
  /\ r.filestat \in {"none", "good", "bad"}
  /\ r.kind = "dir" => r.json = 301 /\ r.plain = 301
  /\ r.kind = "reg" => /\ r.slash \notin {200, 403}
                       /\ r.json \in Redirects \cup {200} \/ r.plain = 200
  /\ r.slash \notin Redirects
  /\ r.kind = "nothing" => /\ r.slash = 404 /\ r.json = 404 /\ r.plain = 404

ASSUME ResourcesAssumption ==
  /\ \A r \in Resources : Resource(r)
  /\ Absent \in Resources /\ Absent.kind = "nothing"
ASSUME PathsAssumption == Root \notin Files \cup Dots /\ Dots \cap Files = {}
ASSUME BoundsAssumption ==
  PageLength \in Nat /\ MaxChanges \in Nat
  /\ Failures \in BOOLEAN /\ Races \in BOOLEAN

(* A UrlStat without its times.  -1 is the length (uint64_t)-1 of a reply  *)
(* that names none.                                                        *)
Unknown == -1
Stat(kind, length) == [kind |-> kind, length |-> length]
DefaultStat == Stat("dir", 0)
Lengths ==
  {Unknown, 0, PageLength} \cup {r.size : r \in Resources}
    \cup UNION {r.length : r \in Resources}
Stats == [kind : {"dir", "reg"}, length : Lengths]

VARIABLES
  server,       \* what is at each path
  order, held,  \* the cache
  pc,           \* "idle", "refresh", "ask", "received"
  path,         \* the path a client looks up
  probe,        \* which of the three requests
  url,          \* "path/", "path" or "target": the URL curl asks for next
  got,          \* the responses to this request so far
  stat,         \* the client's UrlStat
  result,       \* 0, or -ENOENT, of the client's last finished call
  changes,
  \* history, for the properties only
  was,          \* all that the server has had at a path
  excused       \* has a call seen its path absent, or lost a request?

cache == <<order, held>>
request == <<path, probe, url, got>>
history == <<was, excused>>
vars == <<server, order, held, pc, path, probe, url, got, stat, result,
          changes, was, excused>>

Cache == INSTANCE FifoCache WITH Paths <- Files, Data <- Stats

ENOENT == 2

Init ==
  /\ server \in [Files -> Resources]
  /\ Cache!Init
  /\ pc = [c \in Clients |-> "idle"]
  /\ path = [c \in Clients |-> Root]
  /\ probe = [c \in Clients |-> 1]
  /\ url = [c \in Clients |-> "path/"]
  /\ got = [c \in Clients |-> << >>]
  /\ stat = [c \in Clients |-> DefaultStat]
  /\ result = [c \in Clients |-> 0]
  /\ changes = 0
  /\ was = [p \in Files |-> {server[p]}]
  /\ excused = [c \in Clients |-> FALSE]

-----------------------------------------------------------------------------
(* The server, and the network. *)

LookedUp(p) == \E c \in Clients : pc[c] \in {"ask", "received"} /\ path[c] = p

(* What tells how a resource is found: its kind and its status codes.      *)
Nature(r) == <<r.kind, r.slash, r.json, r.plain>>

Change(p, r) ==
  /\ changes < MaxChanges
  /\ r # server[p]
  /\ Nature(r) = Nature(server[p]) \/ Races \/ ~ LookedUp(p)
  /\ server' = [server EXCEPT ![p] = r]
  /\ was' = [was EXCEPT ![p] = @ \cup {r}]
  /\ excused' = [c \in Clients |->
                   excused[c] \/ (path[c] = p /\ r.kind = "nothing")]
  /\ changes' = changes + 1
  /\ UNCHANGED <<cache, pc, request, stat, result>>

(* The response to a HEAD request for u. *)
Respond(r, u, accept) ==
  LET status == CASE u = "path/" -> r.slash
                  [] u = "target" -> IF r.kind = "reg" THEN 200 ELSE 404
                  [] OTHER -> IF accept THEN r.json ELSE r.plain
  IN  [status |-> status,
       length |-> IF status \in Redirects THEN {PageLength} ELSE r.length,
       filestat |-> IF status = 200 THEN r.filestat ELSE "none",
       about |-> IF r.kind = "dir" THEN Stat("dir", r.size)
                                   ELSE Stat("reg", r.size)]

Location(r) == IF r.kind = "dir" THEN "path/" ELSE "target"

-----------------------------------------------------------------------------
(* The three requests: "path/" and "path" as text/json, then "path" with   *)
(* neither an Accept header nor FOLLOWLOCATION.                            *)
UrlWithoutSlash(k) == "path"   \* a bug: the first request is for a file
Url(k) == IF k = 1 THEN "path/" ELSE "path"
Accept(k) == k \in {1, 2}
Follows(k) == k \in {1, 2}

(* What header_callback has collected when the last response is in: each   *)
(* header overwrites its field, and no field is reset between responses.   *)
Latest(rs, Has(_)) ==
  {i \in 1..Len(rs) : Has(rs[i]) /\ \A j \in i + 1 .. Len(rs) : ~ Has(rs[j])}

ResStatus(rs) == rs[Len(rs)].status

(* A bug: the first Content-Length is kept. *)
ContentLengthFirst(rs) ==
  LET named == {i \in 1..Len(rs) : rs[i].length # {}}
  IN  IF named = {} THEN Unknown
      ELSE CHOOSE n \in UNION {rs[i].length : i \in
                                  {i \in named : \A j \in named : i <= j}} : TRUE

ContentLength(rs) ==
  LET HasLength(r) == r.length # {}
      last == Latest(rs, HasLength)
  IN  IF last = {} THEN Unknown
      ELSE CHOOSE n \in UNION {rs[i].length : i \in last} : TRUE

FileStats(rs) ==
  LET HasFileStat(r) == r.filestat # "none"
  IN  {rs[i] : i \in Latest(rs, HasFileStat)}

(* A bug: a redirect does not tell a directory. *)
KindFoundIfServed(k, status) ==
  CASE k = 1 /\ status \in {200, 403} -> "dir"
    [] k # 1 /\ status = 200 -> "reg"
    [] OTHER -> "nothing"

(* What a status says about the path: its kind, or nothing. *)
KindFound(k, status) ==
  CASE k = 1 /\ status \in {200, 403} -> "dir"
    [] k = 2 /\ status = 200 -> "reg"
    [] k = 3 /\ status = 200 -> "reg"
    [] k = 3 /\ status = 301 -> "dir"
    [] OTHER -> "nothing"

(* The UrlStat store() gives the cache.  When FileStat throws, that is the *)
(* caller's, as it was before; get_attr logs the error and returns 0.      *)
StoredStat(rs, kind, old) ==
  IF FileStats(rs) = {} THEN Stat(kind, ContentLength(rs))
  ELSE LET r == CHOOSE r \in FileStats(rs) : TRUE
       IN  IF r.filestat = "good" THEN r.about ELSE old

Answer(c, res, s) ==
  /\ pc' = [pc EXCEPT ![c] = "idle"]
  /\ result' = [result EXCEPT ![c] = res]
  /\ stat' = [stat EXCEPT ![c] = s]

\* The request ends: nothing of it is left for the next one.
NoRequest(c) ==
  /\ probe' = [probe EXCEPT ![c] = 1]
  /\ url' = [url EXCEPT ![c] = Url(1)]
  /\ got' = [got EXCEPT ![c] = << >>]

\* get_attr of "/" and of "/.anything" is answered without the server.
GetAttrLocal(c, p) ==
  /\ pc[c] = "idle"
  /\ IF p = Root THEN Answer(c, 0, Stat("dir", 0))
                 ELSE Answer(c, -ENOENT, DefaultStat)
  /\ path' = [path EXCEPT ![c] = p]
  /\ UNCHANGED <<server, cache, probe, url, got, changes, history>>

\* find() sees a valid entry ...
GetAttrHit(c, p) ==
  /\ pc[c] = "idle"
  /\ p \in DOMAIN held
  /\ pc' = [pc EXCEPT ![c] = "refresh"]
  /\ path' = [path EXCEPT ![c] = p]
  /\ stat' = [stat EXCEPT ![c] = held[p]]
  /\ UNCHANGED <<server, cache, probe, url, got, result, changes, history>>

\* ... and adds it again after the lock was released.
Refresh(c) ==
  /\ pc[c] = "refresh"
  /\ Cache!Store(path[c], stat[c])
  /\ Answer(c, 0, stat[c])
  /\ UNCHANGED <<server, request, changes, history>>

\* find() sees no entry, or one that has expired.
GetAttrMiss(c, p) ==
  /\ pc[c] = "idle"
  /\ pc' = [pc EXCEPT ![c] = "ask"]
  /\ path' = [path EXCEPT ![c] = p]
  /\ stat' = [stat EXCEPT ![c] = DefaultStat]
  /\ excused' = [excused EXCEPT ![c] = server[p].kind = "nothing"]
  /\ UNCHANGED <<server, cache, probe, url, got, result, changes, was>>

\* The server answers, and curl follows a redirect.
Response(c) ==
  /\ pc[c] = "ask"
  /\ LET r == Respond(server[path[c]], url[c], Accept(probe[c]))
         redirected == r.status \in Redirects /\ Follows(probe[c])
     IN  /\ got' = [got EXCEPT ![c] = Append(@, r)]
         /\ IF redirected
              THEN /\ url' = [url EXCEPT ![c] = Location(server[path[c]])]
                   /\ UNCHANGED pc
              ELSE pc' = [pc EXCEPT ![c] = "received"] /\ UNCHANGED url
  /\ UNCHANGED <<server, cache, path, probe, stat, result, changes, history>>

\* Bugs: a fourth request, and the same one again.
TryFour(c) ==
  IF probe[c] < 4
    THEN /\ probe' = [probe EXCEPT ![c] = @ + 1]
         /\ url' = [url EXCEPT ![c] = Url(probe[c] + 1)]
         /\ got' = [got EXCEPT ![c] = << >>]
         /\ pc' = [pc EXCEPT ![c] = "ask"]
         /\ UNCHANGED <<result, stat>>
    ELSE NoRequest(c) /\ Answer(c, -ENOENT, stat[c])

TryAgain(c) ==
  /\ url' = [url EXCEPT ![c] = Url(probe[c])]
  /\ got' = [got EXCEPT ![c] = << >>]
  /\ pc' = [pc EXCEPT ![c] = "ask"]
  /\ UNCHANGED <<probe, result, stat>>

\* Another request, or none: get_attr gives up after the third.
TryNext(c) ==
  IF probe[c] < 3
    THEN /\ probe' = [probe EXCEPT ![c] = @ + 1]
         /\ url' = [url EXCEPT ![c] = Url(probe[c] + 1)]
         /\ got' = [got EXCEPT ![c] = << >>]
         /\ pc' = [pc EXCEPT ![c] = "ask"]
         /\ UNCHANGED <<result, stat>>
    ELSE NoRequest(c) /\ Answer(c, -ENOENT, stat[c])

\* curl_easy_perform fails: the status becomes minus the error code.
Fail(c) ==
  /\ Failures
  /\ pc[c] = "ask"
  /\ TryNext(c)
  /\ excused' = [excused EXCEPT ![c] = TRUE]
  /\ UNCHANGED <<server, cache, path, changes, was>>

Found(c) == KindFound(probe[c], ResStatus(got[c]))

StoreAttr(c) ==
  /\ pc[c] = "received"
  /\ Found(c) # "nothing"
  /\ LET s == StoredStat(got[c], Found(c), stat[c])
     IN  Cache!Store(path[c], s) /\ Answer(c, 0, s)
  /\ NoRequest(c)
  /\ UNCHANGED <<server, path, changes, history>>

NotFound(c) ==
  /\ pc[c] = "received"
  /\ Found(c) = "nothing"
  /\ TryNext(c)
  /\ UNCHANGED <<server, cache, path, changes, history>>

\* Entries leave the cache when it is trimmed.
EvictEntries(n) ==
  /\ Cache!Evict(n)
  /\ UNCHANGED <<server, pc, request, stat, result, changes, history>>

-----------------------------------------------------------------------------
ClientStep(c) ==
  Refresh(c) \/ Response(c) \/ Fail(c) \/ StoreAttr(c) \/ NotFound(c)

Next ==
  \/ \E c \in Clients :
       \/ \E p \in Dots \cup {Root} : GetAttrLocal(c, p)
       \/ \E p \in Files : GetAttrHit(c, p) \/ GetAttrMiss(c, p)
       \/ ClientStep(c)
  \/ \E p \in Files, r \in Resources : Change(p, r)
  \/ \E n \in 1..Len(order) : EvictEntries(n)

Spec == Init /\ [][Next]_vars

(* A call that has begun goes on: a server answers, or the connection      *)
(* fails, and worker threads are scheduled.                                *)
FairSpec == Spec /\ \A c \in Clients : WF_vars(ClientStep(c))

-----------------------------------------------------------------------------
URLs == {"path", "path/", "target"}
Responses == {Respond(r, u, accept) :
                r \in Resources, u \in URLs, accept \in BOOLEAN}

(* Every variable has its type, and a client processes a response only     *)
(* after it has received one.                                              *)
TypeOK ==
  /\ server \in [Files -> Resources]
  /\ held \in [DOMAIN held -> Stats] /\ DOMAIN held \subseteq Files
  /\ order \in Seq(Files)
  /\ pc \in [Clients -> {"idle", "refresh", "ask", "received"}]
  /\ path \in [Clients -> Files \cup Dots \cup {Root}]
  /\ probe \in [Clients -> 1..3]
  /\ url \in [Clients -> URLs]
  /\ got \in [Clients -> Seq(Responses)]
  /\ stat \in [Clients -> Stats]
  /\ result \in [Clients -> {0, -ENOENT}]
  /\ changes \in 0..MaxChanges
  /\ \A c \in Clients :
       /\ pc[c] # "idle" => path[c] \in Files
       /\ pc[c] = "received" => got[c] # << >>
  /\ was \in [Files -> SUBSET Resources]
  /\ excused \in [Clients -> BOOLEAN]

(* Is s what the server has had at p: a directory, or a file of that size? *)
WasTrue(p, s) ==
  \E r \in was[p] : r.kind = s.kind /\ (s.kind = "reg" => r.size = s.length)

WasKind(p, s) == \E r \in was[p] : r.kind = s.kind

Answered(c) == pc[c] = "idle" /\ path[c] \in Files /\ result[c] = 0

(* Everything the cache holds and every successful answer describes a      *)
(* resource that the server has had at that path, of that kind and, for a  *)
(* file, of that size, however lookups, refreshes, evictions and changes   *)
(* of the server interleave (remoteattr.cpp:64-114).                       *)
AnswersWereTrue ==
  /\ \A p \in DOMAIN held : WasTrue(p, held[p])
  /\ \A c \in Clients : Answered(c) => WasTrue(path[c], stat[c])

(* Whatever requests are lost and whatever changes while it is looked up,  *)
(* a path is taken for a directory only if it has been one, or a file that *)
(* has moved permanently: nothing else makes a probe end in "dir", nor     *)
(* does a cached entry turn into one (remoteattr.cpp:70-74, 107-110).      *)
DirsWereDirs ==
  \A p \in DOMAIN held :
    held[p].kind = "dir" =>
      \E r \in was[p] : r.kind = "dir" \/ (r.kind = "reg" /\ r.plain = 301)

(* A lookup that loses no request answers -ENOENT only if the path was     *)
(* absent at some time during the lookup: no answer "absent" is cached,    *)
(* and the third probe recognises all that exists (remoteattr.cpp:98-116). *)
AbsentWasAbsent ==
  \A c \in Clients :
    pc[c] = "idle" /\ path[c] \in Files /\ result[c] = -ENOENT => excused[c]

(* Every lookup returns (remoteattr.cpp:45-117). *)
LookupsReturn == \A c \in Clients : (pc[c] # "idle") ~> (pc[c] = "idle")

-----------------------------------------------------------------------------
(* A property the code does not have. *)

(* What is stored as a regular file has been one, and what is stored as a  *)
(* directory has been one (the comments of remoteattr.cpp:71, 85, 98, 106).*)
KindsWereTrue == \A p \in DOMAIN held : WasKind(p, held[p])
=============================================================================
