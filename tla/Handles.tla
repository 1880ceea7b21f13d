------------------------------ MODULE Handles -------------------------------
(***************************************************************************)
(* File handles: AutoHttpFsContexts (context.cpp:58-96) and the handlers   *)
(* of AutoHttpFs that allocate, look up and release a context              *)
(* (autohttpfs.cpp:172-193, 197-259, 274-373; procmap.cpp:49-95).          *)
(*                                                                         *)
(* An open allocates a context on the heap, enters it into the map under   *)
(* the next sequence number and gives the kernel that number as the        *)
(* handle.  Every later request finds the context again by its number: the *)
(* map is searched under the lock, but the iterator and the context are    *)
(* used without it.  What keeps them valid is the kernel's side of the     *)
(* protocol, which is modelled with it: requests for a file are sent only  *)
(* between the reply to its open and its release, and the release only     *)
(* when no other request for the file is in flight.                        *)
(***************************************************************************)
EXTENDS Integers, FiniteSets

CONSTANTS
  Threads,    \* libfuse worker threads
  Files,      \* open file descriptions of the kernel
  Procs,      \* control files and directories under .proc
  NoProc,     \* ctx->proc == NULL: a file or directory of a server
  Addresses,  \* where a context may be allocated; reused after delete
  Null,       \* the null pointer, and a file without a context
  MaxOpens    \* bound on the opens

ASSUME DistinctAssumption == NoProc \notin Procs /\ Null \notin Addresses
ASSUME BoundAssumption == MaxOpens \in Nat

VARIABLES
  sequence, m_contexts,  \* the map, from sequence numbers to addresses
  heap,                  \* the contexts that exist, by address
  state, fh, target,     \* the kernel's view of a file; what its open chose
  no_flush,              \* the kernel has seen -ENOSYS from a flush
  op, pc, file, it, ctx, \* the request a thread is in
  own                    \* history: the context that a file's open allocated

kernel == <<state, fh, target, no_flush>>
contexts == <<sequence, m_contexts, heap>>
vars == <<sequence, m_contexts, heap, state, fh, target, no_flush,
          op, pc, file, it, ctx, own>>

End == 0   \* m_contexts.end(): no sequence number is 0

Init ==
  /\ sequence = 1
  /\ m_contexts = [q \in {} |-> Null]
  /\ heap = [a \in {} |-> Null]
  /\ state = [f \in Files |-> "closed"]
  /\ fh = [f \in Files |-> 0]
  /\ target = [f \in Files |-> NoProc]
  /\ no_flush = FALSE
  /\ op \in [Threads -> {"open"}]
  /\ pc = [t \in Threads |-> "idle"]
  /\ file \in [Threads -> Files]
  /\ it = [t \in Threads |-> End]
  /\ ctx = [t \in Threads |-> Null]
  /\ own = [f \in Files |-> Null]

InFlight(f) == \E t \in Threads : pc[t] # "idle" /\ file[t] = f

Start(t, f, o, where) ==
  /\ pc[t] = "idle"
  /\ op' = [op EXCEPT ![t] = o]
  /\ file' = [file EXCEPT ![t] = f]
  /\ pc' = [pc EXCEPT ![t] = where]
  /\ UNCHANGED <<it, ctx>>

\* The end of a handler.  Its locals are gone.
Return(t) ==
  /\ pc' = [pc EXCEPT ![t] = "idle"]
  /\ it' = [it EXCEPT ![t] = End]
  /\ ctx' = [ctx EXCEPT ![t] = Null]
  /\ UNCHANGED <<op, file>>

Goto(t, where) ==
  pc' = [pc EXCEPT ![t] = where] /\ UNCHANGED <<op, file>>

-----------------------------------------------------------------------------
(* The requests the kernel sends. *)

\* OPEN or OPENDIR of a path that is in .proc or exists on a server; the
\* handlers return an error before they allocate anything for all others.
SendOpen(t, f, p) ==
  /\ sequence + Cardinality({g \in Files : state[g] = "opening"}) <= MaxOpens
  /\ state[f] = "closed"
  /\ Start(t, f, "open", "alloc")
  /\ state' = [state EXCEPT ![f] = "opening"]
  /\ target' = [target EXCEPT ![f] = p]
  /\ fh' = [fh EXCEPT ![f] = 0]
  /\ UNCHANGED <<contexts, no_flush, own>>

\* READ, WRITE or READDIR
SendIo(t, f) ==
  /\ state[f] = "open"
  /\ Start(t, f, "io", "find")
  /\ UNCHANGED <<contexts, kernel, own>>

\* FLUSH, for every close() of a descriptor until one is answered -ENOSYS
SendFlush(t, f) ==
  /\ state[f] = "open"
  /\ ~ no_flush
  /\ Start(t, f, "flush", "find")
  /\ UNCHANGED <<contexts, kernel, own>>

\* RELEASE or RELEASEDIR
SendRelease(t, f) ==
  /\ state[f] = "open"
  /\ ~ InFlight(f)
  /\ Start(t, f, "release", "find")
  /\ state' = [state EXCEPT ![f] = "releasing"]
  /\ UNCHANGED <<contexts, fh, target, no_flush, own>>

-----------------------------------------------------------------------------
(* alloc_context and what the open handlers do with the context. *)

With(f, x, v) == [y \in DOMAIN f \cup {x} |-> IF y = x THEN v ELSE f[y]]
Without(f, x) == [y \in DOMAIN f \ {x} |-> f[y]]

\* std::map::insert leaves a key that is there alone.
Inserted(map, q, a) == IF q \in DOMAIN map THEN map ELSE With(map, q, a)

\* Bugs: the number is not advanced, and it wraps around early.
SameSequence == sequence
NarrowSequence == (sequence + 1) % 3
NextSequence == sequence + 1

Alloc(t, a) ==
  /\ pc[t] = "alloc"
  /\ a \in Addresses \ DOMAIN heap
  /\ heap' = With(heap, a, [seq |-> sequence, proc |-> NoProc])
  /\ m_contexts' = Inserted(m_contexts, sequence, a)
  /\ sequence' = NextSequence
  /\ ctx' = [ctx EXCEPT ![t] = a]
  /\ own' = [own EXCEPT ![file[t]] = a]
  /\ Goto(t, IF target[file[t]] = NoProc THEN "reply" ELSE "setproc")
  /\ UNCHANGED <<kernel, it>>

\* ctx->proc = proc, when the context is in the map already
SetProc(t) ==
  /\ pc[t] = "setproc"
  /\ heap' = [heap EXCEPT ![ctx[t]].proc = target[file[t]]]
  /\ Goto(t, "reply")
  /\ UNCHANGED <<sequence, m_contexts, kernel, it, ctx, own>>

\* A bug: the handle is the address of the context.
ReplyAddress(t) ==
  /\ pc[t] = "reply"
  /\ ctx[t] \in DOMAIN heap
  /\ fh' = [fh EXCEPT ![file[t]] = ctx[t]]
  /\ state' = [state EXCEPT ![file[t]] = "open"]
  /\ Return(t)
  /\ UNCHANGED <<contexts, target, no_flush, own>>

\* ffi->fh = ctx->seq()
ReplyOpen(t) ==
  /\ pc[t] = "reply"
  /\ ctx[t] \in DOMAIN heap
  /\ fh' = [fh EXCEPT ![file[t]] = heap[ctx[t]].seq]
  /\ state' = [state EXCEPT ![file[t]] = "open"]
  /\ Return(t)
  /\ UNCHANGED <<contexts, target, no_flush, own>>

-----------------------------------------------------------------------------
(* find(), and what the other handlers do with the context. *)

\* m_contexts.find(seq) under the lock
Find(t) ==
  /\ pc[t] = "find"
  /\ it' = [it EXCEPT ![t] =
              IF fh[file[t]] \in DOMAIN m_contexts THEN fh[file[t]] ELSE End]
  /\ Goto(t, "deref")
  /\ UNCHANGED <<contexts, kernel, ctx, own>>

\* (*it).second, after the lock was released; NULL at end()
Deref(t) ==
  /\ pc[t] = "deref"
  /\ \/ it[t] = End /\ ctx' = [ctx EXCEPT ![t] = Null]
     \/ it[t] \in DOMAIN m_contexts
        /\ ctx' = [ctx EXCEPT ![t] = m_contexts[it[t]]]
  /\ Goto(t, "serve")
  /\ UNCHANGED <<contexts, kernel, it, own>>

\* A bug: flush releases the context.
ServeFlushReleases(t) ==
  /\ pc[t] = "serve"
  /\ ctx[t] \in DOMAIN heap
  /\ IF op[t] \in {"release", "flush"}
       THEN Goto(t, "erase") /\ UNCHANGED <<it, ctx>>
       ELSE Return(t)
  /\ no_flush' = (no_flush \/ op[t] = "flush")
  /\ UNCHANGED <<contexts, state, fh, target, own>>

\* The handler reads ctx->proc and dispatches, on a pointer it does not check.
Serve(t) ==
  /\ pc[t] = "serve"
  /\ ctx[t] \in DOMAIN heap
  /\ IF op[t] = "release" THEN Goto(t, "erase") /\ UNCHANGED <<it, ctx>>
                          ELSE Return(t)
  /\ no_flush' = (no_flush \/ op[t] = "flush")
  /\ UNCHANGED <<contexts, state, fh, target, own>>

\* A bug: the context is deleted and stays in the map.
EraseNothing(t) ==
  /\ pc[t] = "erase"
  /\ ctx[t] \in DOMAIN heap
  /\ Goto(t, "delete")
  /\ UNCHANGED <<contexts, kernel, it, ctx, own>>

\* release_context: m_contexts.erase(ctx->seq()) under the lock ...
Erase(t) ==
  /\ pc[t] = "erase"
  /\ ctx[t] \in DOMAIN heap
  /\ m_contexts' = Without(m_contexts, heap[ctx[t]].seq)
  /\ Goto(t, "delete")
  /\ UNCHANGED <<sequence, heap, kernel, it, ctx, own>>

\* ... and delete ctx after it.
Delete(t) ==
  /\ pc[t] = "delete"
  /\ heap' = Without(heap, ctx[t])
  /\ own' = [own EXCEPT ![file[t]] = Null]
  /\ state' = [state EXCEPT ![file[t]] = "closed"]
  /\ Return(t)
  /\ UNCHANGED <<sequence, m_contexts, fh, target, no_flush>>

-----------------------------------------------------------------------------
KernelNext ==
  \E t \in Threads, f \in Files :
    \/ \E p \in Procs \cup {NoProc} : SendOpen(t, f, p)
    \/ SendIo(t, f) \/ SendFlush(t, f) \/ SendRelease(t, f)

HandlerNext ==
  \E t \in Threads :
    \/ \E a \in Addresses : Alloc(t, a)
    \/ SetProc(t) \/ ReplyOpen(t)
    \/ Find(t) \/ Deref(t) \/ Serve(t) \/ Erase(t) \/ Delete(t)

\* A mounted file system that nobody uses.
Unused ==
  /\ \A t \in Threads : pc[t] = "idle"
  /\ \A f \in Files : state[f] = "closed"
  /\ UNCHANGED vars

Next == KernelNext \/ HandlerNext \/ Unused

Spec == Init /\ [][Next]_vars

-----------------------------------------------------------------------------
Context == [seq : Nat, proc : Procs \cup {NoProc}]

TypeOK ==
  /\ sequence \in Nat
  /\ m_contexts \in [DOMAIN m_contexts -> Addresses]
  /\ DOMAIN m_contexts \subseteq Nat
  /\ heap \in [DOMAIN heap -> Context] /\ DOMAIN heap \subseteq Addresses
  /\ state \in [Files -> {"closed", "opening", "open", "releasing"}]
  /\ fh \in [Files -> Nat]
  /\ target \in [Files -> Procs \cup {NoProc}]
  /\ no_flush \in BOOLEAN
  /\ op \in [Threads -> {"open", "io", "flush", "release"}]
  /\ pc \in [Threads -> {"idle", "alloc", "setproc", "reply", "find", "deref",
                         "serve", "erase", "delete"}]
  /\ file \in [Threads -> Files]
  /\ it \in [Threads -> Nat]
  /\ ctx \in [Threads -> Addresses \cup {Null}]
  /\ own \in [Files -> Addresses \cup {Null}]

(* No handler uses an iterator or a context that has been erased or        *)
(* deleted, or none at all, although both are used without the lock that   *)
(* they were looked up under (context.cpp:91-94; autohttpfs.cpp:251, 308,  *)
(* 340, 354, 368).                                                         *)
NoDangling ==
  \A t \in Threads :
    /\ pc[t] = "deref" => it[t] \in DOMAIN m_contexts
    /\ pc[t] \in {"setproc", "reply", "serve", "erase", "delete"} =>
         ctx[t] \in DOMAIN heap

(* The context with which a request is served is the one that the open of  *)
(* its file allocated, and dispatches to what that open chose: a handle is *)
(* never taken for another one, whatever was opened and released meanwhile *)
(* and wherever the allocator put it (context.cpp:64-66, 78).              *)
ServedByItsOpen ==
  \A t \in Threads :
    pc[t] = "serve" => /\ ctx[t] = own[file[t]]
                       /\ heap[ctx[t]].proc = target[file[t]]

(* Files that are open have handles of their own, none of them 0, which    *)
(* the handlers take for "not open" (autohttpfs.cpp:205, 305, 337).        *)
HandlesDiffer ==
  \A f, g \in Files :
    state[f] = "open" =>
      /\ fh[f] # 0
      /\ (f # g /\ state[g] = "open") => fh[f] # fh[g]

(* When no request is in flight, the map and the heap hold a context for   *)
(* each open file and nothing else (context.cpp:62-81).                    *)
NoContextLeft ==
  (\A t \in Threads : pc[t] = "idle") =>
    /\ DOMAIN m_contexts = {fh[f] : f \in {g \in Files : state[g] = "open"}}
    /\ DOMAIN heap = {own[f] : f \in {g \in Files : state[g] = "open"}}
=============================================================================
