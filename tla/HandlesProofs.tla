--------------------------- MODULE HandlesProofs ----------------------------
(* Theorems about Handles for any threads, files and addresses.            *)
EXTENDS Handles, TLAPS

(* The context at a is in the map, under its own number. *)
Registered(a) ==
  /\ a \in DOMAIN heap
  /\ heap[a].seq \in DOMAIN m_contexts
  /\ m_contexts[heap[a].seq] = a

(* Contexts have different numbers, all used up, and the map has no other. *)
HeapOK ==
  /\ sequence # 0
  /\ \A a \in DOMAIN heap : heap[a].seq # 0 /\ heap[a].seq < sequence
  /\ \A a, b \in DOMAIN heap : heap[a].seq = heap[b].seq => a = b
  /\ \A q \in DOMAIN m_contexts :
       m_contexts[q] \in DOMAIN heap /\ heap[m_contexts[q]].seq = q

(* Every context belongs to one file. *)
OwnersOK ==
  /\ \A f \in Files : own[f] # Null => own[f] \in DOMAIN heap
  /\ \A f, g \in Files : own[f] = own[g] /\ own[f] # Null => f = g

(* The handle of an open file is the number of the context it owns. *)
OpenOK ==
  \A f \in Files :
    state[f] \in {"open", "releasing"} =>
      /\ own[f] # Null
      /\ fh[f] = heap[own[f]].seq
      /\ heap[own[f]].proc = target[f]
      /\ state[f] = "open" => Registered(own[f])

(* What a thread knows at each point of its handler. *)
ThreadOK(t) ==
  /\ pc[t] \in {"alloc", "setproc", "reply"} =>
       op[t] = "open" /\ state[file[t]] = "opening"
  /\ pc[t] \in {"setproc", "reply"} =>
       ctx[t] = own[file[t]] /\ own[file[t]] # Null /\ Registered(ctx[t])
  /\ pc[t] = "reply" => heap[ctx[t]].proc = target[file[t]]
  /\ pc[t] \in {"find", "deref", "serve"} =>
       \/ op[t] \in {"io", "flush"} /\ state[file[t]] = "open"
       \/ op[t] = "release" /\ state[file[t]] = "releasing"
  /\ pc[t] \in {"find", "deref", "serve", "erase"} => Registered(own[file[t]])
  /\ pc[t] = "deref" => it[t] = fh[file[t]]
  /\ pc[t] \in {"serve", "erase", "delete"} => ctx[t] = own[file[t]]
  /\ pc[t] \in {"erase", "delete"} =>
       op[t] = "release" /\ state[file[t]] = "releasing"
  /\ pc[t] = "delete" => \A q \in DOMAIN m_contexts : m_contexts[q] # ctx[t]

(* Only reads, writes and flushes of a file are in flight together. *)
Exclusive ==
  \A t, u \in Threads :
    t # u /\ pc[t] # "idle" /\ pc[u] # "idle" /\ file[t] = file[u] =>
      op[t] \in {"io", "flush"}

IInv ==
  /\ TypeOK /\ HeapOK /\ OwnersOK /\ OpenOK
  /\ \A t \in Threads : ThreadOK(t)
  /\ Exclusive

(* The invariant contains all that the theorem states.                     *)
LEMMA InvariantImplies == IInv => NoDangling /\ ServedByItsOpen /\ HandlesDiffer
<1> SUFFICES ASSUME IInv PROVE NoDangling /\ ServedByItsOpen /\ HandlesDiffer
  OBVIOUS
<1> USE DEF IInv, TypeOK
<1>1. NoDangling
  <2> SUFFICES ASSUME NEW t \in Threads
               PROVE  /\ pc[t] = "deref" => it[t] \in DOMAIN m_contexts
                      /\ pc[t] \in {"setproc", "reply", "serve", "erase", "delete"}
                           => ctx[t] \in DOMAIN heap
    BY DEF NoDangling
  <2>1. ThreadOK(t)
    OBVIOUS
  <2> QED  BY <2>1 DEF ThreadOK, Registered, OpenOK, OwnersOK
<1>2. ServedByItsOpen
  BY DEF ServedByItsOpen, ThreadOK, OpenOK
<1>3. HandlesDiffer
  BY DEF HandlesDiffer, OpenOK, HeapOK, OwnersOK
<1> QED  BY <1>1, <1>2, <1>3

(* The invariant holds before the first request.                           *)
LEMMA InitOK == Init => IInv
<1> SUFFICES ASSUME Init PROVE IInv
  OBVIOUS
<1>1. DOMAIN m_contexts = {} /\ DOMAIN heap = {}
  BY DEF Init
<1>2. TypeOK
  BY <1>1 DEF Init, TypeOK, End
<1>3. HeapOK /\ OwnersOK /\ OpenOK /\ Exclusive
  BY <1>1 DEF Init, HeapOK, OwnersOK, OpenOK, Exclusive
<1>4. \A t \in Threads : ThreadOK(t)
  BY DEF Init, ThreadOK
<1> QED  BY <1>2, <1>3, <1>4 DEF IInv

(* Every step keeps the types. *)
LEMMA TypeStep ==
  ASSUME TypeOK, [Next]_vars
  PROVE  TypeOK'
<1> USE DEF TypeOK
<1>1. ASSUME NEW t \in Threads, NEW f \in Files,
             NEW p \in Procs \cup {NoProc}, SendOpen(t, f, p)
      PROVE  TypeOK'
  BY <1>1 DEF SendOpen, Start, contexts
<1>2. ASSUME NEW t \in Threads, NEW f \in Files,
             SendIo(t, f) \/ SendFlush(t, f) \/ SendRelease(t, f)
      PROVE  TypeOK'
  BY <1>2 DEF SendIo, SendFlush, SendRelease, Start, contexts, kernel
<1>3. ASSUME NEW t \in Threads, NEW a \in Addresses, Alloc(t, a)
      PROVE  TypeOK'
  <2>1. heap' \in [DOMAIN heap' -> Context] /\ DOMAIN heap' \subseteq Addresses
    <3>1. [seq |-> sequence, proc |-> NoProc] \in Context
      BY DEF Context
    <3> QED  BY <1>3, <3>1 DEF Alloc, With
  <2>2. /\ m_contexts' \in [DOMAIN m_contexts' -> Addresses]
        /\ DOMAIN m_contexts' \subseteq Nat
    BY <1>3 DEF Alloc, With, Inserted
  <2>3. /\ sequence' \in Nat
        /\ ctx' \in [Threads -> Addresses \cup {Null}]
        /\ own' \in [Files -> Addresses \cup {Null}]
        /\ pc' \in [Threads -> {"idle", "alloc", "setproc", "reply", "find",
                               "deref", "serve", "erase", "delete"}]
    BY <1>3 DEF Alloc, Goto, NextSequence
  <2> QED  BY <1>3, <2>1, <2>2, <2>3 DEF Alloc, Goto, kernel
<1>4. ASSUME NEW t \in Threads, SetProc(t)
      PROVE  TypeOK'
  <2>1. heap' \in [DOMAIN heap' -> Context] /\ DOMAIN heap' \subseteq Addresses
    <3>1. DOMAIN heap' = DOMAIN heap
      BY <1>4 DEF SetProc
    <3>2. ASSUME NEW a \in DOMAIN heap
          PROVE  heap'[a] \in Context
      BY <1>4, <3>2 DEF SetProc, Context
    <3> QED  BY <1>4, <3>1, <3>2 DEF SetProc
  <2> QED  BY <1>4, <2>1 DEF SetProc, Goto, kernel
<1>5. ASSUME NEW t \in Threads, ReplyOpen(t)
      PROVE  TypeOK'
  <2>1. heap[ctx[t]].seq \in Nat
    BY <1>5 DEF ReplyOpen, Context
  <2> QED  BY <1>5, <2>1 DEF ReplyOpen, Return, contexts, End
<1>6. ASSUME NEW t \in Threads, Find(t) \/ Deref(t)
      PROVE  TypeOK'
  BY <1>6 DEF Find, Deref, Goto, contexts, kernel, End
<1>7. ASSUME NEW t \in Threads, Serve(t)
      PROVE  TypeOK'
  BY <1>7 DEF Serve, Goto, Return, contexts, End
<1>8. ASSUME NEW t \in Threads, Erase(t)
      PROVE  TypeOK'
  BY <1>8 DEF Erase, Goto, Without, kernel
<1>9. ASSUME NEW t \in Threads, Delete(t)
      PROVE  TypeOK'
  <2>1. heap' \in [DOMAIN heap' -> Context] /\ DOMAIN heap' \subseteq Addresses
    BY <1>9 DEF Delete, Without
  <2> QED  BY <1>9, <2>1 DEF Delete, Return, End
<1>10. CASE UNCHANGED vars
  BY <1>10 DEF vars
<1> QED
  BY <1>1, <1>2, <1>3, <1>4, <1>5, <1>6, <1>7, <1>8, <1>9, <1>10
  DEF Next, KernelNext, HandlerNext, Unused

(* A request that the kernel sends. *)
LEMMA SendStep ==
  ASSUME IInv, TypeOK', NEW t \in Threads, NEW f \in Files,
         \/ \E p \in Procs \cup {NoProc} : SendOpen(t, f, p)
         \/ SendIo(t, f) \/ SendFlush(t, f) \/ SendRelease(t, f)
  PROVE  IInv'
<1> USE DEF IInv
<1> DEFINE o == op'[t]
           where == pc'[t]
<1>1. /\ pc[t] = "idle" /\ file' = [file EXCEPT ![t] = f]
      /\ op' = [op EXCEPT ![t] = o] /\ pc' = [pc EXCEPT ![t] = where]
      /\ UNCHANGED <<it, ctx, sequence, m_contexts, heap, own>>
  BY DEF SendOpen, SendIo, SendFlush, SendRelease, Start, contexts, TypeOK
<1>2. HeapOK' /\ OwnersOK'
  BY <1>1 DEF HeapOK, OwnersOK
<1>3. \A a : Registered(a)' <=> Registered(a)
  BY <1>1 DEF Registered
<1>4. ASSUME NEW g \in Files, g # f
      PROVE  state'[g] = state[g] /\ fh'[g] = fh[g] /\ target'[g] = target[g]
  <2>1. CASE \E p \in Procs \cup {NoProc} : SendOpen(t, f, p)
    BY <1>4, <2>1 DEF SendOpen, TypeOK
  <2>2. CASE SendIo(t, f) \/ SendFlush(t, f)
    BY <2>2 DEF SendIo, SendFlush, kernel
  <2>3. CASE SendRelease(t, f)
    BY <1>4, <2>3 DEF SendRelease, TypeOK
  <2> QED  BY <2>1, <2>2, <2>3
<1>5. \/ /\ o = "open" /\ where = "alloc"
         /\ state[f] = "closed" /\ state'[f] = "opening"
      \/ /\ where = "find" /\ state[f] = "open"
         /\ fh'[f] = fh[f] /\ target'[f] = target[f]
         /\ \/ o \in {"io", "flush"} /\ state'[f] = "open"
            \/ o = "release" /\ state'[f] = "releasing" /\ ~ InFlight(f)
  <2>1. CASE \E p \in Procs \cup {NoProc} : SendOpen(t, f, p)
    BY <2>1 DEF SendOpen, Start, TypeOK
  <2>2. CASE SendIo(t, f) \/ SendFlush(t, f)
    BY <2>2 DEF SendIo, SendFlush, Start, kernel, TypeOK
  <2>3. CASE SendRelease(t, f)
    BY <2>3 DEF SendRelease, Start, TypeOK
  <2> QED  BY <2>1, <2>2, <2>3
<1> HIDE DEF o, where
<1>6. OpenOK'
  <2> SUFFICES ASSUME NEW g \in Files, state'[g] \in {"open", "releasing"}
               PROVE  /\ own[g] # Null
                      /\ fh'[g] = heap[own[g]].seq
                      /\ heap[own[g]].proc = target'[g]
                      /\ state'[g] = "open" => Registered(own[g])
    BY <1>1, <1>3 DEF OpenOK
  <2>1. CASE g = f
    BY <1>5, <2>1 DEF OpenOK
  <2>2. CASE g # f
    BY <1>4, <2>2 DEF OpenOK
  <2> QED  BY <2>1, <2>2
<1>7. ASSUME NEW u \in Threads, u # t, pc[u] # "idle", file[u] = f
      PROVE  /\ o \in {"io", "flush"} /\ op[u] \in {"io", "flush"}
             /\ state'[f] = state[f] /\ fh'[f] = fh[f] /\ target'[f] = target[f]
  <2>1. ThreadOK(u) /\ pc[u] \in {"alloc", "setproc", "reply", "find", "deref",
                                 "serve", "erase", "delete"}
    BY <1>7 DEF TypeOK
  <2>2. state[f] # "closed" /\ InFlight(f)
    BY <1>7, <2>1 DEF ThreadOK, InFlight
  <2>3. state[f] = "open" => op[u] \in {"io", "flush"}
    BY <1>7, <2>1 DEF ThreadOK
  <2> QED  BY <1>5, <2>2, <2>3
<1>8. Exclusive'
  BY <1>1, <1>7 DEF Exclusive, TypeOK
<1>9. ASSUME NEW u \in Threads
      PROVE  ThreadOK(u)'
  <2>1. CASE u = t
    <3>1. pc'[t] = where /\ op'[t] = o /\ file'[t] = f
      BY <1>1 DEF TypeOK
    <3>2. where = "find" => Registered(own[f])
      BY <1>5 DEF OpenOK
    <3> QED  BY <1>1, <1>3, <1>5, <2>1, <3>1, <3>2 DEF ThreadOK
  <2>2. CASE u # t /\ pc[u] = "idle"
    BY <1>1, <2>2 DEF ThreadOK, TypeOK
  <2>3. CASE u # t /\ pc[u] # "idle"
    <3>1. /\ pc'[u] = pc[u] /\ op'[u] = op[u] /\ file'[u] = file[u]
          /\ state'[file[u]] = state[file[u]] /\ fh'[file[u]] = fh[file[u]]
          /\ target'[file[u]] = target[file[u]]
      BY <1>1, <1>4, <1>7, <2>3 DEF TypeOK
    <3>2. ThreadOK(u)
      OBVIOUS
    <3> QED  BY <1>1, <1>3, <3>1, <3>2 DEF ThreadOK
  <2> QED  BY <2>1, <2>2, <2>3
<1> QED  BY <1>2, <1>6, <1>8, <1>9

(* A handler step of a thread leaves the others where they are, and the    *)
(* files that are not the thread's.                                        *)
LEMMA OthersStay ==
  ASSUME TypeOK, NEW t \in Threads, NEW u \in Threads, u # t,
         \/ \E a \in Addresses : Alloc(t, a)
         \/ SetProc(t) \/ ReplyOpen(t) \/ Find(t) \/ Deref(t) \/ Serve(t)
         \/ Erase(t) \/ Delete(t)
  PROVE  /\ pc'[u] = pc[u] /\ op'[u] = op[u] /\ file'[u] = file[u]
         /\ it'[u] = it[u] /\ ctx'[u] = ctx[u]
BY DEF TypeOK, Alloc, SetProc, ReplyOpen, Find, Deref, Serve, Erase, Delete,
   Goto, Return, kernel

(* A handler step lets no request join that of an open or a release.       *)
LEMMA ExclusiveStep ==
  ASSUME IInv, NEW t \in Threads,
         \/ \E a \in Addresses : Alloc(t, a)
         \/ SetProc(t) \/ ReplyOpen(t) \/ Find(t) \/ Deref(t) \/ Serve(t)
         \/ Erase(t) \/ Delete(t)
  PROVE  Exclusive'
<1> USE DEF IInv
<1>1. pc[t] # "idle"
  BY DEF Alloc, SetProc, ReplyOpen, Find, Deref, Serve, Erase, Delete
<1>2. op' = op /\ file' = file
  BY DEF Alloc, SetProc, ReplyOpen, Find, Deref, Serve, Erase, Delete,
     Goto, Return
<1>3. \A u \in Threads : pc'[u] # "idle" => pc[u] # "idle"
  BY <1>1, OthersStay
<1> QED  BY <1>2, <1>3 DEF Exclusive

(* When a thread runs a handler that is not a read, a write or a flush, no *)
(* other thread has a request for its file, and the contexts that others   *)
(* use belong to other files.                                              *)
LEMMA Alone ==
  ASSUME IInv, NEW t \in Threads, NEW u \in Threads, u # t,
         op[t] \notin {"io", "flush"}, pc[t] # "idle", pc[u] # "idle"
  PROVE  file[u] # file[t]
BY DEF IInv, Exclusive

(* Looking a handle up finds the context of the file's own open.           *)
LEMMA FindStep ==
  ASSUME IInv, NEW t \in Threads, Find(t) \/ Deref(t)
  PROVE  HeapOK' /\ OwnersOK' /\ OpenOK' /\ \A u \in Threads : ThreadOK(u)'
<1> USE DEF IInv
<1>1. /\ UNCHANGED <<sequence, m_contexts, heap, state, fh, target, own, op,
                     file>>
      /\ ctx' = [ctx EXCEPT ![t] = ctx'[t]] /\ it' = [it EXCEPT ![t] = it'[t]]
      /\ pc' = [pc EXCEPT ![t] = pc'[t]]
  BY DEF Find, Deref, Goto, contexts, kernel, TypeOK
<1>2. HeapOK' /\ OwnersOK' /\ OpenOK'
  BY <1>1 DEF HeapOK, OwnersOK, OpenOK, Registered
<1>3. ASSUME NEW u \in Threads, u # t
      PROVE  ThreadOK(u)'
  BY <1>1, <1>3 DEF ThreadOK, TypeOK, Registered
<1>4. ThreadOK(t) /\ file[t] \in Files
  BY DEF TypeOK
<1>5. Registered(own[file[t]]) /\ fh[file[t]] = heap[own[file[t]]].seq
  BY <1>4 DEF Find, Deref, ThreadOK, OpenOK
<1>6. CASE Find(t)
  <2>1. it'[t] = fh[file[t]] /\ pc'[t] = "deref"
    BY <1>5, <1>6 DEF Find, Goto, Registered, TypeOK
  <2> QED  BY <1>1, <1>2, <1>3, <1>4, <1>5, <1>6, <2>1
           DEF ThreadOK, Registered, Find
<1>7. CASE Deref(t)
  <2>1. it[t] = fh[file[t]]
    BY <1>4, <1>7 DEF Deref, ThreadOK
  <2>2. ctx'[t] = own[file[t]] /\ pc'[t] = "serve"
    <3>1. fh[file[t]] # End
      BY <1>5 DEF HeapOK, Registered, End
    <3> QED  BY <1>5, <1>7, <2>1, <3>1 DEF Deref, Goto, Registered, TypeOK
  <2> QED  BY <1>1, <1>2, <1>3, <1>4, <1>5, <1>7, <2>2
           DEF ThreadOK, Registered, Deref
<1> QED  BY <1>6, <1>7

(* Serving a request leaves every context where it is.                     *)
LEMMA ServeStep ==
  ASSUME IInv, NEW t \in Threads, Serve(t)
  PROVE  HeapOK' /\ OwnersOK' /\ OpenOK' /\ \A u \in Threads : ThreadOK(u)'
<1> USE DEF IInv
<1>1. /\ UNCHANGED <<sequence, m_contexts, heap, state, fh, target, own, op,
                     file>>
      /\ \/ ctx'[t] = Null /\ pc'[t] = "idle"
         \/ ctx'[t] = ctx[t] /\ pc'[t] = "erase" /\ op[t] = "release"
  <2>1. CASE op[t] = "release"
    BY <2>1 DEF Serve, Goto, contexts, TypeOK
  <2>2. CASE op[t] # "release"
    BY <2>2 DEF Serve, Return, contexts, TypeOK
  <2> QED  BY <2>1, <2>2
<1>2. HeapOK' /\ OwnersOK' /\ OpenOK'
  BY <1>1 DEF HeapOK, OwnersOK, OpenOK, Registered
<1>3. ASSUME NEW u \in Threads, u # t
      PROVE  ThreadOK(u)'
  BY <1>1, <1>3, OthersStay DEF ThreadOK, Registered
<1>4. ThreadOK(t)
  OBVIOUS
<1>5. ThreadOK(t)'
  <2>1. CASE pc'[t] = "idle"
    BY <2>1 DEF ThreadOK
  <2>2. CASE pc'[t] = "erase"
    <3>1. /\ pc[t] = "serve" /\ op[t] = "release" /\ ctx'[t] = ctx[t]
      BY <1>1, <2>2 DEF Serve
    <3> QED  BY <1>1, <1>4, <2>2, <3>1 DEF ThreadOK, Registered
  <2> QED  BY <1>1, <2>1, <2>2
<1> QED  BY <1>2, <1>3, <1>5

(* An open that replies turns its own context into the file's handle.      *)
LEMMA OpenStep ==
  ASSUME IInv, NEW t \in Threads, SetProc(t) \/ ReplyOpen(t)
  PROVE  HeapOK' /\ OwnersOK' /\ OpenOK' /\ \A u \in Threads : ThreadOK(u)'
<1> USE DEF IInv
<1> DEFINE f == file[t]
           a == ctx[t]
<1>1. ThreadOK(t) /\ f \in Files
  BY DEF TypeOK
<1>2. /\ op[t] = "open" /\ state[f] = "opening" /\ a = own[f]
      /\ own[f] # Null /\ Registered(a)
  BY <1>1 DEF SetProc, ReplyOpen, ThreadOK
<1>3. UNCHANGED <<sequence, m_contexts, own, op, file, target>>
  BY DEF SetProc, ReplyOpen, Goto, Return, contexts, kernel
<1>4. /\ DOMAIN heap' = DOMAIN heap
      /\ \A b \in DOMAIN heap : heap'[b].seq = heap[b].seq
      /\ \A b \in DOMAIN heap : b # a => heap'[b] = heap[b]
  BY DEF SetProc, ReplyOpen, contexts, TypeOK, Context
<1>5. HeapOK' /\ OwnersOK'
  BY <1>3, <1>4 DEF HeapOK, OwnersOK
<1>6. \A b : Registered(b) => Registered(b)'
  BY <1>3, <1>4 DEF Registered
<1>7. \A g \in Files : g # f => state'[g] = state[g] /\ fh'[g] = fh[g]
  BY DEF SetProc, ReplyOpen, kernel, TypeOK
<1>8. \A g \in Files : g # f /\ own[g] # Null =>
        own[g] \in DOMAIN heap /\ heap'[own[g]] = heap[own[g]]
  BY <1>1, <1>2, <1>4 DEF OwnersOK
<1>9. ASSUME SetProc(t)
      PROVE  OpenOK' /\ ThreadOK(t)'
  <2>1. state' = state /\ fh' = fh /\ pc'[t] = "reply" /\ ctx' = ctx
    BY <1>9 DEF SetProc, Goto, kernel, TypeOK
  <2>2. heap'[a].proc = target[f]
    BY <1>2, <1>9 DEF SetProc, Registered, TypeOK, Context
  <2>3. OpenOK'
    BY <1>2, <1>3, <1>6, <1>8, <2>1 DEF OpenOK
  <2>4. ThreadOK(t)'
    BY <1>2, <1>3, <1>6, <2>1, <2>2 DEF ThreadOK
  <2> QED  BY <2>3, <2>4
<1>10. ASSUME ReplyOpen(t)
       PROVE  OpenOK' /\ ThreadOK(t)'
  <2>1. heap' = heap /\ pc'[t] = "idle" /\ fh'[f] = heap[a].seq
    BY <1>1, <1>10 DEF ReplyOpen, Return, contexts, TypeOK
  <2>2. heap[a].proc = target[f]
    BY <1>1, <1>10 DEF ReplyOpen, ThreadOK
  <2>3. OpenOK'
    BY <1>2, <1>3, <1>6, <1>7, <2>1, <2>2 DEF OpenOK
  <2>4. ThreadOK(t)'
    BY <2>1 DEF ThreadOK
  <2> QED  BY <2>3, <2>4
<1>11. ASSUME NEW u \in Threads, u # t
       PROVE  ThreadOK(u)'
  <2>1. /\ pc'[u] = pc[u] /\ it'[u] = it[u] /\ ctx'[u] = ctx[u]
    BY <1>11, OthersStay
  <2>2. CASE pc[u] = "idle"
    BY <2>1, <2>2 DEF ThreadOK
  <2>3. CASE pc[u] # "idle"
    <3>1. file[u] # f /\ file[u] \in Files
      BY <1>2, <1>11, <2>3, Alone DEF SetProc, ReplyOpen, TypeOK
    <3>2. ThreadOK(u)
      OBVIOUS
    <3> QED  BY <1>3, <1>6, <1>7, <1>8, <2>1, <3>1, <3>2 DEF ThreadOK
  <2> QED  BY <2>2, <2>3
<1> QED  BY <1>5, <1>9, <1>10, <1>11

(* A new context takes a number and an address nobody else has.            *)
LEMMA AllocStep ==
  ASSUME IInv, NEW t \in Threads, NEW a \in Addresses, Alloc(t, a)
  PROVE  HeapOK' /\ OwnersOK' /\ OpenOK' /\ \A u \in Threads : ThreadOK(u)'
<1> USE DEF IInv
<1> DEFINE f == file[t]
<1>1. ThreadOK(t) /\ f \in Files /\ pc[t] = "alloc" /\ a \notin DOMAIN heap
      /\ a # Null
  BY DistinctAssumption DEF TypeOK, Alloc
<1>2. op[t] = "open" /\ state[f] = "opening"
  BY <1>1 DEF ThreadOK
<1>3. sequence \notin DOMAIN m_contexts
  BY DEF HeapOK, TypeOK, Context
<1>4. /\ sequence' = sequence + 1
      /\ DOMAIN heap' = DOMAIN heap \cup {a}
      /\ heap'[a] = [seq |-> sequence, proc |-> NoProc]
      /\ \A b \in DOMAIN heap : heap'[b] = heap[b]
      /\ DOMAIN m_contexts' = DOMAIN m_contexts \cup {sequence}
      /\ m_contexts'[sequence] = a
      /\ \A q \in DOMAIN m_contexts : m_contexts'[q] = m_contexts[q]
  BY <1>1, <1>3 DEF Alloc, With, Inserted, NextSequence
<1>5. /\ UNCHANGED <<state, fh, target, op, file>>
      /\ own' = [own EXCEPT ![f] = a] /\ ctx'[t] = a
      /\ pc'[t] = IF target[f] = NoProc THEN "reply" ELSE "setproc"
  BY DEF Alloc, Goto, kernel, TypeOK
<1>6. HeapOK'
  <2>1. sequence \in Nat /\ sequence # 0 /\ sequence' \in Nat
        /\ sequence' # 0 /\ \A b \in DOMAIN heap : heap[b].seq \in Nat
    BY <1>4 DEF TypeOK, Context, HeapOK
  <2>2. \A b \in DOMAIN heap' : heap'[b].seq # 0 /\ heap'[b].seq < sequence'
    BY <1>4, <2>1 DEF HeapOK
  <2>3. \A b, c \in DOMAIN heap' : heap'[b].seq = heap'[c].seq => b = c
    BY <1>1, <1>4, <2>1 DEF HeapOK
  <2>4. \A q \in DOMAIN m_contexts' :
          m_contexts'[q] \in DOMAIN heap' /\ heap'[m_contexts'[q]].seq = q
    BY <1>1, <1>4, <2>1 DEF HeapOK
  <2> QED  BY <2>1, <2>2, <2>3, <2>4 DEF HeapOK
<1>7. OwnersOK'
  BY <1>1, <1>4, <1>5 DEF OwnersOK, TypeOK
<1>8. \A b : Registered(b) => Registered(b)'
  BY <1>1, <1>4 DEF Registered
<1>9. \A g \in Files : g # f => own'[g] = own[g]
  BY <1>5 DEF TypeOK
<1>10. OpenOK'
  <2> SUFFICES ASSUME NEW g \in Files, state'[g] \in {"open", "releasing"}
               PROVE  /\ own'[g] # Null
                      /\ fh'[g] = heap'[own'[g]].seq
                      /\ heap'[own'[g]].proc = target'[g]
                      /\ state'[g] = "open" => Registered(own[g])'
    BY DEF OpenOK
  <2>1. g # f /\ own'[g] = own[g] /\ state'[g] = state[g]
    BY <1>2, <1>5, <1>9
  <2>2. own[g] \in DOMAIN heap
    BY <1>5, <2>1 DEF OpenOK, OwnersOK
  <2>3. /\ own[g] # Null /\ fh[g] = heap[own[g]].seq
        /\ heap[own[g]].proc = target[g]
        /\ state[g] = "open" => Registered(own[g])
    BY <1>5, <2>1 DEF OpenOK
  <2>4. state'[g] = "open" => Registered(own[g])'
    BY <1>4, <1>5, <2>1, <2>3 DEF Registered
  <2> QED  BY <1>4, <1>5, <2>1, <2>2, <2>3, <2>4
<1>11. ThreadOK(t)'
  <2>1. Registered(a)'
    BY <1>4 DEF Registered
  <2>2. own'[f] = a /\ file'[t] = f
    BY <1>1, <1>5 DEF TypeOK
  <2>3. pc'[t] = "reply" => heap'[a].proc = target'[f]
    BY <1>4, <1>5
  <2> QED  BY <1>1, <1>2, <1>5, <2>1, <2>2, <2>3 DEF ThreadOK
<1>12. ASSUME NEW u \in Threads, u # t
       PROVE  ThreadOK(u)'
  <2>1. /\ pc'[u] = pc[u] /\ it'[u] = it[u] /\ ctx'[u] = ctx[u]
    BY <1>12, OthersStay
  <2>2. CASE pc[u] = "idle"
    BY <2>1, <2>2 DEF ThreadOK
  <2>3. CASE pc[u] # "idle"
    <3>1. file[u] # f /\ file[u] \in Files /\ own'[file[u]] = own[file[u]]
      BY <1>1, <1>2, <1>9, <1>12, <2>3, Alone DEF TypeOK
    <3>2. ThreadOK(u)
      OBVIOUS
    <3>3. pc[u] = "reply" => heap'[ctx[u]] = heap[ctx[u]]
      BY <1>4, <3>2 DEF ThreadOK, Registered
    <3>4. pc[u] = "delete" => \A q \in DOMAIN m_contexts' : m_contexts'[q] # ctx[u]
      <4>1. pc[u] = "delete" => ctx[u] = own[file[u]] /\ ctx[u] # a
        BY <1>1, <3>1, <3>2 DEF ThreadOK, OpenOK, OwnersOK
      <4> QED  BY <1>4, <3>2, <4>1 DEF ThreadOK
    <3>5. Registered(own[file[u]]) => Registered(own[file[u]])'
      BY <1>4, <1>5, <3>1 DEF Registered
    <3>6. Registered(ctx[u]) => Registered(ctx[u])'
      BY <1>4, <2>1 DEF Registered
    <3> QED  BY <1>5, <2>1, <3>1, <3>2, <3>3, <3>4, <3>5, <3>6 DEF ThreadOK
  <2> QED  BY <2>2, <2>3
<1> QED  BY <1>6, <1>7, <1>10, <1>11, <1>12

(* A release takes nobody else's context out of the map.                   *)
LEMMA EraseStep ==
  ASSUME IInv, NEW t \in Threads, Erase(t)
  PROVE  HeapOK' /\ OwnersOK' /\ OpenOK' /\ \A u \in Threads : ThreadOK(u)'
<1> USE DEF IInv
<1> DEFINE f == file[t]
           q == heap[ctx[t]].seq
<1>1. ThreadOK(t) /\ f \in Files /\ pc[t] = "erase" /\ pc'[t] = "delete"
  BY DEF TypeOK, Erase, Goto
<1>2. /\ op[t] = "release" /\ state[f] = "releasing" /\ ctx[t] = own[f]
      /\ own[f] # Null /\ Registered(ctx[t])
  BY <1>1 DEF ThreadOK, OpenOK
<1>3. UNCHANGED <<sequence, heap, state, fh, target, it, ctx, own, op, file>>
  BY DEF Erase, Goto, kernel
<1>4. /\ DOMAIN m_contexts' = DOMAIN m_contexts \ {q}
      /\ \A r \in DOMAIN m_contexts' : m_contexts'[r] = m_contexts[r]
  BY DEF Erase, Without
<1>5. HeapOK' /\ OwnersOK'
  BY <1>3, <1>4 DEF HeapOK, OwnersOK
<1>6. \A b : b # ctx[t] /\ Registered(b) => Registered(b)'
  BY <1>2, <1>3, <1>4 DEF Registered, HeapOK
<1>7. \A g \in Files : g # f /\ Registered(own[g]) => Registered(own[g])'
  <2> SUFFICES ASSUME NEW g \in Files, g # f, Registered(own[g])
               PROVE  Registered(own[g])'
    OBVIOUS
  <2>1. own[g] # ctx[t]
    BY <1>1, <1>2 DEF OwnersOK
  <2>2. heap[own[g]].seq # q
    BY <1>2, <2>1 DEF HeapOK, Registered
  <2> QED  BY <1>3, <1>4, <2>2 DEF Registered
<1>8. OpenOK'
  BY <1>2, <1>3, <1>7 DEF OpenOK
<1>9. ThreadOK(t)'
  <2>1. \A r \in DOMAIN m_contexts' : m_contexts'[r] # ctx[t]
    BY <1>4 DEF HeapOK
  <2> QED  BY <1>1, <1>2, <1>3, <2>1 DEF ThreadOK
<1>10. ASSUME NEW u \in Threads, u # t
       PROVE  ThreadOK(u)'
  <2>1. pc'[u] = pc[u]
    BY <1>10, OthersStay
  <2>2. CASE pc[u] = "idle"
    BY <2>1, <2>2 DEF ThreadOK
  <2>3. CASE pc[u] # "idle"
    <3>1. file[u] # f /\ file[u] \in Files
      BY <1>1, <1>2, <1>10, <2>3, Alone DEF TypeOK
    <3>2. ThreadOK(u)
      OBVIOUS
    <3>3. Registered(own[file[u]]) => Registered(own[file[u]])'
      BY <1>3, <1>7, <3>1 DEF Registered
    <3>4. pc[u] = "delete" => \A r \in DOMAIN m_contexts' : m_contexts'[r] # ctx[u]
      BY <1>4, <3>2 DEF ThreadOK
    <3>5. pc[u] \in {"setproc", "reply"} => Registered(ctx[u])'
      <4>1. pc[u] \in {"setproc", "reply"} => ctx[u] = own[file[u]]
        BY <3>2 DEF ThreadOK
      <4> QED  BY <1>3, <3>2, <3>3, <4>1 DEF ThreadOK, Registered
    <3> QED  BY <1>3, <2>1, <3>2, <3>3, <3>4, <3>5 DEF ThreadOK
  <2> QED  BY <2>2, <2>3
<1> QED  BY <1>5, <1>8, <1>9, <1>10

(* A release deletes a context that nobody else can reach.                 *)
LEMMA DeleteStep ==
  ASSUME IInv, NEW t \in Threads, Delete(t)
  PROVE  HeapOK' /\ OwnersOK' /\ OpenOK' /\ \A u \in Threads : ThreadOK(u)'
<1> USE DEF IInv
<1> DEFINE f == file[t]
           a == ctx[t]
<1>1. ThreadOK(t) /\ f \in Files /\ pc[t] = "delete" /\ pc'[t] = "idle"
  BY DEF TypeOK, Delete, Return
<1>2. /\ op[t] = "release" /\ state[f] = "releasing" /\ a = own[f]
      /\ own[f] # Null /\ \A q \in DOMAIN m_contexts : m_contexts[q] # a
  BY <1>1 DEF ThreadOK, OpenOK
<1>3. /\ UNCHANGED <<sequence, m_contexts, fh, target, op, file>>
      /\ state' = [state EXCEPT ![f] = "closed"]
      /\ own' = [own EXCEPT ![f] = Null]
  BY DEF Delete, Return
<1>4. /\ DOMAIN heap' = DOMAIN heap \ {a}
      /\ \A b \in DOMAIN heap' : heap'[b] = heap[b]
  BY DEF Delete, Without
<1>5. HeapOK'
  BY <1>2, <1>3, <1>4 DEF HeapOK
<1>6. \A g \in Files : g # f =>
        own'[g] = own[g] /\ state'[g] = state[g] /\ (own[g] # Null => own[g] # a)
  BY <1>1, <1>2, <1>3 DEF OwnersOK, TypeOK
<1>7. own'[f] = Null /\ state'[f] = "closed"
  BY <1>1, <1>3 DEF TypeOK
<1>8. OwnersOK'
  BY <1>4, <1>6, <1>7 DEF OwnersOK
<1>9. \A b : b # a /\ Registered(b) => Registered(b)'
  BY <1>3, <1>4 DEF Registered
<1>10. \A g \in Files : g # f /\ own[g] # Null /\ Registered(own[g]) =>
         Registered(own[g])'
  BY <1>3, <1>4, <1>6 DEF Registered
<1>11. OpenOK'
  <2> SUFFICES ASSUME NEW g \in Files, state'[g] \in {"open", "releasing"}
               PROVE  /\ own'[g] # Null
                      /\ fh'[g] = heap'[own'[g]].seq
                      /\ heap'[own'[g]].proc = target'[g]
                      /\ state'[g] = "open" => Registered(own[g])'
    BY DEF OpenOK
  <2>1. g # f
    BY <1>7
  <2>2. own[g] # Null /\ own'[g] = own[g] /\ state'[g] = state[g]
    BY <1>6, <2>1 DEF OpenOK
  <2>3. heap'[own[g]] = heap[own[g]]
    BY <1>4, <1>6, <2>1, <2>2 DEF OwnersOK
  <2> QED  BY <1>3, <1>10, <2>1, <2>2, <2>3 DEF OpenOK
<1>12. ThreadOK(t)'
  BY <1>1 DEF ThreadOK
<1>13. ASSUME NEW u \in Threads, u # t
       PROVE  ThreadOK(u)'
  <2>1. pc'[u] = pc[u] /\ it'[u] = it[u] /\ ctx'[u] = ctx[u]
    BY <1>13, OthersStay
  <2>2. CASE pc[u] = "idle"
    BY <2>1, <2>2 DEF ThreadOK
  <2>3. CASE pc[u] # "idle"
    <3>1. file[u] # f /\ file[u] \in Files
      BY <1>1, <1>2, <1>13, <2>3, Alone DEF TypeOK
    <3>2. ThreadOK(u)
      OBVIOUS
    <3>3. own'[file[u]] = own[file[u]] /\ state'[file[u]] = state[file[u]]
      BY <1>6, <3>1
    <3>4. pc[u] \in {"find", "deref", "serve", "erase"} =>
            Registered(own[file[u]])'
      <4>1. pc[u] \in {"find", "deref", "serve", "erase"} =>
              own[file[u]] # Null /\ Registered(own[file[u]])
        BY <3>1, <3>2 DEF ThreadOK, OpenOK
      <4> QED  BY <1>3, <1>10, <3>1, <3>3, <4>1 DEF Registered
    <3>5. pc[u] \in {"setproc", "reply"} => ctx[u] # a /\ Registered(ctx[u])'
      <4>1. pc[u] \in {"setproc", "reply"} => ctx[u] # a /\ Registered(ctx[u])
        BY <1>6, <3>1, <3>2 DEF ThreadOK
      <4> QED  BY <1>3, <1>4, <2>1, <4>1 DEF Registered
    <3>6. pc[u] = "reply" => heap'[ctx[u]] = heap[ctx[u]]
      BY <1>4, <3>2, <3>5 DEF ThreadOK, Registered
    <3> QED  BY <1>3, <2>1, <3>2, <3>3, <3>4, <3>5, <3>6 DEF ThreadOK
  <2> QED  BY <2>2, <2>3
<1> QED  BY <1>5, <1>8, <1>11, <1>12, <1>13

(* Every step keeps the invariant.                                         *)
LEMMA InvariantStep ==
  ASSUME IInv, [Next]_vars
  PROVE  IInv'
<1>1. TypeOK'
  BY TypeStep DEF IInv
<1>2. ASSUME NEW t \in Threads, NEW f \in Files,
             \/ \E p \in Procs \cup {NoProc} : SendOpen(t, f, p)
             \/ SendIo(t, f) \/ SendFlush(t, f) \/ SendRelease(t, f)
      PROVE  IInv'
  BY <1>1, <1>2, SendStep
<1>3. ASSUME NEW t \in Threads, NEW a \in Addresses, Alloc(t, a)
      PROVE  IInv'
  BY <1>1, <1>3, AllocStep, ExclusiveStep DEF IInv
<1>4. ASSUME NEW t \in Threads, SetProc(t) \/ ReplyOpen(t)
      PROVE  IInv'
  BY <1>1, <1>4, OpenStep, ExclusiveStep DEF IInv
<1>5. ASSUME NEW t \in Threads, Find(t) \/ Deref(t)
      PROVE  IInv'
  BY <1>1, <1>5, FindStep, ExclusiveStep DEF IInv
<1>6. ASSUME NEW t \in Threads, Serve(t)
      PROVE  IInv'
  BY <1>1, <1>6, ServeStep, ExclusiveStep DEF IInv
<1>7. ASSUME NEW t \in Threads, Erase(t)
      PROVE  IInv'
  BY <1>1, <1>7, EraseStep, ExclusiveStep DEF IInv
<1>8. ASSUME NEW t \in Threads, Delete(t)
      PROVE  IInv'
  BY <1>1, <1>8, DeleteStep, ExclusiveStep DEF IInv
<1>9. CASE UNCHANGED vars
  BY <1>9 DEF vars, IInv, TypeOK, HeapOK, OwnersOK, OpenOK, ThreadOK,
     Exclusive, Registered
<1> QED
  BY <1>2, <1>3, <1>4, <1>5, <1>6, <1>7, <1>8, <1>9
  DEF Next, KernelNext, HandlerNext, Unused

LEMMA Invariant == Spec => []IInv
BY InitOK, InvariantStep, PTL DEF Spec

(* Every variable has its type in every reachable state. *)
THEOREM HandlesTyped == Spec => []TypeOK
<1>1. IInv => TypeOK
  BY DEF IInv
<1> QED  BY <1>1, Invariant, PTL

(* No request ever uses a context or an iterator that is gone, for any     *)
(* number of threads and files and any allocator (context.cpp:91-94).      *)
THEOREM NothingDangles == Spec => []NoDangling
BY Invariant, InvariantImplies, PTL

(* Each request is served by the context of its file's own open            *)
(* (context.cpp:64-66, 78).                                                *)
THEOREM AlwaysServedByItsOpen == Spec => []ServedByItsOpen
BY Invariant, InvariantImplies, PTL

(* Open files have handles of their own, none of them 0 (context.cpp:66).  *)
THEOREM HandlesAlwaysDiffer == Spec => []HandlesDiffer
BY Invariant, InvariantImplies, PTL

-----------------------------------------------------------------------------
(* Nothing leaks. *)

(* Every context on the heap is some file's, that file is not closed, and  *)
(* a file between two states has a request in flight that will take it to  *)
(* the second one.  An open that has yet to allocate owns nothing.         *)
Leaves ==
  /\ \A a \in DOMAIN heap : \E f \in Files : own[f] = a
  /\ \A f \in Files : own[f] # Null => state[f] # "closed"
  /\ \A f \in Files : state[f] \in {"opening", "releasing"} => InFlight(f)
  /\ \A t \in Threads : pc[t] = "alloc" => own[file[t]] = Null

(* A request that the kernel sends leaves every context its owner. *)
LEMMA SendLeaves ==
  ASSUME IInv, Leaves, NEW t \in Threads, NEW f \in Files,
         \/ \E p \in Procs \cup {NoProc} : SendOpen(t, f, p)
         \/ SendIo(t, f) \/ SendFlush(t, f) \/ SendRelease(t, f)
  PROVE  Leaves'
<1>1. /\ pc[t] = "idle" /\ pc'[t] \in {"alloc", "find"}
      /\ file' = [file EXCEPT ![t] = f] /\ file'[t] = f
      /\ \A u \in Threads \ {t} : pc'[u] = pc[u] /\ file'[u] = file[u]
      /\ UNCHANGED <<heap, own>>
  BY DEF SendOpen, SendIo, SendFlush, SendRelease, Start, contexts, IInv, TypeOK
<1>2. /\ \A g \in Files \ {f} : state'[g] = state[g]
      /\ state'[f] # "closed"
      /\ pc'[t] = "alloc" => state[f] = "closed"
  BY DEF SendOpen, SendIo, SendFlush, SendRelease, Start, kernel, IInv, TypeOK
<1>3. InFlight(f)'
  BY <1>1 DEF InFlight
<1>4. \A g \in Files \ {f} : InFlight(g) => InFlight(g)'
  BY <1>1 DEF InFlight
<1>5. \A g \in Files : state'[g] \in {"opening", "releasing"} => InFlight(g)'
  BY <1>2, <1>3, <1>4 DEF Leaves
<1>6. ASSUME NEW u \in Threads, pc'[u] = "alloc"
      PROVE  own'[file'[u]] = Null
  BY <1>1, <1>2, <1>6 DEF Leaves
<1>7. /\ \A a \in DOMAIN heap' : \E g \in Files : own'[g] = a
      /\ \A g \in Files : own'[g] # Null => state'[g] # "closed"
  BY <1>1, <1>2 DEF Leaves
<1> QED  BY <1>5, <1>6, <1>7 DEF Leaves

(* A handler step that changes neither who owns what nor a file's state    *)
(* goes on, unless its request is for an open file.                        *)
LEMMA QuietLeaves ==
  ASSUME IInv, Leaves, NEW t \in Threads,
         SetProc(t) \/ Find(t) \/ Deref(t) \/ Serve(t) \/ Erase(t)
  PROVE  Leaves'
<1>1. /\ DOMAIN heap' = DOMAIN heap /\ UNCHANGED <<own, state, file>>
      /\ pc'[t] # "alloc"
      /\ pc'[t] # "idle" \/ state[file[t]] = "open"
  <2>1. CASE SetProc(t)
    BY <2>1 DEF SetProc, Goto, kernel, IInv, TypeOK
  <2>2. CASE Find(t) \/ Deref(t)
    BY <2>2 DEF Find, Deref, Goto, contexts, kernel, IInv, TypeOK
  <2>3. CASE Serve(t)
    <3>1. op[t] # "release" => state[file[t]] = "open"
      BY <2>3 DEF Serve, IInv, ThreadOK
    <3> QED  BY <2>3, <3>1 DEF Serve, Goto, Return, contexts, IInv, TypeOK
  <2>4. CASE Erase(t)
    BY <2>4 DEF Erase, Goto, kernel, IInv, TypeOK
  <2> QED  BY <2>1, <2>2, <2>3, <2>4
<1>2. \A u \in Threads \ {t} : pc'[u] = pc[u]
  BY OthersStay DEF IInv
<1>3. ASSUME NEW f \in Files, state[f] \in {"opening", "releasing"}
      PROVE  InFlight(f)'
  BY <1>1, <1>2, <1>3 DEF Leaves, InFlight
<1> QED  BY <1>1, <1>2, <1>3 DEF Leaves

(* A step by which a file's open takes a context or replies, or its        *)
(* release ends.                                                           *)
LEMMA OwnerLeaves ==
  ASSUME IInv, Leaves, NEW t \in Threads,
         (\E a \in Addresses : Alloc(t, a)) \/ ReplyOpen(t) \/ Delete(t)
  PROVE  Leaves'
<1> DEFINE f == file[t]
<1>1. /\ TypeOK /\ f \in Files /\ ThreadOK(t) /\ pc[t] # "idle" /\ UNCHANGED file
      /\ op[t] \notin {"io", "flush"}
  BY DEF IInv, TypeOK, ThreadOK, Alloc, ReplyOpen, Delete, Goto, Return
<1>2. \A u \in Threads \ {t} : /\ pc'[u] = pc[u]
                               /\ pc[u] # "idle" => file[u] # f
  BY <1>1, OthersStay, Alone
<1>3. \A g \in Files \ {f} : own'[g] = own[g] /\ state'[g] = state[g]
  BY <1>1 DEF Alloc, ReplyOpen, Delete, kernel, TypeOK
<1>4. \A g \in Files \ {f} : InFlight(g) => InFlight(g)'
  BY <1>1, <1>2 DEF InFlight
<1>5. ASSUME \A b \in DOMAIN heap' : \E g \in Files : own'[g] = b,
             own'[f] # Null => state'[f] # "closed",
             state'[f] \in {"opening", "releasing"} => InFlight(f)',
             pc'[t] # "alloc"
      PROVE  Leaves'
  <2>1. \A g \in Files : own'[g] # Null => state'[g] # "closed"
    BY <1>3, <1>5 DEF Leaves
  <2>2. \A g \in Files : state'[g] \in {"opening", "releasing"} => InFlight(g)'
    BY <1>1, <1>3, <1>4, <1>5 DEF Leaves
  <2>3. ASSUME NEW u \in Threads, pc'[u] = "alloc"
        PROVE  own'[file'[u]] = Null
    <3>1. u # t /\ pc[u] = "alloc" /\ file[u] \in Files \ {f}
      BY <1>1, <1>2, <1>5, <2>3 DEF TypeOK
    <3> QED  BY <1>1, <1>3, <3>1 DEF Leaves
  <2> QED  BY <1>5, <2>1, <2>2, <2>3 DEF Leaves
<1>6. ASSUME NEW a \in Addresses, Alloc(t, a)
      PROVE  Leaves'
  <2>1. /\ own[f] = Null /\ own'[f] = a /\ DOMAIN heap' = DOMAIN heap \cup {a}
        /\ state'[f] = "opening" /\ pc'[t] \in {"setproc", "reply"}
    BY <1>1, <1>6 DEF Alloc, With, Goto, kernel, Leaves, ThreadOK, TypeOK
  <2>2. InFlight(f)'
    BY <1>1, <2>1 DEF InFlight
  <2>3. \A b \in DOMAIN heap' : \E g \in Files : own'[g] = b
    <3>1. ASSUME NEW b \in DOMAIN heap
          PROVE  \E g \in Files : own'[g] = b
      <4>1. PICK g \in Files : own[g] = b
        BY DEF Leaves
      <4>2. b # Null
        BY DistinctAssumption DEF IInv, TypeOK
      <4> QED  BY <1>3, <2>1, <4>1, <4>2
    <3> QED  BY <1>1, <2>1, <3>1
  <2> QED  BY <1>5, <2>1, <2>2, <2>3
<1>7. ASSUME ReplyOpen(t)
      PROVE  Leaves'
  <2>1. /\ UNCHANGED <<own, heap>> /\ state'[f] = "open" /\ pc'[t] = "idle"
    BY <1>1, <1>7 DEF ReplyOpen, Return, contexts, TypeOK
  <2>2. \A b \in DOMAIN heap' : \E g \in Files : own'[g] = b
    BY <2>1 DEF Leaves
  <2> QED  BY <1>5, <2>1, <2>2
<1>8. ASSUME Delete(t)
      PROVE  Leaves'
  <2>1. /\ own'[f] = Null /\ own[f] = ctx[t] /\ DOMAIN heap' = DOMAIN heap \ {ctx[t]}
        /\ state'[f] = "closed" /\ pc'[t] = "idle"
    BY <1>1, <1>8 DEF Delete, Return, Without, ThreadOK, TypeOK
  <2>2. \A b \in DOMAIN heap' : \E g \in Files : own'[g] = b
    BY <1>3, <2>1 DEF Leaves
  <2> QED  BY <1>5, <2>1, <2>2
<1> QED  BY <1>6, <1>7, <1>8

LEMMA LeavesStep == IInv /\ Leaves /\ [Next]_vars => Leaves'
<1> SUFFICES ASSUME IInv, Leaves, [Next]_vars PROVE Leaves'
  OBVIOUS
<1>1. CASE UNCHANGED vars
  BY <1>1 DEF vars, Leaves, InFlight
<1> QED
  BY <1>1, SendLeaves, QuietLeaves, OwnerLeaves
  DEF Next, KernelNext, HandlerNext, Unused

(* When no request is in flight, the map and the heap hold a context for   *)
(* each open file and nothing else, whatever was opened, used and released *)
(* before and by however many threads (context.cpp:62-81).                 *)
THEOREM NothingLeaks == Spec => []NoContextLeft
<1>1. Init => Leaves
  BY DEF Init, Leaves
<1>2. IInv /\ Leaves => NoContextLeft
  <2> SUFFICES ASSUME IInv, Leaves, \A t \in Threads : pc[t] = "idle"
               PROVE  /\ DOMAIN m_contexts =
                           {fh[f] : f \in {g \in Files : state[g] = "open"}}
                      /\ DOMAIN heap =
                           {own[f] : f \in {g \in Files : state[g] = "open"}}
    BY DEF NoContextLeft
  <2>1. \A f \in Files : own[f] # Null <=> state[f] = "open"
    <3>1. \A f \in Files : state[f] \in {"closed", "open"}
      BY DEF Leaves, InFlight, IInv, TypeOK
    <3> QED  BY <3>1 DEF Leaves, IInv, OpenOK
  <2>2. ASSUME NEW a \in DOMAIN heap
        PROVE  \E f \in Files :
                 state[f] = "open" /\ own[f] = a /\ fh[f] = heap[a].seq
    <3>1. PICK f \in Files : own[f] = a
      BY DEF Leaves
    <3>2. a # Null
      BY DistinctAssumption DEF IInv, TypeOK
    <3> QED  BY <2>1, <3>1, <3>2 DEF IInv, OpenOK
  <2>3. ASSUME NEW f \in Files, state[f] = "open"
        PROVE  own[f] \in DOMAIN heap /\ fh[f] \in DOMAIN m_contexts
    BY <2>3 DEF IInv, OpenOK, Registered
  <2>4. ASSUME NEW q \in DOMAIN m_contexts
        PROVE  \E f \in Files : state[f] = "open" /\ fh[f] = q
    <3>1. m_contexts[q] \in DOMAIN heap /\ heap[m_contexts[q]].seq = q
      BY DEF IInv, HeapOK
    <3> QED  BY <2>2, <3>1
  <2> DEFINE Open == {g \in Files : state[g] = "open"}
  <2>5. DOMAIN m_contexts = {fh[f] : f \in Open}
    <3>1. DOMAIN m_contexts \subseteq {fh[f] : f \in Open}
      BY <2>4
    <3>2. {fh[f] : f \in Open} \subseteq DOMAIN m_contexts
      BY <2>3
    <3> QED  BY <3>1, <3>2
  <2>6. DOMAIN heap = {own[f] : f \in Open}
    BY <2>2, <2>3
  <2> QED  BY <2>5, <2>6
<1> QED  BY <1>1, <1>2, Invariant, LeavesStep, PTL DEF Spec
=============================================================================
