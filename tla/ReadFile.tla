------------------------------ MODULE ReadFile ------------------------------
(***************************************************************************)
(* Reading a file of a server: AutoHttpFs::read (autohttpfs.cpp:309-326)   *)
(* and the ranged GET of CurlAccessor (curlaccessor.cpp:102-126, 146-165,  *)
(* 198-202).                                                               *)
(*                                                                         *)
(* The number of bytes to return is fixed from the attributes, which come  *)
(* from the cache, before the request is sent.  The file may have another  *)
(* length by then.  A server may ignore the Range header and send it all,  *)
(* or answer with an error page; the body arrives in pieces, and the       *)
(* connection may break between any two.  A byte is represented by its     *)
(* position in the file, and a byte of an error page by Junk.              *)
(***************************************************************************)
EXTENDS Integers, Sequences

CONSTANTS
  Sizes,     \* how much the kernel may ask for
  Offsets,   \* and where
  Lengths    \* lengths a file, as cached or on the server, or a page may have

ASSUME RangeAssumption ==
  Sizes \subseteq Nat \ {0} /\ Offsets \subseteq Nat /\ Lengths \subseteq Nat

VARIABLES
  phase,    \* "begin", "request", "body", "done"
  asked,    \* the size of the kernel's buffer
  offset,
  length,   \* us.length
  size,     \* what read() will return: at first what was asked
  body,     \* the length of the file when the server gets the request
  status,   \* m_res_status
  coming,   \* what the server has still to send
  data,     \* the bytes copied to the buffer; m_read_size is their number
  ret       \* what read() has returned

Junk == -1
ENOENT == 2

vars == <<phase, asked, offset, length, size, body, status, coming, data, ret>>

Init ==
  /\ phase = "begin"
  /\ asked \in Sizes /\ offset \in Offsets /\ length \in Lengths
  /\ size = asked
  /\ body = length
  /\ status = 0
  /\ coming = << >> /\ data = << >>
  /\ ret = 0

Return(r) == phase' = "done" /\ ret' = r

\* A bug: the end of the file is not looked at.
Unclamped == size

\* The part of the buffer that the file is taken to fill.
Clamped ==
  IF offset + size >= length THEN length - offset ELSE size

Clamp ==
  /\ phase = "begin"
  /\ IF offset >= length THEN Return(0) /\ UNCHANGED size
                         ELSE /\ size' = Clamped
                              /\ phase' = "request"
                              /\ UNCHANGED ret
  /\ UNCHANGED <<asked, offset, length, body, status, coming, data>>

Smaller(m, n) == IF m < n THEN m ELSE n

\* Bytes lo, lo + 1, ..., hi - 1 of the file.
Bytes(lo, hi) == [i \in 1 .. hi - lo |-> lo + i - 1]

\* Range: bytes=offset-(offset+size-1) of a file that is now n bytes long,
\* or the whole file, or an error and its page.
Answer206(n) ==
  offset < n /\ status' = 206 /\ coming' = Bytes(offset, Smaller(offset + size, n))
Answer200(n) == status' = 200 /\ coming' = Bytes(0, n)
AnswerError(n) == status' = 404 /\ coming' = [i \in 1..n |-> Junk]

Request ==
  /\ phase = "request"
  /\ \E n \in Lengths :
       body' = n /\ (Answer206(n) \/ Answer200(n) \/ AnswerError(n))
  /\ phase' = "body"
  /\ UNCHANGED <<asked, offset, length, size, data, ret>>

\* A bug: curl's error code is returned.
ResultCode(s) == IF s \in {200, 206} THEN size ELSE s

\* read() returns all of size, or -ENOENT.
Result(s) == IF s \in {200, 206} THEN size ELSE -ENOENT

CopiedAll(n) == n   \* a bug: the room in the buffer is not looked at

\* copy(): how much of n bytes still fits
Copied(n) == Smaller(size - Len(data), n)

\* write_callback: a short count makes curl give the request up.
Deliver(n) ==
  /\ phase = "body"
  /\ data' = data \o SubSeq(coming, 1, Copied(n))
  /\ coming' = SubSeq(coming, n + 1, Len(coming))
  /\ IF Copied(n) < n
       THEN status' = -23 /\ Return(Result(status'))
       ELSE UNCHANGED <<status, phase, ret>>
  /\ UNCHANGED <<asked, offset, length, size, body>>

\* A bug: the request is sent again and again.
BreakRetries ==
  /\ phase = "body"
  /\ coming # << >>
  /\ phase' = "request"
  /\ data' = << >>
  /\ UNCHANGED <<asked, offset, length, size, body, status, coming, ret>>

\* The connection breaks: CURLE_PARTIAL_FILE.
Break ==
  /\ phase = "body"
  /\ coming # << >>
  /\ status' = -18
  /\ Return(Result(status'))
  /\ UNCHANGED <<asked, offset, length, size, body, coming, data>>

Finish ==
  /\ phase = "body"
  /\ coming = << >>
  /\ Return(Result(status))
  /\ UNCHANGED <<asked, offset, length, size, body, status, coming, data>>

Done == phase = "done" /\ UNCHANGED vars

Next ==
  \/ Clamp \/ Request \/ Break \/ Finish \/ Done
  \/ \E n \in 1..Len(coming) : Deliver(n)

Spec == Init /\ [][Next]_vars

-----------------------------------------------------------------------------
TypeOK ==
  /\ phase \in {"begin", "request", "body", "done"}
  /\ asked \in Sizes /\ offset \in Offsets
  /\ length \in Lengths /\ body \in Lengths
  /\ size \in Nat
  /\ status \in {0, 200, 206, 404, -18, -23}
  /\ coming \in Seq(Nat \cup {Junk})
  /\ data \in Seq(Nat \cup {Junk})
  /\ ret \in Nat \cup {-ENOENT}

(* Whatever the server sends, in whatever pieces, and however long its     *)
(* file has become, no byte is written past the kernel's buffer and no     *)
(* more is returned than it holds (curlaccessor.cpp:148-156).              *)
StaysInBuffer ==
  /\ Len(data) <= size /\ size <= asked
  /\ ret <= asked

(* If the file has not become shorter than its cached length, a read that  *)
(* succeeds has filled all it returns with the bytes asked for, also when  *)
(* the server ignores the range or the connection breaks                   *)
(* (autohttpfs.cpp:316-326).                                               *)
Exact ==
  /\ ret = Smaller(asked, length - offset)
  /\ Len(data) = ret
  /\ \A i \in 1..ret : data[i] = offset + i - 1

ReadIsExact ==
  (phase = "done" /\ offset < length /\ length <= body /\ ret >= 0) => Exact

-----------------------------------------------------------------------------
(* A property the code does not have. *)

(* Every byte that a read returns is the file's (README:9-15).             *)
ReadMatchesServer ==
  phase = "done" /\ ret > 0 =>
    Len(data) >= ret /\ \A i \in 1..ret : data[i] = offset + i - 1
=============================================================================
