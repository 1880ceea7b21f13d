--------------------------- MODULE ReadFileProofs ---------------------------
(* Theorems about ReadFile for requests and files of any size.             *)
EXTENDS ReadFile, TLAPS

(* What has been copied and what is still to come are the bytes of the     *)
(* file from position lo to hi - 1.                                        *)
Receives(lo, hi) ==
  /\ Len(data) + Len(coming) = IF lo <= hi THEN hi - lo ELSE 0
  /\ \A i \in 1..Len(data) : data[i] = lo + i - 1
  /\ \A i \in 1..Len(coming) : coming[i] = lo + Len(data) + i - 1

(* The size is fixed before the request is sent, and the response is a     *)
(* prefix of the request, or the file.                                     *)
Transfer ==
  /\ size <= asked /\ ret <= asked
  /\ phase = "begin" => size = asked /\ ret = 0 /\ data = << >>
  /\ phase \in {"request", "body"} =>
       offset < length /\ size = Smaller(asked, length - offset) /\ ret = 0
  /\ phase = "request" => data = << >>
  /\ phase = "body" => /\ status \in {200, 206, 404}
                       /\ Len(data) <= size
                       /\ status = 206 => /\ offset < body
                                          /\ Receives(offset, Smaller(offset + size, body))
                       /\ status = 200 => Receives(0, body)
  /\ Len(data) <= size

IInv == TypeOK /\ Transfer /\ ReadIsExact

(* What the types say of the numbers in a form the solver takes.           *)
LEMMA Numbers ==
  ASSUME TypeOK
  PROVE  /\ asked \in Nat /\ asked # 0 /\ offset \in Nat
         /\ length \in Nat /\ body \in Nat /\ size \in Nat
         /\ Len(data) \in Nat /\ Len(coming) \in Nat
BY RangeAssumption DEF TypeOK

(* The invariant holds before the read begins.                             *)
LEMMA InitOK == Init => IInv
<1> SUFFICES ASSUME Init PROVE IInv
  OBVIOUS
<1>1. TypeOK
  BY RangeAssumption DEF Init, TypeOK
<1>2. Transfer /\ ReadIsExact
  BY RangeAssumption DEF Init, Transfer, ReadIsExact
<1> QED  BY <1>1, <1>2 DEF IInv

(* The clamp keeps the end within the buffer and the cached length.        *)
LEMMA ClampOK ==
  ASSUME IInv, Clamp
  PROVE  IInv'
<1> USE DEF IInv
<1>1. /\ asked \in Nat /\ asked # 0 /\ offset \in Nat
      /\ length \in Nat /\ size = asked /\ phase = "begin" /\ ret = 0
      /\ data = << >>
  BY Numbers DEF Clamp, Transfer
<1>2. CASE offset >= length
  BY <1>1, <1>2 DEF Clamp, Return, TypeOK, Transfer, ReadIsExact
<1>3. CASE offset < length
  <2>1. /\ size' = Clamped /\ phase' = "request"
        /\ UNCHANGED <<asked, offset, length, body, status, coming, data, ret>>
    BY <1>1, <1>3 DEF Clamp
  <2>2. Clamped \in Nat /\ Clamped <= asked
        /\ Clamped = Smaller(asked, length - offset)
    BY <1>1, <1>3 DEF Clamped, Smaller
  <2> QED  BY <1>1, <1>3, <2>1, <2>2 DEF TypeOK, Transfer, ReadIsExact, Smaller
<1> QED  BY <1>1, <1>2, <1>3

(* Every answer the server may give fits what the invariant expects.       *)
LEMMA RequestOK ==
  ASSUME IInv, Request
  PROVE  IInv'
<1> USE DEF IInv
<1>1. PICK n \in Lengths :
        body' = n /\ (Answer206(n) \/ Answer200(n) \/ AnswerError(n))
  BY DEF Request
<1>2. /\ phase = "request" /\ phase' = "body" /\ data = << >> /\ data' = << >>
      /\ UNCHANGED <<asked, offset, length, size, ret>>
      /\ n \in Nat /\ offset \in Nat /\ size \in Nat
  BY <1>1, Numbers, RangeAssumption DEF Request, Transfer
<1>3. /\ coming' \in Seq(Nat \cup {Junk}) /\ status' \in {200, 206, 404}
      /\ status' = 206 => /\ offset' < body'
                          /\ Receives(offset, Smaller(offset + size, body))'
      /\ status' = 200 => Receives(0, body)'
  <2>1. CASE Answer206(n)
    BY <1>1, <1>2, <2>1 DEF Answer206, Bytes, Receives, Smaller
  <2>2. CASE Answer200(n)
    BY <1>1, <1>2, <2>2 DEF Answer200, Bytes, Receives
  <2>3. CASE AnswerError(n)
    BY <1>1, <1>2, <2>3 DEF AnswerError, Junk
  <2> QED  BY <1>1, <2>1, <2>2, <2>3
<1>4. TypeOK'
  BY <1>1, <1>2, <1>3 DEF TypeOK
<1>5. Transfer'
  BY <1>2, <1>3 DEF Transfer
<1>6. ReadIsExact'
  BY <1>2 DEF ReadIsExact
<1> QED  BY <1>4, <1>5, <1>6

(* A read that ends with an error satisfies everything. *)
LEMMA ErrorOK ==
  ASSUME IInv, phase = "body", Return(-ENOENT),
         data' \in Seq(Nat \cup {Junk}), Len(data') <= size,
         coming' \in Seq(Nat \cup {Junk}), status' \in {404, -18, -23},
         UNCHANGED <<asked, offset, length, size, body>>
  PROVE  IInv'
<1> USE DEF IInv
<1>1. TypeOK'
  BY DEF TypeOK, Return
<1>2. Transfer' /\ ReadIsExact'
  BY Numbers DEF Transfer, ReadIsExact, Return, ENOENT
<1> QED  BY <1>1, <1>2

(* A broken connection ends in an error.                                   *)
LEMMA BreakOK ==
  ASSUME IInv, Break
  PROVE  IInv'
<1>1. Return(-ENOENT)
  BY DEF Break, Result
<1> QED  BY <1>1, ErrorOK DEF Break, IInv, TypeOK, Transfer

(* A piece of the body is copied as far as it fits.                        *)
LEMMA DeliverOK ==
  ASSUME IInv, NEW n \in 1..Len(coming), Deliver(n)
  PROVE  IInv'
<1> USE DEF IInv
<1> DEFINE k == Copied(n)
<1>1. /\ phase = "body" /\ size \in Nat /\ Len(data) \in Nat
      /\ Len(coming) \in Nat /\ Len(data) <= size
      /\ data \in Seq(Nat \cup {Junk}) /\ coming \in Seq(Nat \cup {Junk})
      /\ UNCHANGED <<asked, offset, length, size, body>>
  BY Numbers DEF Deliver, Transfer, TypeOK
<1>2. k \in 0..n /\ Len(data) + k <= size /\ k \in 0..Len(coming)
  BY <1>1 DEF Copied, Smaller
<1>3. /\ data' = data \o SubSeq(coming, 1, k)
      /\ coming' = SubSeq(coming, n + 1, Len(coming))
  BY DEF Deliver
<1> HIDE DEF k
<1>4. /\ SubSeq(coming, 1, k) \in Seq(Nat \cup {Junk})
      /\ Len(SubSeq(coming, 1, k)) = k
      /\ \A i \in 1..k : SubSeq(coming, 1, k)[i] = coming[i]
  BY <1>1, <1>2
<1>5. /\ data' \in Seq(Nat \cup {Junk})
      /\ Len(data') = Len(data) + k
      /\ \A i \in 1..Len(data) : data'[i] = data[i]
      /\ \A i \in Len(data) + 1 .. Len(data) + k : data'[i] = coming[i - Len(data)]
  BY <1>1, <1>2, <1>3, <1>4
<1>6. /\ coming' \in Seq(Nat \cup {Junk})
      /\ Len(coming') = Len(coming) - n
      /\ \A i \in 1..Len(coming') : coming'[i] = coming[i + n]
  BY <1>1, <1>3
<1>7. CASE k < n
  <2>1. status' = -23 /\ Return(-ENOENT)
    BY <1>7 DEF Deliver, Result, k
  <2> QED  BY <1>1, <1>2, <1>5, <1>6, <2>1, ErrorOK
<1>8. CASE k = n
  <2>1. UNCHANGED <<status, phase, ret>>
    BY <1>8 DEF Deliver, k
  <2>2. ASSUME NEW lo \in Nat, NEW hi \in Nat, Receives(lo, hi)
        PROVE  /\ Len(data') + Len(coming') = IF lo <= hi THEN hi - lo ELSE 0
               /\ \A i \in 1..Len(data') : data'[i] = lo + i - 1
               /\ \A i \in 1..Len(coming') : coming'[i] = lo + Len(data') + i - 1
    <3>1. Len(data') + Len(coming') = Len(data) + Len(coming)
      BY <1>1, <1>5, <1>6, <1>8
    <3>2. ASSUME NEW i \in 1..Len(data')
          PROVE  data'[i] = lo + i - 1
      <4>1. CASE i <= Len(data)
        BY <1>1, <1>5, <2>2, <4>1 DEF Receives
      <4>2. CASE i > Len(data)
        <5>1. i - Len(data) \in 1..Len(coming) /\ data'[i] = coming[i - Len(data)]
          BY <1>1, <1>2, <1>5, <3>2, <4>2
        <5>2. coming[i - Len(data)] = lo + Len(data) + (i - Len(data)) - 1
          BY <2>2, <5>1 DEF Receives
        <5> QED  BY <1>1, <5>1, <5>2
      <4> QED  BY <1>1, <1>5, <4>1, <4>2
    <3>3. \A i \in 1..Len(coming') : coming'[i] = lo + Len(data') + i - 1
      BY <1>1, <1>5, <1>6, <1>8, <2>2 DEF Receives
    <3> QED  BY <2>2, <3>1, <3>2, <3>3 DEF Receives
  <2>3. TypeOK'
    BY <1>1, <1>5, <1>6, <2>1 DEF TypeOK
  <2>4. /\ Smaller(offset + size, body) \in Nat /\ offset \in Nat /\ body \in Nat
        /\ Smaller(offset + size, body)' = Smaller(offset + size, body)
    BY <1>1, Numbers DEF Smaller
  <2>5. /\ status = 206 => Receives(offset, Smaller(offset + size, body))'
        /\ status = 200 => Receives(0, body)'
    <3>1. status = 206 => Receives(offset, Smaller(offset + size, body))'
      <4> SUFFICES ASSUME status = 206
                   PROVE  Receives(offset, Smaller(offset + size, body))'
        OBVIOUS
      <4>1. Receives(offset, Smaller(offset + size, body))
        BY <1>1 DEF Transfer
      <4> QED  BY <1>1, <2>2, <2>4, <4>1 DEF Receives
    <3>2. status = 200 => Receives(0, body)'
      <4> SUFFICES ASSUME status = 200 PROVE Receives(0, body)'
        OBVIOUS
      <4>1. Receives(0, body)
        BY <1>1 DEF Transfer
      <4> QED  BY <1>1, <2>2, <2>4, <4>1 DEF Receives
    <3> QED  BY <3>1, <3>2
  <2>6. Transfer'
    BY <1>1, <1>2, <1>5, <2>1, <2>5 DEF Transfer
  <2>7. ReadIsExact'
    BY <1>1, <2>1 DEF ReadIsExact
  <2> QED  BY <2>3, <2>6, <2>7
<1> QED  BY <1>2, <1>7, <1>8

(* A read that ends well has received all it returns.                      *)
LEMMA FinishOK ==
  ASSUME IInv, Finish
  PROVE  IInv'
<1> USE DEF IInv
<1>1. /\ phase = "body" /\ phase' = "done" /\ coming = << >>
      /\ status \in {200, 206, 404} /\ ret' = Result(status)
      /\ UNCHANGED <<asked, offset, length, size, body, status, coming, data>>
      /\ offset < length /\ size = Smaller(asked, length - offset)
      /\ Len(data) <= size
  BY DEF Finish, Return, Transfer
<1>2. CASE status = 404
  BY <1>1, <1>2, ErrorOK DEF Finish, Result, TypeOK
<1>3. CASE status \in {200, 206}
  <2>1. ret' = size /\ size \in Nat /\ size <= asked
    BY <1>1, <1>3 DEF Result, TypeOK, Transfer
  <2>2. ASSUME length <= body
        PROVE  Exact'
    <3>1. CASE status = 206
      <4>1. Receives(offset, Smaller(offset + size, body))
        BY <1>1, <3>1 DEF Transfer
      <4> QED  BY <1>1, <2>1, <2>2, <4>1, Numbers DEF Exact, Receives, Smaller
    <3>2. CASE status = 200
      <4>1. Receives(0, body)
        BY <1>1, <3>2 DEF Transfer
      <4>2. offset = 0 /\ body = size
        BY <1>1, <2>2, <4>1, Numbers DEF Receives, Smaller
      <4> QED  BY <1>1, <2>1, <4>1, <4>2, Numbers DEF Exact, Receives, Smaller
    <3> QED  BY <1>3, <3>1, <3>2
  <2>3. TypeOK' /\ Transfer'
    BY <1>1, <2>1 DEF TypeOK, Transfer
  <2>4. ReadIsExact'
    BY <1>1, <2>2 DEF ReadIsExact
  <2> QED  BY <2>3, <2>4
<1> QED  BY <1>1, <1>2, <1>3

(* Every step keeps the invariant.                                         *)
LEMMA InvariantStep ==
  ASSUME IInv, [Next]_vars
  PROVE  IInv'
<1>1. CASE Clamp
  BY <1>1, ClampOK
<1>2. CASE Request
  BY <1>2, RequestOK
<1>3. CASE Break
  BY <1>3, BreakOK
<1>4. CASE Finish
  BY <1>4, FinishOK
<1>5. ASSUME NEW n \in 1..Len(coming), Deliver(n)
      PROVE  IInv'
  BY <1>5, DeliverOK
<1>6. CASE UNCHANGED vars
  BY <1>6 DEF vars, IInv, TypeOK, Transfer, ReadIsExact, Receives, Exact
<1> QED  BY <1>1, <1>2, <1>3, <1>4, <1>5, <1>6 DEF Next, Done

(* No read writes or claims more than the kernel's buffer holds, for any   *)
(* sizes of request and file and any response.                             *)
THEOREM BufferIsSafe == Spec => []StaysInBuffer
<1>1. IInv => StaysInBuffer
  BY DEF IInv, Transfer, StaysInBuffer
<1> QED  BY <1>1, InitOK, InvariantStep, PTL DEF Spec

(* A read of a file that has not become shorter returns the bytes asked    *)
(* for, all of them, or an error.                                          *)
THEOREM ReadsAreExact == Spec => []ReadIsExact
<1>1. IInv => ReadIsExact
  BY DEF IInv
<1> QED  BY <1>1, InitOK, InvariantStep, PTL DEF Spec
=============================================================================
