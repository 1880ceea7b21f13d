--------------------------- MODULE ProcFileProofs ---------------------------
(* Theorems about ProcFile for any processes, chunks and text lengths, and  *)
(* any width of the setting.                                                *)
EXTENDS ProcFile, SequenceTheorems, WellFoundedInduction, TLAPS

(* The part of the types the argument needs. *)
Shapes ==
  /\ wrote \in [Procs -> Seq(Char)]
  /\ meddled \in [Procs -> {"nothing", "reloaded", "changed"}]
  /\ pc \in [Procs -> {"closed", "open"}]
  /\ m_wrote \in BOOLEAN

(* A process whose text somebody else reloads or changes knows it. *)
LEMMA MeddleOK ==
  ASSUME Shapes, NEW Self, NEW how \in {"reloaded", "changed"}
  PROVE  /\ Meddle(Self, how) \in [Procs -> {"nothing", "reloaded", "changed"}]
         /\ \A q \in Procs \ Self :
              wrote[q] # << >> => Meddle(Self, how)[q] # "nothing"
BY DEF Shapes, Meddle

(* Every step keeps the shapes. *)
LEMMA ShapesStep ==
  ASSUME Shapes, [Next]_vars
  PROVE  Shapes'
<1> USE DEF Shapes
<1>1. ASSUME NEW p \in Procs, NEW append \in BOOLEAN, Open(p, append)
      PROVE  Shapes'
  <2>1. wrote' = [wrote EXCEPT ![p] = << >>] /\ << >> \in Seq(Char)
    BY <1>1 DEF Open
  <2>2. Meddle({p}, "reloaded") \in
          [Procs -> {"nothing", "reloaded", "changed"}]
    BY MeddleOK
  <2> QED  BY <1>1, <2>1, <2>2 DEF Open, Reload
<1>2. ASSUME NEW p \in Procs, NEW chunk \in Chunks, Write(p, chunk)
      PROVE  Shapes'
  <2>1. chunk \in Seq(Char)
    BY ChunksAssumption
  <2>2. wrote' \in [Procs -> Seq(Char)]
    <3>1. << >> \in Seq(Char) /\ wrote[p] \o chunk \in Seq(Char)
      BY <2>1
    <3>2. CASE offset[p] = 0
      BY <1>2, <2>1, <3>2 DEF Write
    <3>3. CASE offset[p] # 0
      <4>1. wrote' = [wrote EXCEPT ![p] = IF wrote[p] = << >> THEN << >>
                                          ELSE wrote[p] \o chunk]
        BY <1>2, <3>3 DEF Write
      <4> QED  BY <3>1, <4>1
    <3> QED  BY <3>2, <3>3
  <2>3. Meddle({p}, "changed") \in
          [Procs -> {"nothing", "reloaded", "changed"}]
    BY MeddleOK
  <2>4. meddled' \in [Procs -> {"nothing", "reloaded", "changed"}]
    BY <1>2, <2>3 DEF Write
  <2> QED  BY <1>2, <2>2, <2>4 DEF Write
<1>3. ASSUME NEW p \in Procs, Release(p)
      PROVE  Shapes'
  <2>1. << >> \in Seq(Char)
    OBVIOUS
  <2> QED  BY <1>3, <2>1 DEF Release, Commit
<1>4. ASSUME NEW s \in Statters, StatOpen(s)
      PROVE  Shapes'
  <2>1. Meddle({}, "reloaded") \in
          [Procs -> {"nothing", "reloaded", "changed"}]
    BY MeddleOK
  <2> QED  BY <1>4, <2>1 DEF StatOpen, Reload, sessions
<1>5. ASSUME NEW s \in Statters, StatRelease(s)
      PROVE  Shapes'
  BY <1>5 DEF StatRelease, Commit, sessions, history
<1>6. ASSUME NEW s \in Statters, Truncate(s)
      PROVE  Shapes'
  <2>1. Meddle({}, "changed") \in
          [Procs -> {"nothing", "reloaded", "changed"}]
    BY MeddleOK
  <2> QED  BY <1>6, <2>1 DEF Truncate, sessions
<1>7. CASE UNCHANGED vars
  BY <1>7 DEF vars
<1>8. ASSUME NEW p \in Procs, NEW n \in Counts, Read(p, n)
      PROVE  Shapes'
  BY <1>8 DEF Read, object
<1> QED  BY <1>1, <1>2, <1>3, <1>4, <1>5, <1>6, <1>7, <1>8 DEF Next

(* OwnText is inductive: a write extends what is there, a reload or a      *)
(* change by somebody else is recorded, and a release changes no text.     *)
LEMMA OwnTextStep ==
  ASSUME Shapes, OwnText, [Next]_vars
  PROVE  OwnText'
<1> SUFFICES ASSUME NEW q \in Procs, wrote'[q] # << >>, meddled'[q] = "nothing"
             PROVE  m_wrote' /\ m_string' = wrote'[q] /\ pc'[q] = "open"
  BY DEF OwnText
<1> USE DEF Shapes
<1>1. ASSUME NEW p \in Procs, NEW append \in BOOLEAN, Open(p, append)
      PROVE  FALSE
  <2>1. q # p
    BY <1>1 DEF Open
  <2>2. wrote'[q] = wrote[q] /\ meddled'[q] = Meddle({p}, "reloaded")[q]
    BY <1>1, <2>1, MeddleOK DEF Open
  <2> QED  BY <2>1, <2>2, MeddleOK
<1>2. ASSUME NEW p \in Procs, NEW chunk \in Chunks, Write(p, chunk)
      PROVE  m_wrote' /\ m_string' = wrote'[q] /\ pc'[q] = "open"
  <2>1. chunk \in Seq(Char)
    BY ChunksAssumption
  <2>2. m_wrote' /\ pc' = pc /\ pc[p] = "open"
        /\ m_string' = Base(p) \o chunk
    BY <1>2 DEF Write
  <2>3. CASE q # p
    <3>1. wrote'[q] = wrote[q] /\ meddled'[q] = Meddle({p}, "changed")[q]
      BY <1>2, <2>3, MeddleOK DEF Write
    <3> QED  BY <2>3, <3>1, MeddleOK
  <2>4. CASE q = p /\ offset[p] = 0
    <3>1. wrote'[q] = chunk /\ Base(p) = << >>
      BY <1>2, <2>4 DEF Write, Base
    <3>2. << >> \o chunk = chunk
      BY <2>1
    <3> QED  BY <2>2, <2>4, <3>1, <3>2
  <2>5. CASE q = p /\ offset[p] # 0
    <3>1. /\ wrote'[q] = IF wrote[q] = << >> THEN << >> ELSE wrote[q] \o chunk
          /\ meddled'[q] = Meddle({p}, "changed")[q]
          /\ Base(p) = m_string
      BY <1>2, <2>5, MeddleOK DEF Write, Base
    <3>2. Meddle({p}, "changed")[q] = meddled[q]
      BY <2>5 DEF Meddle
    <3>3. m_string = wrote[q]
      BY <3>1, <3>2 DEF OwnText
    <3> QED  BY <2>2, <2>5, <3>1, <3>3
  <2> QED  BY <2>3, <2>4, <2>5
<1>3. ASSUME NEW p \in Procs, Release(p)
      PROVE  m_wrote' /\ m_string' = wrote'[q] /\ pc'[q] = "open"
  BY <1>3 DEF Release, Commit, OwnText
<1>4. ASSUME NEW s \in Statters, StatRelease(s)
      PROVE  m_wrote' /\ m_string' = wrote'[q] /\ pc'[q] = "open"
  BY <1>4 DEF StatRelease, Commit, OwnText, sessions, history
<1>5. ASSUME NEW s \in Statters, StatOpen(s) \/ Truncate(s)
      PROVE  FALSE
  <2>1. /\ wrote' = wrote
        /\ \E how \in {"reloaded", "changed"} : meddled' = Meddle({}, how)
    BY <1>5 DEF StatOpen, Truncate
  <2> QED  BY <2>1, MeddleOK
<1>6. CASE UNCHANGED vars
  BY <1>6 DEF vars, OwnText
<1>7. ASSUME NEW p \in Procs, NEW n \in Counts, Read(p, n)
      PROVE  m_wrote' /\ m_string' = wrote'[q] /\ pc'[q] = "open"
  BY <1>7 DEF Read, object, OwnText
<1> QED  BY <1>1, <1>2, <1>3, <1>4, <1>5, <1>6, <1>7 DEF Next

(* The shared object holds the text of a session nobody has meddled with. *)
THEOREM OwnTextAlways == Spec => [](Shapes /\ OwnText)
<1>1. Init => Shapes /\ OwnText
  <2> SUFFICES ASSUME Init PROVE Shapes /\ OwnText
    OBVIOUS
  <2>1. << >> \in Seq(Char)
    OBVIOUS
  <2> QED  BY <2>1 DEF Init, Shapes, OwnText
<1>2. Shapes /\ OwnText /\ [Next]_vars => (Shapes /\ OwnText)'
  BY ShapesStep, OwnTextStep
<1> QED  BY <1>1, <1>2, PTL DEF Spec

(* The number that an undisturbed writer wrote is the setting once its     *)
(* file is closed.                                                         *)
THEOREM UndisturbedWriteTakesEffect == Spec => OwnTextTakesEffect
<1> DEFINE Effect == \A p \in Procs :
             Release(p) /\ wrote[p] # << >> /\ meddled[p] = "nothing" =>
               setting' = Parse(wrote[p])
<1>1. OwnText /\ [Next]_vars => [Effect]_vars
  <2> SUFFICES ASSUME OwnText, NEW p \in Procs, Release(p),
                      wrote[p] # << >>, meddled[p] = "nothing"
               PROVE  setting' = Parse(wrote[p])
    OBVIOUS
  <2>1. m_wrote /\ m_string = wrote[p]
    BY DEF OwnText
  <2>2. setting' = Parse(m_string)
    BY <2>1 DEF Release, Commit
  <2> QED  BY <2>1, <2>2
<1> QED  BY <1>1, OwnTextAlways, PTL DEF Spec, OwnTextTakesEffect

(* An object nobody has written to since its last open or stat shows the   *)
(* setting of now, or has been truncated: only a release of a written text *)
(* changes the setting, and it leaves m_wrote as it is.                    *)
THEOREM UnwrittenIsCurrent == Spec => []UnwrittenShowsSetting
<1>1. Init => UnwrittenShowsSetting
  BY DEF Init, UnwrittenShowsSetting
<1>2. UnwrittenShowsSetting /\ [Next]_vars => UnwrittenShowsSetting'
  <2> SUFFICES ASSUME UnwrittenShowsSetting, [Next]_vars
               PROVE  UnwrittenShowsSetting'
    OBVIOUS
  <2> USE DEF UnwrittenShowsSetting
  <2>1. ASSUME NEW p \in Procs, NEW append \in BOOLEAN, Open(p, append)
        PROVE  UnwrittenShowsSetting'
    BY <2>1 DEF Open, Reload
  <2>2. ASSUME NEW p \in Procs, Release(p)
        PROVE  UnwrittenShowsSetting'
    BY <2>2 DEF Release, Commit
  <2>3. ASSUME NEW p \in Procs, NEW n \in Counts, Read(p, n)
        PROVE  UnwrittenShowsSetting'
    BY <2>3 DEF Read, object
  <2>4. ASSUME NEW p \in Procs, NEW chunk \in Chunks, Write(p, chunk)
        PROVE  UnwrittenShowsSetting'
    BY <2>4 DEF Write
  <2>5. ASSUME NEW s \in Statters, StatOpen(s) \/ StatRelease(s) \/ Truncate(s)
        PROVE  UnwrittenShowsSetting'
    BY <2>5 DEF StatOpen, Reload, StatRelease, Commit, Truncate
  <2>6. CASE UNCHANGED vars
    BY <2>6 DEF vars
  <2> QED  BY <2>1, <2>2, <2>3, <2>4, <2>5, <2>6 DEF Next
<1> QED  BY <1>1, <1>2, PTL DEF Spec
-----------------------------------------------------------------------------
(* Numbers as text: what uint64_to_str and strtoll make of each other.      *)

(* Strong induction, over a set of numbers.                                 *)
LEMMA Downwards ==
  ASSUME NEW S, \A n \in Nat : (\A m \in 0..n - 1 : m \in S) => n \in S
  PROVE  Nat \subseteq S
<1> SUFFICES ASSUME Nat \ S # {} PROVE FALSE
  OBVIOUS
<1>1. PICK n \in Nat \ S : \A m \in Nat \ S : ~ (<<m, n>> \in OpToRel(<, Nat))
  BY NatLessThanWellFounded, WFMin, Nat \ S \subseteq Nat, Zenon
<1>2. ASSUME NEW m \in Nat \ S, m < n PROVE FALSE
  <2>1. <<m, n>> \in OpToRel(<, Nat)
    BY <1>2, Zenon DEF OpToRel
  <2> QED  BY <1>1, <2>1
<1>3. \A m \in 0..n - 1 : m \in S
  BY <1>2
<1> QED  BY <1>3

(* The last digit, and the number before it.                                *)
LEMMA LastDigit ==
  ASSUME NEW v \in Nat
  PROVE  /\ v \div 10 \in Nat /\ v % 10 \in 0..9
         /\ v = 10 * (v \div 10) + (v % 10)
         /\ v >= 10 => v \div 10 \in 0..v - 1
<1>1. v \div 10 \in Nat /\ v % 10 \in 0..9
  OBVIOUS
<1>2. v = 10 * (v \div 10) + (v % 10)
  OBVIOUS
<1>3. v >= 10 => v \div 10 < v
  OBVIOUS
<1> QED  BY <1>1, <1>2, <1>3

(* DigitsOf is the function that its recursive definition describes: there  *)
(* is one up to each number, any two agree, and their values make it up.    *)
Digits(f, v) == IF v < 10 THEN <<v>> ELSE Append(f[v \div 10], v % 10)
UpTo(f, n) == f = [v \in 0..n |-> Digits(f, v)]

LEMMA DigitsUpToExist == \A n \in Nat : \E f : UpTo(f, n)
<1> DEFINE S == {n \in Nat : \E f : UpTo(f, n)}
<1>1. ASSUME NEW n \in Nat, \A m \in 0..n - 1 : m \in S
      PROVE  n \in S
  <2>1. \E g : \A v \in 0..n - 1 : g[v] = Digits(g, v)
    <3>1. CASE n = 0
      BY <3>1
    <3>2. CASE n # 0
      <4>1. n - 1 \in S
        BY <1>1, <3>2
      <4> QED  BY <4>1 DEF UpTo
    <3> QED  BY <3>1, <3>2
  <2>2. PICK g : \A v \in 0..n - 1 : g[v] = Digits(g, v)
    BY <2>1
  <2> DEFINE f == [v \in 0..n |-> IF v = n THEN Digits(g, n) ELSE g[v]]
  <2>3. ASSUME NEW v \in 0..n PROVE Digits(f, v) = Digits(g, v)
    BY LastDigit DEF Digits
  <2>4. \A v \in 0..n : f[v] = Digits(g, v)
    BY <2>2
  <2> HIDE DEF f
  <2>5. f = [v \in 0..n |-> f[v]]
    BY DEF f
  <2>6. UpTo(f, n)
    BY <2>3, <2>4, <2>5 DEF UpTo
  <2> QED  BY <2>6
<1> HIDE DEF S
<1>2. Nat \subseteq S
  BY <1>1, Downwards
<1> QED  BY <1>2 DEF S

LEMMA DigitsUpToAgree ==
  \A v \in Nat : \A n, m, f, g :
    n \in Nat /\ m \in Nat /\ v <= n /\ v <= m /\ UpTo(f, n) /\ UpTo(g, m) =>
      f[v] = g[v]
<1> DEFINE S == {v \in Nat : \A n, m, f, g :
                   n \in Nat /\ m \in Nat /\ v <= n /\ v <= m
                     /\ UpTo(f, n) /\ UpTo(g, m) => f[v] = g[v]}
<1>1. ASSUME NEW v \in Nat, \A u \in 0..v - 1 : u \in S
      PROVE  v \in S
  <2> SUFFICES ASSUME NEW n \in Nat, NEW m \in Nat, NEW f, NEW g, v <= n, v <= m,
                      UpTo(f, n), UpTo(g, m)
               PROVE  f[v] = g[v]
    OBVIOUS
  <2>1. f[v] = Digits(f, v) /\ g[v] = Digits(g, v)
    <3>1. v \in 0..n /\ v \in 0..m
      OBVIOUS
    <3> QED  BY <3>1 DEF UpTo
  <2>2. CASE v < 10
    BY <2>1, <2>2 DEF Digits
  <2>3. CASE ~ (v < 10)
    <3>1. v \div 10 \in 0..v - 1
      BY <2>3, LastDigit
    <3>2. v \div 10 <= n /\ v \div 10 <= m /\ v \div 10 \in S
      BY <1>1, <3>1
    <3>3. f[v \div 10] = g[v \div 10]
      BY <3>2
    <3> QED  BY <2>1, <2>3, <3>3 DEF Digits
  <2> QED  BY <2>2, <2>3
<1> HIDE DEF S
<1>2. Nat \subseteq S
  BY <1>1, Downwards
<1> QED  BY <1>2 DEF S

LEMMA DigitsOfDef ==
  ASSUME NEW v \in Nat
  PROVE  DigitsOf[v] = IF v < 10 THEN <<v>> ELSE Append(DigitsOf[v \div 10], v % 10)
<1> DEFINE part(n) == CHOOSE f : UpTo(f, n)
           whole == [n \in Nat |-> part(n)[n]]
<1>1. \A n \in Nat : UpTo(part(n), n)
  BY DigitsUpToExist
<1> HIDE DEF part
<1>2. ASSUME NEW n \in Nat PROVE whole[n] = Digits(whole, n)
  <2>1. whole[n] = Digits(part(n), n)
    BY <1>1 DEF UpTo
  <2>2. CASE n < 10
    BY <2>1, <2>2 DEF Digits
  <2>3. CASE ~ (n < 10)
    <3>1. n \div 10 \in Nat /\ n \div 10 <= n
      BY <2>3, LastDigit
    <3>2. part(n)[n \div 10] = part(n \div 10)[n \div 10]
      BY <1>1, <3>1, DigitsUpToAgree
    <3> QED  BY <2>1, <2>3, <3>1, <3>2 DEF Digits
  <2> QED  BY <2>2, <2>3
<1> HIDE DEF whole
<1>3. whole = [n \in Nat |-> whole[n]]
  BY DEF whole
<1>4. whole = [n \in Nat |-> IF n < 10 THEN <<n>> ELSE Append(whole[n \div 10], n % 10)]
  BY <1>2, <1>3 DEF Digits
<1>5. DigitsOf = [n \in Nat |-> IF n < 10 THEN <<n>> ELSE Append(DigitsOf[n \div 10], n % 10)]
  BY <1>4 DEF DigitsOf
<1> QED  BY <1>5

LEMMA DigitsOfEach ==
  ASSUME NEW v \in Nat
  PROVE  /\ v < 10 => DigitsOf[v] = <<v>>
         /\ ~ (v < 10) => DigitsOf[v] = Append(DigitsOf[v \div 10], v % 10)
BY DigitsOfDef, Zenon

(* The digits of a number, and the number that digits denote.               *)
LEMMA DigitsType ==
  ASSUME NEW v \in Nat
  PROVE  DigitsOf[v] \in Seq(0..9) /\ Len(DigitsOf[v]) \in Nat \ {0}
<1> DEFINE S == {n \in Nat : DigitsOf[n] \in Seq(0..9) /\ Len(DigitsOf[n]) # 0}
<1>1. ASSUME NEW n \in Nat, \A m \in 0..n - 1 : m \in S
      PROVE  n \in S
  <2>1. CASE n < 10
    <3>1. DigitsOf[n] = <<n>>
      BY <2>1, DigitsOfEach
    <3>2. n \in 0..9
      BY <2>1
    <3>3. <<n>> \in Seq(0..9) /\ Len(<<n>>) # 0
      BY <3>2
    <3> QED  BY <3>1, <3>3
  <2>2. CASE ~ (n < 10)
    <3>1. n \div 10 \in 0..n - 1 /\ n % 10 \in 0..9
      BY <2>2, LastDigit
    <3>2. DigitsOf[n] = Append(DigitsOf[n \div 10], n % 10)
      BY <2>2, DigitsOfEach
    <3>3. DigitsOf[n \div 10] \in Seq(0..9)
      BY <1>1, <3>1
    <3>4. \A d \in Seq(0..9), i \in 0..9 :
            Append(d, i) \in Seq(0..9) /\ Len(Append(d, i)) # 0
      OBVIOUS
    <3> QED  BY <3>1, <3>2, <3>3, <3>4
  <2> QED  BY <2>1, <2>2
<1> HIDE DEF S
<1>2. v \in S
  BY <1>1, Downwards
<1> QED  BY <1>2 DEF S

LEMMA TextType ==
  ASSUME NEW v \in Nat
  PROVE  /\ ToText(v) \in Seq(Char) /\ Len(ToText(v)) = Len(DigitsOf[v]) + 1
         /\ \A i \in 1..Len(DigitsOf[v]) :
              ToText(v)[i] = DigitsOf[v][i] /\ ToText(v)[i] \in 0..9
         /\ ToText(v)[Len(DigitsOf[v]) + 1] = NL
<1>1. DigitsOf[v] \in Seq(0..9) /\ Len(DigitsOf[v]) \in Nat \ {0}
  BY DigitsType
<1>2. DigitsOf[v] \in Seq(Char) /\ NL \in Char
  BY <1>1 DEF Char, NL
<1>3. \A i \in 1..Len(DigitsOf[v]) : DigitsOf[v][i] \in 0..9
  BY <1>1
<1> QED  BY <1>1, <1>2, <1>3 DEF ToText

LEMMA DigitsDenote ==
  \A v \in Nat : \A h :
    /\ h[0] = 0
    /\ \A i \in 1..Len(DigitsOf[v]) : h[i] = 10 * h[i - 1] + DigitsOf[v][i]
    => h[Len(DigitsOf[v])] = v
<1> DEFINE Sum(n, h) == /\ h[0] = 0
                        /\ \A i \in 1..Len(DigitsOf[n]) :
                             h[i] = 10 * h[i - 1] + DigitsOf[n][i]
           S == {n \in Nat : \A h : Sum(n, h) => h[Len(DigitsOf[n])] = n}
<1>1. ASSUME NEW n \in Nat, \A m \in 0..n - 1 : m \in S
      PROVE  n \in S
  <2> SUFFICES ASSUME NEW h, Sum(n, h) PROVE h[Len(DigitsOf[n])] = n
    OBVIOUS
  <2>1. CASE n < 10
    <3>1. DigitsOf[n] = <<n>>
      BY <2>1, DigitsOfEach
    <3>2. Len(DigitsOf[n]) = 1 /\ DigitsOf[n][1] = n
      BY <3>1
    <3>3. h[1] = 10 * h[1 - 1] + n /\ h[1 - 1] = 0
      BY <3>2
    <3> QED  BY <3>2, <3>3
  <2>2. CASE ~ (n < 10)
    <3> DEFINE m == n \div 10
               d == DigitsOf[m]
    <3>1. m \in 0..n - 1 /\ n % 10 \in 0..9 /\ n = 10 * m + (n % 10)
      BY <2>2, LastDigit
    <3>2. DigitsOf[n] = Append(d, n % 10) /\ d \in Seq(0..9)
      <4>1. DigitsOf[n] = Append(d, n % 10)
        BY <2>2, DigitsOfEach
      <4> QED  BY <3>1, <4>1, DigitsType
    <3>3. /\ Len(DigitsOf[n]) = Len(d) + 1 /\ Len(d) \in Nat
          /\ \A i \in 1..Len(d) : DigitsOf[n][i] = d[i]
          /\ DigitsOf[n][Len(d) + 1] = n % 10
      BY <3>1, <3>2
    <3> HIDE DEF m
    <3>4. Sum(m, h)
      BY <3>3
    <3>5. m \in S
      BY <1>1, <3>1
    <3>6. h[Len(d)] = m
      BY <3>4, <3>5
    <3>7. h[Len(d) + 1] = 10 * h[Len(d) + 1 - 1] + (n % 10)
      BY <3>3
    <3>8. Len(d) + 1 - 1 = Len(d)
      BY <3>3
    <3> QED  BY <3>1, <3>3, <3>6, <3>7, <3>8
  <2> QED  BY <2>1, <2>2
<1> HIDE DEF S
<1>2. Nat \subseteq S
  BY <1>1, Downwards
<1> QED  BY <1>2 DEF S

(* The function that adds up the digits of a text from a place on.          *)
Steps(f, text, first, last) ==
  [i \in first - 1 .. last |-> IF i < first THEN 0 ELSE 10 * f[i - 1] + text[i]]

LEMMA ValueExists ==
  ASSUME NEW text \in Seq(Char), NEW first \in 1..2
  PROVE  \A last \in Nat : first - 1 <= last /\ last <= Len(text) =>
           \E f : f = Steps(f, text, first, last)
<1> DEFINE S == {n \in Nat : first - 1 <= n /\ n <= Len(text) =>
                   \E f : f = Steps(f, text, first, n)}
<1>1. ASSUME NEW n \in Nat, \A m \in 0..n - 1 : m \in S
      PROVE  n \in S
  <2> SUFFICES ASSUME first - 1 <= n, n <= Len(text)
               PROVE  \E f : f = Steps(f, text, first, n)
    OBVIOUS
  <2>1. CASE n = first - 1
    <3> DEFINE f == [i \in first - 1 .. n |-> 0]
    <3>1. f = Steps(f, text, first, n)
      BY <2>1 DEF Steps
    <3> QED  BY <3>1
  <2>2. CASE n # first - 1
    <3>1. n - 1 \in 0..n - 1 /\ first - 1 <= n - 1 /\ n - 1 <= Len(text) /\ n >= first
      BY <2>2
    <3>2. n - 1 \in S
      BY <1>1, <3>1
    <3>3. PICK g : g = Steps(g, text, first, n - 1)
      BY <3>1, <3>2
    <3> DEFINE f == [i \in first - 1 .. n |->
                      IF i = n THEN 10 * g[n - 1] + text[n] ELSE g[i]]
    <3>4. \A i \in first - 1 .. n - 1 : g[i] = IF i < first THEN 0 ELSE 10 * g[i - 1] + text[i]
      BY <3>3 DEF Steps
    <3>5. ASSUME NEW i \in first - 1 .. n
          PROVE  f[i] = IF i < first THEN 0 ELSE 10 * f[i - 1] + text[i]
      <4>1. CASE i = n
        <5>1. f[i] = 10 * g[n - 1] + text[n] /\ f[i - 1] = g[n - 1] /\ ~ (i < first)
          BY <3>1, <4>1
        <5> QED  BY <4>1, <5>1
      <4>2. CASE i # n
        <5>1. i \in first - 1 .. n - 1 /\ f[i] = g[i]
          BY <4>2
        <5>2. ~ (i < first) => f[i - 1] = g[i - 1]
          BY <5>1
        <5> QED  BY <3>4, <5>1, <5>2
      <4> QED  BY <4>1, <4>2
    <3>7. f = [i \in first - 1 .. n |-> f[i]]
      OBVIOUS
    <3> HIDE DEF f
    <3>8. f = Steps(f, text, first, n)
      BY <3>5, <3>7 DEF Steps
    <3> QED  BY <3>8
  <2> QED  BY <2>1, <2>2
<1> HIDE DEF S
<1>2. Nat \subseteq S
  BY <1>1, Downwards
<1> QED  BY <1>2 DEF S

LEMMA ValueIsInt ==
  ASSUME NEW text \in Seq(Char), NEW first \in 1..2, NEW last \in Nat,
         first - 1 <= last, last <= Len(text),
         NEW f, f = Steps(f, text, first, last)
  PROVE  f[last] \in Int
<1> DEFINE S == {n \in Nat : n \in first - 1 .. last => f[n] \in Int}
<1>1. ASSUME NEW n \in Nat, \A m \in 0..n - 1 : m \in S
      PROVE  n \in S
  <2> SUFFICES ASSUME n \in first - 1 .. last PROVE f[n] \in Int
    OBVIOUS
  <2>1. f[n] = IF n < first THEN 0 ELSE 10 * f[n - 1] + text[n]
    BY DEF Steps
  <2>2. CASE n < first
    BY <2>1, <2>2
  <2>3. CASE ~ (n < first)
    <3>1. n - 1 \in 0..n - 1 /\ n - 1 \in first - 1 .. last
      BY <2>3
    <3>2. f[n - 1] \in Int
      BY <1>1, <3>1
    <3>3. text[n] \in Int
      BY <2>3 DEF Char
    <3> QED  BY <2>1, <2>3, <3>2, <3>3
  <2> QED  BY <2>2, <2>3
<1> HIDE DEF S
<1>2. last \in S
  BY <1>1, Downwards
<1> QED  BY <1>2 DEF S

(* There is a place where the digits end.                                   *)
LEMMA DigitsEnd ==
  ASSUME NEW text \in Seq(Char), NEW first \in 1..2, first - 1 <= Len(text)
  PROVE  \E n \in first - 1 .. Len(text) :
           /\ \A i \in first..n : text[i] \in 0..9
           /\ n < Len(text) => text[n + 1] \notin 0..9
<1> DEFINE S == {n \in Nat : first <= n /\ n <= Len(text) => text[n] \in 0..9}
<1>1. CASE \E n \in Nat : n \notin S /\ \A m \in 0..n - 1 : m \in S
  <2>1. PICK n \in Nat : n \notin S /\ \A m \in 0..n - 1 : m \in S
    BY <1>1
  <2>2. first <= n /\ n <= Len(text) /\ text[n] \notin 0..9
    BY <2>1
  <2>3. n - 1 \in first - 1 .. Len(text) /\ n - 1 + 1 = n
    BY <2>2
  <2>4. \A i \in first .. n - 1 : text[i] \in 0..9
    BY <2>1, <2>2
  <2> QED  BY <2>2, <2>3, <2>4
<1>2. CASE \A n \in Nat : (\A m \in 0..n - 1 : m \in S) => n \in S
  <2> HIDE DEF S
  <2>1. Nat \subseteq S
    BY <1>2, Downwards
  <2>2. \A i \in first .. Len(text) : text[i] \in 0..9
    BY <2>1 DEF S
  <2> QED  BY <2>2
<1> QED  BY <1>1, <1>2

(* strtoll of any text: the digits from first to last, and their sum.       *)
LEMMA StrtollDef ==
  ASSUME NEW text \in Seq(Char)
  PROVE  \E first, last, value :
           /\ first = (IF text # << >> /\ text[1] = Minus THEN 2 ELSE 1)
           /\ last \in first - 1 .. Len(text)
           /\ \A i \in first..last : text[i] \in 0..9
           /\ last < Len(text) => text[last + 1] \notin 0..9
           /\ value = Steps(value, text, first, last) /\ value[last] \in Int
           /\ Strtoll(text) = InRange(IF first = 2 THEN - value[last] ELSE value[last])
<1> DEFINE signed == text # << >> /\ text[1] = Minus
           first == IF signed THEN 2 ELSE 1
           AllDigits(n) == \A i \in first..n : text[i] \in 0..9
           last == CHOOSE n \in first - 1 .. Len(text) :
                     AllDigits(n) /\ (n < Len(text) => text[n + 1] \notin 0..9)
           value == CHOOSE f : f = Steps(f, text, first, last)
<1>1. first \in 1..2 /\ first - 1 <= Len(text) /\ (first = 2 <=> signed)
  OBVIOUS
<1>2. Strtoll(text) = InRange(IF signed THEN - value[last] ELSE value[last])
  BY DEF Strtoll, Steps
<1> HIDE DEF signed, first
<1>3. /\ last \in first - 1 .. Len(text)
      /\ \A i \in first..last : text[i] \in 0..9
      /\ last < Len(text) => text[last + 1] \notin 0..9
  BY <1>1, DigitsEnd
<1> HIDE DEF last
<1>4. \E f : f = Steps(f, text, first, last)
  BY <1>1, <1>3, ValueExists
<1>5. value = Steps(value, text, first, last)
  BY <1>4
<1> HIDE DEF value
<1>6. value[last] \in Int
  BY <1>1, <1>3, <1>5, ValueIsInt
<1> QED  BY <1>1, <1>2, <1>3, <1>5, <1>6 DEF first, signed

(* A setting that is stored is one of Modulus numbers, whatever the text.   *)
LEMMA ParseType ==
  ASSUME NEW text \in Seq(Char)
  PROVE  Parse(text) \in 0 .. Modulus - 1
<1>1. Half \in Int
  BY SettingAssumption DEF Half
<1>2. \A n \in Int : InRange(n) \in Int
  <2>1. \A n : InRange(n) \in {Half - 1, - Half, n}
    BY Zenon DEF InRange
  <2> QED  BY <1>1, <2>1
<1>3. Strtoll(text) \in Int
  <2>1. PICK first, last, value :
          /\ value[last] \in Int
          /\ Strtoll(text) = InRange(IF first = 2 THEN - value[last] ELSE value[last])
    BY StrtollDef
  <2>2. (IF first = 2 THEN - value[last] ELSE value[last]) \in Int
    BY <2>1
  <2> QED  BY <1>2, <2>1, <2>2
<1> QED  BY <1>3, SettingAssumption DEF Parse

(* The text of a number that an int64_t can hold is read as that number.    *)
LEMMA ParseOfText ==
  ASSUME NEW v \in Nat, v < Half
  PROVE  Parse(ToText(v)) = v
<1> DEFINE text == ToText(v)
           len == Len(DigitsOf[v])
<1>1. /\ text \in Seq(Char) /\ Len(text) = len + 1 /\ len \in Nat \ {0}
      /\ \A i \in 1..len : text[i] = DigitsOf[v][i] /\ text[i] \in 0..9
      /\ text[len + 1] = 10
  BY TextType, DigitsType DEF NL
<1> HIDE DEF text
<1>2. PICK first, last, value :
        /\ first = (IF text # << >> /\ text[1] = Minus THEN 2 ELSE 1)
        /\ last \in first - 1 .. Len(text)
        /\ \A i \in first..last : text[i] \in 0..9
        /\ last < Len(text) => text[last + 1] \notin 0..9
        /\ value = Steps(value, text, first, last)
        /\ Strtoll(text) = InRange(IF first = 2 THEN - value[last] ELSE value[last])
  BY <1>1, StrtollDef
<1> HIDE DEF len
<1>3. first = 1
  BY <1>1, <1>2 DEF Minus
<1>4. last = len
  <2>1. last <= len
    <3>1. last > len => len + 1 \in first..last
      BY <1>1, <1>2, <1>3
    <3> QED  BY <1>1, <1>2, <1>3, <3>1
  <2>2. last >= len
    <3>1. last < len => last + 1 \in 1..len /\ last < Len(text)
      BY <1>1, <1>2, <1>3
    <3> QED  BY <1>1, <1>2, <1>3, <3>1
  <2> QED  BY <1>1, <1>2, <1>3, <2>1, <2>2
<1>5. value[last] = v
  <2>1. \A i \in 0..len : value[i] = IF i < 1 THEN 0 ELSE 10 * value[i - 1] + text[i]
    BY <1>2, <1>3, <1>4 DEF Steps
  <2>2. value[0] = 0
    BY <1>1, <2>1
  <2>3. \A i \in 1..len : value[i] = 10 * value[i - 1] + DigitsOf[v][i]
    BY <1>1, <2>1
  <2> QED  BY <1>4, <2>2, <2>3, DigitsDenote DEF len
<1>6. Strtoll(text) = InRange(v)
  BY <1>2, <1>3, <1>5
<1>7. InRange(v) = v
  <2>1. Half \in Nat /\ ~ (v >= Half) /\ ~ (v < - Half)
    BY SettingAssumption DEF Half
  <2> QED  BY <2>1, Zenon DEF InRange
<1>8. v < Modulus
  BY SettingAssumption DEF Half
<1>9. v % Modulus = v
  BY <1>8, SettingAssumption
<1> QED  BY <1>6, <1>7, <1>9 DEF Parse, text
-----------------------------------------------------------------------------
(* What the sessions share, for any of them.                                *)

LEMMA IsSequence ==
  ASSUME NEW T, NEW n \in Nat, NEW f, f = [i \in 1..n |-> f[i]],
         \A i \in 1..n : f[i] \in T
  PROVE  f \in Seq(T) /\ Len(f) = n
<1>1. f \in [1..n -> T]
  BY Zenon
<1> QED  BY <1>1

(* A text that is read on, from where reading stopped.                      *)
LEMMA ReadOn ==
  ASSUME NEW text \in Seq(Char), NEW o \in Nat, NEW c \in Nat, o + c <= Len(text),
         NEW piece \in Seq(Char), Len(piece) = c,
         \A i \in 1..c : piece[i] = text[o + i]
  PROVE  SubSeq(text, 1, o) \o piece = SubSeq(text, 1, o + c)
<1> DEFINE front == SubSeq(text, 1, o)
           whole == SubSeq(text, 1, o + c)
           both == front \o piece
<1>1. front \in Seq(Char) /\ Len(front) = o /\ \A i \in 1..o : front[i] = text[i]
  OBVIOUS
<1>2. /\ whole \in Seq(Char) /\ Len(whole) = o + c
      /\ \A i \in 1..o + c : whole[i] = text[i]
  OBVIOUS
<1> HIDE DEF front, whole
<1>3. /\ both \in Seq(Char) /\ Len(both) = Len(front) + Len(piece)
      /\ \A i \in 1..Len(front) + Len(piece) :
           both[i] = IF i <= Len(front) THEN front[i] ELSE piece[i - Len(front)]
  BY <1>1, ConcatProperties, Zenon
<1> HIDE DEF both
<1>4. ASSUME NEW i \in 1..o + c PROVE both[i] = whole[i]
  <2>1. both[i] = IF i <= o THEN front[i] ELSE piece[i - o]
    BY <1>1, <1>3
  <2>2. CASE i <= o
    BY <1>1, <1>2, <2>1, <2>2
  <2>3. CASE ~ (i <= o)
    <3>1. i - o \in 1..c /\ o + (i - o) = i
      BY <2>3
    <3> QED  BY <1>2, <2>1, <2>3, <3>1
  <2> QED  BY <2>2, <2>3
<1>5. Len(both) = Len(whole) /\ Len(both) = o + c
  BY <1>1, <1>2, <1>3
<1>6. both = whole
  BY <1>2, <1>3, <1>4, <1>5, SeqEqual
<1> QED  BY <1>6 DEF both, front, whole

LEMMA TypeStep ==
  ASSUME TypeOK, [Next]_vars
  PROVE  TypeOK'
<1> Shapes
  BY DEF TypeOK, Shapes
<1>1. Shapes'
  BY ShapesStep
<1> USE DEF TypeOK
<1> setting \in Nat
  BY SettingAssumption
<1>2. ASSUME NEW p \in Procs, NEW append \in BOOLEAN, Open(p, append)
      PROVE  TypeOK'
  <2>1. /\ setting' = setting /\ m_string' = ToText(setting) /\ stat' = stat
        /\ shown' = shown /\ quiet' = [quiet EXCEPT ![p] = TRUE]
        /\ offset' = [offset EXCEPT ![p] = IF append THEN Len(m_string') ELSE 0]
    BY <1>2 DEF Open, Reload
  <2>2. ToText(setting) \in Seq(Char)
    BY TextType
  <2>3. Len(m_string') \in Nat
    BY <2>1, <2>2
  <2>4. offset' \in [Procs -> Nat] /\ quiet' \in [Procs -> BOOLEAN]
    BY <2>1, <2>3
  <2> QED  BY <1>1, <2>1, <2>2, <2>4 DEF Shapes
<1>3. ASSUME NEW p \in Procs, NEW n \in Counts, Read(p, n)
      PROVE  TypeOK'
  <2> DEFINE c == Count(p, n)
             piece == [i \in 1 .. c |->
                         IF offset[p] + i \in DOMAIN m_string
                           THEN m_string[offset[p] + i] ELSE Junk]
  <2>1. c \in Nat
    BY CountsAssumption DEF Count
  <2>2. piece \in Seq(Char \cup {Junk}) /\ Len(piece) = c
    <3>1. \A i \in 1..c : piece[i] \in Char \cup {Junk}
      <4>1. \A j \in DOMAIN m_string : m_string[j] \in Char
        OBVIOUS
      <4> QED  BY <4>1
    <3> HIDE DEF c
    <3> HIDE DEF piece
    <3>3. piece = [i \in 1..c |-> piece[i]]
      BY DEF piece
    <3> QED  BY <2>1, <3>1, <3>3, IsSequence
  <2>3. /\ offset' = [offset EXCEPT ![p] = @ + Len(piece)]
        /\ shown' = IF quiet[p] THEN [shown EXCEPT ![p] = @ \o piece] ELSE shown
        /\ setting' = setting /\ m_string' = m_string /\ stat' = stat /\ quiet' = quiet
    BY <1>3 DEF Read, object
  <2> HIDE DEF c, piece
  <2>4. shown[p] \o piece \in Seq(Char \cup {Junk})
    BY <2>2
  <2>5. offset' \in [Procs -> Nat] /\ shown' \in [Procs -> Seq(Char \cup {Junk})]
    BY <2>1, <2>2, <2>3, <2>4
  <2> QED  BY <1>1, <2>3, <2>5 DEF Shapes
<1>4. ASSUME NEW p \in Procs, NEW chunk \in Chunks, Write(p, chunk)
      PROVE  TypeOK'
  <2>1. chunk \in Seq(Char)
    BY ChunksAssumption
  <2>2. Base(p) \o chunk \in Seq(Char) /\ offset[p] + Len(chunk) \in Nat
    BY <2>1 DEF Base
  <2>3. /\ quiet' = [q \in Procs |-> FALSE] /\ shown' = [q \in Procs |-> << >>]
        /\ setting' = setting /\ stat' = stat /\ m_string' = Base(p) \o chunk
        /\ offset' = [offset EXCEPT ![p] = @ + Len(chunk)]
    BY <1>4 DEF Write, Disturb
  <2>4. << >> \in Seq(Char \cup {Junk})
    OBVIOUS
  <2> QED  BY <1>1, <2>2, <2>3, <2>4 DEF Shapes
<1>5. ASSUME NEW p \in Procs, Release(p)
      PROVE  TypeOK'
  <2>1. /\ setting' = IF m_wrote THEN Parse(m_string) ELSE setting
        /\ m_string' = m_string /\ stat' = stat
        /\ offset' = [offset EXCEPT ![p] = 0]
        /\ quiet' = [quiet EXCEPT ![p] = FALSE]
        /\ shown' = [shown EXCEPT ![p] = << >>]
    BY <1>5 DEF Release, Commit
  <2>2. Parse(m_string) \in 0 .. Modulus - 1
    BY ParseType
  <2>3. << >> \in Seq(Char \cup {Junk})
    OBVIOUS
  <2> QED  BY <1>1, <2>1, <2>2, <2>3 DEF Shapes
<1>6. ASSUME NEW s \in Statters, StatOpen(s)
      PROVE  TypeOK'
  <2>1. ToText(setting) \in Seq(Char)
    BY TextType
  <2> QED  BY <1>1, <1>6, <2>1 DEF StatOpen, Reload, Shapes, sessions, seen
<1>7. ASSUME NEW s \in Statters, StatRelease(s)
      PROVE  TypeOK'
  <2>1. Parse(m_string) \in 0 .. Modulus - 1
    BY ParseType
  <2> QED  BY <1>1, <1>7, <2>1 DEF StatRelease, Commit, Shapes, sessions, history
<1>8. ASSUME NEW s \in Statters, Truncate(s)
      PROVE  TypeOK'
  <2>1. << >> \in Seq(Char) /\ << >> \in Seq(Char \cup {Junk})
    OBVIOUS
  <2> QED  BY <1>1, <1>8, <2>1 DEF Truncate, Disturb, Shapes, sessions
<1>9. CASE UNCHANGED vars
  BY <1>9 DEF vars
<1> QED  BY <1>2, <1>3, <1>4, <1>5, <1>6, <1>7, <1>8, <1>9 DEF Next

(* A setting is a number of its width, and the texts are digits, newlines   *)
(* and signs, whatever has been written (proc.cpp:26-31, 130-148).          *)
THEOREM TypeCorrect == Spec => []TypeOK
<1>1. Init => TypeOK
  <2>1. << >> \in Seq(Char) /\ << >> \in Seq(Char \cup {Junk})
    OBVIOUS
  <2> SUFFICES ASSUME Init PROVE TypeOK
    OBVIOUS
  <2>2. setting \in 0 .. Modulus - 1 /\ m_wrote \in BOOLEAN
    BY SettingAssumption DEF Init
  <2>3. pc \in [Procs -> {"closed", "open"}] /\ offset \in [Procs -> Nat]
    BY DEF Init
  <2>4. stat \in [Statters -> {"idle", "stat", "release"}]
    BY DEF Init
  <2>5. wrote \in [Procs -> Seq(Char)] /\ shown \in [Procs -> Seq(Char \cup {Junk})]
    BY <2>1 DEF Init
  <2>6. /\ meddled \in [Procs -> {"nothing", "reloaded", "changed"}]
        /\ quiet \in [Procs -> BOOLEAN] /\ m_string \in Seq(Char)
    BY <2>1 DEF Init
  <2> QED  BY <2>2, <2>3, <2>4, <2>5, <2>6 DEF TypeOK
<1>2. TypeOK /\ [Next]_vars => TypeOK'
  BY TypeStep
<1> QED  BY <1>1, <1>2, PTL DEF Spec

(* A setting below 2^63 that is written back as it was read stays           *)
(* (proc.cpp:26-31, 142-143).                                               *)
THEOREM CopyAlwaysKeepsSetting == Spec => []CopyKeepsSetting
<1>1. TypeOK => CopyKeepsSetting
  BY ParseOfText, SettingAssumption DEF TypeOK, CopyKeepsSetting
<1> QED  BY <1>1, TypeCorrect, PTL

(* As long as nobody has written or truncated since a session's open, the   *)
(* object shows the setting, and the session has read it up to its place;   *)
(* one that appends has started behind it and reads nothing.                *)
QuietInv ==
  \A p \in Procs :
    IF quiet[p]
    THEN /\ pc[p] = "open" /\ ~ m_wrote /\ m_string = ToText(setting)
         /\ offset[p] <= Len(m_string)
         /\ \/ shown[p] = << >> /\ offset[p] = Len(m_string)
            \/ shown[p] = SubSeq(m_string, 1, offset[p])
    ELSE shown[p] = << >>

LEMMA QuietStep ==
  ASSUME TypeOK, QuietInv, [Next]_vars
  PROVE  QuietInv'
<1> USE DEF QuietInv, TypeOK
<1>1. ASSUME NEW p \in Procs, NEW append \in BOOLEAN, Open(p, append)
      PROVE  QuietInv'
  <2>1. /\ m_string' = ToText(setting) /\ m_wrote' = FALSE /\ setting' = setting
        /\ shown' = shown /\ quiet' = [quiet EXCEPT ![p] = TRUE]
        /\ offset' = [offset EXCEPT ![p] = IF append THEN Len(m_string') ELSE 0]
        /\ pc[p] = "closed" /\ pc' = [pc EXCEPT ![p] = "open"]
    BY <1>1 DEF Open, Reload
  <2>2. ToText(setting) \in Seq(Char)
    <3>1. setting \in Nat
      BY SettingAssumption
    <3> QED  BY <3>1, TextType
  <2>3. shown[p] = << >>
    BY <2>1
  <2>4. ASSUME NEW q \in Procs, quiet'[q]
        PROVE  /\ pc'[q] = "open" /\ offset'[q] <= Len(m_string')
               /\ \/ shown'[q] = << >> /\ offset'[q] = Len(m_string')
                  \/ shown'[q] = SubSeq(m_string', 1, offset'[q])
    <3>1. CASE q # p
      BY <2>1, <2>4, <3>1
    <3>2. CASE q = p /\ append
      BY <2>1, <2>2, <2>3, <3>2
    <3>3. CASE q = p /\ ~ append
      <4>1. offset'[q] = 0 /\ shown'[q] = << >> /\ Len(m_string') \in Nat
        BY <2>1, <2>2, <2>3, <3>3
      <4>2. SubSeq(m_string', 1, 0) = << >>
        BY SubSeqEmpty
      <4> QED  BY <2>1, <3>3, <4>1, <4>2
    <3> QED  BY <3>1, <3>2, <3>3
  <2>5. ASSUME NEW q \in Procs, ~ quiet'[q]
        PROVE  shown'[q] = << >>
    BY <2>1, <2>5
  <2> QED  BY <2>1, <2>4, <2>5
<1>2. ASSUME NEW p \in Procs, NEW n \in Counts, Read(p, n)
      PROVE  QuietInv'
  <2> DEFINE c == Count(p, n)
             piece == [i \in 1 .. c |->
                         IF offset[p] + i \in DOMAIN m_string
                           THEN m_string[offset[p] + i] ELSE Junk]
  <2>1. /\ offset' = [offset EXCEPT ![p] = @ + Len(piece)]
        /\ shown' = IF quiet[p] THEN [shown EXCEPT ![p] = @ \o piece] ELSE shown
        /\ setting' = setting /\ m_string' = m_string /\ m_wrote' = m_wrote
        /\ quiet' = quiet /\ pc' = pc
    BY <1>2 DEF Read, object
  <2>2. CASE quiet[p]
    <3>1. /\ offset[p] \in Nat /\ offset[p] <= Len(m_string) /\ Len(m_string) \in Nat
          /\ c \in Nat /\ offset[p] + c <= Len(m_string)
          /\ offset[p] = Len(m_string) => c = 0
      BY <2>2, CountsAssumption DEF Count
    <3> HIDE DEF c
    <3>2. /\ Len(piece) = c /\ piece \in Seq(Char)
          /\ \A i \in 1..c : piece[i] = m_string[offset[p] + i]
      <4>1. \A i \in 1..c : piece[i] = m_string[offset[p] + i]
        BY <3>1
      <4>2. \A i \in 1..c : m_string[offset[p] + i] \in Char
        BY <3>1
      <4>3. piece = [i \in 1..c |-> piece[i]]
        OBVIOUS
      <4> HIDE DEF piece
      <4> QED  BY <3>1, <4>1, <4>2, <4>3, IsSequence
    <3>3. CASE shown[p] = << >> /\ offset[p] = Len(m_string)
      <4>1. c = 0 /\ piece = << >>
        BY <3>1, <3>3
      <4>2. shown[p] \o piece = << >>
        BY <3>3, <4>1
      <4>3. shown'[p] = << >> /\ offset'[p] = offset[p]
        BY <2>1, <2>2, <3>1, <3>2, <4>1, <4>2
      <4> QED  BY <2>1, <2>2, <3>1, <3>3, <4>3
    <3>4. CASE shown[p] = SubSeq(m_string, 1, offset[p])
      <4>1. shown[p] \o piece = SubSeq(m_string, 1, offset[p] + c)
        BY <3>1, <3>2, <3>4, ReadOn
      <4>2. shown'[p] = SubSeq(m_string, 1, offset[p] + c) /\ offset'[p] = offset[p] + c
        BY <2>1, <2>2, <3>1, <3>2, <4>1
      <4> QED  BY <2>1, <2>2, <3>1, <4>2
    <3> QED  BY <2>2, <3>3, <3>4
  <2>3. CASE ~ quiet[p]
    BY <2>1, <2>3
  <2> QED  BY <2>2, <2>3
<1>3. ASSUME NEW p \in Procs, NEW chunk \in Chunks, Write(p, chunk)
      PROVE  QuietInv'
  BY <1>3 DEF Write, Disturb
<1>4. ASSUME NEW p \in Procs, Release(p)
      PROVE  QuietInv'
  BY <1>4 DEF Release, Commit
<1>5. ASSUME NEW s \in Statters, StatOpen(s)
      PROVE  QuietInv'
  BY <1>5 DEF StatOpen, Reload, sessions, seen
<1>6. ASSUME NEW s \in Statters, StatRelease(s)
      PROVE  QuietInv'
  BY <1>6 DEF StatRelease, Commit, sessions, history
<1>7. ASSUME NEW s \in Statters, Truncate(s)
      PROVE  QuietInv'
  BY <1>7 DEF Truncate, Disturb, sessions
<1>8. CASE UNCHANGED vars
  BY <1>8 DEF vars
<1> QED  BY <1>1, <1>2, <1>3, <1>4, <1>5, <1>6, <1>7, <1>8 DEF Next

(* What a session reads in pieces is the text of the setting, unless        *)
(* somebody writes or truncates (proc.cpp:72-79, 132-133, 141-145).         *)
THEOREM ReadsAlwaysShowSetting == Spec => []ReadsSetting
<1>1. Init => QuietInv
  BY DEF Init, QuietInv
<1>2. TypeOK /\ QuietInv /\ [Next]_vars => QuietInv'
  BY QuietStep
<1>3. TypeOK /\ QuietInv => ReadsSetting
  <2> SUFFICES ASSUME TypeOK, QuietInv, NEW p \in Procs, quiet[p]
               PROVE  IsPrefix(shown[p], m_string)
    BY DEF ReadsSetting, QuietInv
  <2>1. /\ m_string \in Seq(Char) /\ offset[p] \in Nat /\ offset[p] <= Len(m_string)
    BY DEF TypeOK, QuietInv
  <2>2. CASE shown[p] = << >>
    BY <2>1, <2>2 DEF IsPrefix
  <2>3. CASE shown[p] = SubSeq(m_string, 1, offset[p])
    <3>1. Len(shown[p]) = offset[p]
      BY <2>1, <2>3
    <3>2. SubSeq(shown[p], 1, offset[p]) = shown[p]
      BY <2>1, <2>3
    <3> QED  BY <2>1, <2>3, <3>1, <3>2 DEF IsPrefix
  <2> QED  BY <2>2, <2>3 DEF QuietInv
<1> QED  BY <1>1, <1>2, <1>3, TypeCorrect, PTL DEF Spec
=============================================================================
