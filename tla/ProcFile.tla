------------------------------ MODULE ProcFile ------------------------------
(***************************************************************************)
(* One writable control file of .proc/cache (proc.h:93-162, proc.cpp:83-   *)
(* 202), shared by everybody who has it open.                              *)
(*                                                                         *)
(* The file is a single object: open() reloads its text from the setting   *)
(* and clears m_wrote, write() edits the text, release() stores the parsed *)
(* text if m_wrote is not 0.  There is no lock and no state per file       *)
(* handle.  A stat of the path is an open, a look at the size and a        *)
(* release of the same object (procmap.cpp:29-46), and other operations    *)
(* come between; a truncate is followed by such a stat, because libfuse    *)
(* answers setattr with the new attributes.                                *)
(*                                                                         *)
(* This is max_entries or expire.  loglevel differs in the width of its    *)
(* setting, an enumeration; the setter behind enable ignores its argument  *)
(* (cache.h:109-110), so that nothing changes there.                       *)
(***************************************************************************)
EXTENDS Integers, Sequences, SequencesExt

CONSTANTS
  Procs,      \* processes that open, read, write and close the file
  Statters,   \* processes that stat or truncate it by path
  Chunks,     \* what one write() may carry
  Counts,     \* what one read() may ask for
  MaxText,    \* bound on what one session writes
  Default,    \* the setting at start
  Modulus     \* 2^64, the number of values a setting may have

NL == 10      \* the newline and the sign, next to the digits 0..9
Minus == 11
Char == 0..11
Junk == -1    \* a byte that is not of the text

ASSUME ChunksAssumption == Chunks \subseteq Seq(Char) \ {<< >>}
ASSUME CountsAssumption == Counts \subseteq Nat \ {0}
ASSUME SettingAssumption == Modulus \in Nat \ {0} /\ Default \in 0 .. Modulus - 1

(* uint64_to_str(v): the decimal digits of v and a newline. *)
DigitsOf[v \in Nat] ==
  IF v < 10 THEN <<v>> ELSE Append(DigitsOf[v \div 10], v % 10)
ToText(v) == Append(DigitsOf[v], NL)

(* strtoll(text, NULL, 10): the number that the digits after a sign        *)
(* denote, or the nearest that an int64_t can hold.                        *)
Half == Modulus \div 2

\* A bug: a number of half the width, as atoi gives.
InRangeOfInt(n) == IF n >= Half \div 2 THEN Half \div 2 - 1 ELSE n

InRange(n) ==
  CASE n >= Half -> Half - 1
    [] n < -Half -> -Half
    [] OTHER     -> n

Strtoll(text) ==
  LET signed == text # << >> /\ text[1] = Minus
      first == IF signed THEN 2 ELSE 1
      AllDigits(n) == \A i \in first..n : text[i] \in 0..9
      last == CHOOSE n \in first - 1 .. Len(text) :
                AllDigits(n) /\ (n < Len(text) => text[n + 1] \notin 0..9)
      value[i \in first - 1 .. last] ==
        IF i < first THEN 0 ELSE 10 * value[i - 1] + text[i]
  IN  InRange(IF signed THEN -value[last] ELSE value[last])

(* What a setting becomes: it is read back and shown without a sign.       *)
Parse(text) == Strtoll(text) % Modulus

VARIABLES
  setting,    \* the value behind the file
  m_string,   \* the text of the shared object
  m_wrote,    \* has anything been written since the last open? (m_wrote # 0)
  pc, offset, \* a process: "closed" or "open", and its file offset
  stat,       \* a statter: "idle", "stat" after a truncate, "release"
  \* history, for the properties only
  wrote,      \* what a session has written since it wrote at offset 0
  meddled,    \* what others have done to the object since then
  quiet,      \* has nobody written or truncated since the session's open?
  shown       \* what the session has read in that time

object == <<setting, m_string, m_wrote>>
sessions == <<pc, offset>>
seen == <<quiet, shown>>
history == <<wrote, meddled, quiet, shown>>
vars == <<setting, m_string, m_wrote, pc, offset, stat, wrote, meddled, quiet,
          shown>>

Init ==
  /\ setting = Default
  /\ m_string = << >>
  /\ m_wrote = FALSE
  /\ pc = [p \in Procs |-> "closed"]
  /\ offset = [p \in Procs |-> 0]
  /\ stat = [s \in Statters |-> "idle"]
  /\ wrote = [p \in Procs |-> << >>]
  /\ meddled = [p \in Procs |-> "nothing"]
  /\ quiet = [p \in Procs |-> FALSE]
  /\ shown = [p \in Procs |-> << >>]

(* The history after somebody other than the processes in Self has         *)
(* reloaded or changed the text.                                           *)
Meddle(Self, how) ==
  [p \in Procs |-> IF p \in Self \/ wrote[p] = << >> \/ meddled[p] = "changed"
                   THEN meddled[p] ELSE how]

\* The history after a write or a truncate: no session was left alone.
Disturb ==
  quiet' = [p \in Procs |-> FALSE] /\ shown' = [p \in Procs |-> << >>]

(* A bug: the text of an earlier open is kept. *)
ReloadOnce ==
  /\ m_string' = IF m_string = << >> THEN ToText(setting) ELSE m_string
  /\ m_wrote' = FALSE
  /\ UNCHANGED setting

(* open() of the object, whoever calls it. *)
Reload ==
  /\ m_string' = ToText(setting)
  /\ m_wrote' = FALSE
  /\ UNCHANGED setting

(* Bugs of release(): an empty text stores an error code, the text is      *)
(* dropped although others have the file open, and nothing is stored.      *)
CommitError ==
  /\ setting' = IF m_wrote THEN IF m_string = << >> THEN -1 ELSE Parse(m_string)
                ELSE setting
  /\ UNCHANGED <<m_string, m_wrote>>

CommitDrops ==
  /\ setting' = IF m_wrote THEN Parse(m_string) ELSE setting
  /\ m_string' = << >> /\ m_wrote' = FALSE

CommitNothing == UNCHANGED object

(* release() of the object. *)
Commit ==
  /\ setting' = IF m_wrote THEN Parse(m_string) ELSE setting
  /\ UNCHANGED <<m_string, m_wrote>>

\* A process that appends starts at the end of the text, any other at 0.
Open(p, append) ==
  /\ pc[p] = "closed"
  /\ Reload
  /\ pc' = [pc EXCEPT ![p] = "open"]
  /\ offset' = [offset EXCEPT ![p] = IF append THEN Len(m_string') ELSE 0]
  /\ wrote' = [wrote EXCEPT ![p] = << >>]
  /\ meddled' = [Meddle({p}, "reloaded") EXCEPT ![p] = "nothing"]
  /\ quiet' = [quiet EXCEPT ![p] = TRUE]
  /\ UNCHANGED <<stat, shown>>

\* A bug: the place in the text is not taken off.
CountAtStart(p, n) == IF Len(m_string) < n + offset[p] THEN Len(m_string) ELSE n

\* read(): how many of n bytes there are at the session's place.
Count(p, n) ==
  IF Len(m_string) < n + offset[p]
    THEN IF Len(m_string) > offset[p] THEN Len(m_string) - offset[p] ELSE 0
    ELSE n

Read(p, n) ==
  /\ pc[p] = "open"
  /\ LET piece == [i \in 1 .. Count(p, n) |->
                     IF offset[p] + i \in DOMAIN m_string
                       THEN m_string[offset[p] + i] ELSE Junk]
     IN  /\ offset' = [offset EXCEPT ![p] = @ + Len(piece)]
         /\ shown' = IF quiet[p] THEN [shown EXCEPT ![p] = @ \o piece] ELSE shown
  /\ UNCHANGED <<object, pc, stat, wrote, meddled, quiet>>

(* The text write() finds: writing at offset 0 starts over. *)
Base(p) == IF offset[p] = 0 THEN << >> ELSE m_string
Accepts(p) == Len(Base(p)) = offset[p]

\* write(): append or replace only.
Write(p, chunk) ==
  /\ pc[p] = "open"
  /\ Accepts(p)
  /\ offset[p] + Len(chunk) <= MaxText
  /\ m_string' = Base(p) \o chunk
  /\ m_wrote' = TRUE
  /\ offset' = [offset EXCEPT ![p] = @ + Len(chunk)]
  /\ IF offset[p] = 0
       THEN /\ wrote' = [wrote EXCEPT ![p] = chunk]
            /\ meddled' = [Meddle({p}, "changed") EXCEPT ![p] = "nothing"]
       ELSE /\ wrote' = [wrote EXCEPT
                           ![p] = IF @ = << >> THEN << >> ELSE @ \o chunk]
            /\ meddled' = Meddle({p}, "changed")
  /\ Disturb
  /\ UNCHANGED <<setting, pc, stat>>

\* A write() at any other offset returns -EINVAL and changes nothing; the
\* process may go on or close.

Release(p) ==
  /\ pc[p] = "open"
  /\ Commit
  /\ pc' = [pc EXCEPT ![p] = "closed"]
  /\ offset' = [offset EXCEPT ![p] = 0]
  /\ wrote' = [wrote EXCEPT ![p] = << >>]
  /\ meddled' = [meddled EXCEPT ![p] = "nothing"]
  /\ quiet' = [quiet EXCEPT ![p] = FALSE]
  /\ shown' = [shown EXCEPT ![p] = << >>]
  /\ UNCHANGED stat

\* AutoHttpFsProc::getattr opens the object ...
StatOpen(s) ==
  /\ stat[s] \in {"idle", "stat"}
  /\ Reload
  /\ stat' = [stat EXCEPT ![s] = "release"]
  /\ meddled' = Meddle({}, "reloaded")
  /\ UNCHANGED <<sessions, wrote, seen>>

\* ... reads the size of its text and releases it.
StatRelease(s) ==
  /\ stat[s] = "release"
  /\ Commit
  /\ stat' = [stat EXCEPT ![s] = "idle"]
  /\ UNCHANGED <<sessions, history>>

\* truncate() empties the text whatever the size, and leaves m_wrote alone.
Truncate(s) ==
  /\ stat[s] = "idle"
  /\ m_string' = << >>
  /\ stat' = [stat EXCEPT ![s] = "stat"]
  /\ meddled' = Meddle({}, "changed")
  /\ Disturb
  /\ UNCHANGED <<setting, m_wrote, sessions, wrote>>

Next ==
  \/ \E p \in Procs, append \in BOOLEAN : Open(p, append)
  \/ \E p \in Procs : Release(p)
  \/ \E p \in Procs, n \in Counts : Read(p, n)
  \/ \E p \in Procs, chunk \in Chunks : Write(p, chunk)
  \/ \E s \in Statters : StatOpen(s) \/ StatRelease(s) \/ Truncate(s)

Spec == Init /\ [][Next]_vars

-----------------------------------------------------------------------------
TypeOK ==
  /\ setting \in 0 .. Modulus - 1
  /\ m_string \in Seq(Char)
  /\ m_wrote \in BOOLEAN
  /\ pc \in [Procs -> {"closed", "open"}]
  /\ offset \in [Procs -> Nat]
  /\ stat \in [Statters -> {"idle", "stat", "release"}]
  /\ wrote \in [Procs -> Seq(Char)]
  /\ meddled \in [Procs -> {"nothing", "reloaded", "changed"}]
  /\ quiet \in [Procs -> BOOLEAN]
  /\ shown \in [Procs -> Seq(Char \cup {Junk})]

(* Before a session that wrote the file from its start is closed, the      *)
(* shared object holds just what it wrote, in all its write() calls, as    *)
(* long as nobody else has reloaded or changed the object.                 *)
OwnText ==
  \A p \in Procs :
    wrote[p] # << >> /\ meddled[p] = "nothing" =>
      m_wrote /\ m_string = wrote[p] /\ pc[p] = "open"

(* Closing such a session makes the number it wrote the setting, whatever  *)
(* other processes that already had the file open, or were in the middle   *)
(* of a stat, released meanwhile (proc.cpp:92-102, 139-148).               *)
OwnTextTakesEffect ==
  [][\A p \in Procs :
       Release(p) /\ wrote[p] # << >> /\ meddled[p] = "nothing" =>
         setting' = Parse(wrote[p])]_vars

(* Without a write since the last open or stat, the object shows the       *)
(* current setting or has been truncated: whatever was open, stored or     *)
(* released before, a reader is not shown a value that is out of date      *)
(* (proc.cpp:130-136).                                                     *)
UnwrittenShowsSetting ==
  ~ m_wrote => m_string \in {<< >>, ToText(setting)}

(* What a session has read, in pieces of any size, is the beginning of the *)
(* setting's text, as long as nobody writes or truncates: opens and stats  *)
(* that reload the text in between, and sessions that wrote before and are *)
(* closed now, do not tear it (proc.cpp:72-79, 132-133, 141-145).          *)
ReadsSetting ==
  \A p \in Procs :
    quiet[p] => IsPrefix(shown[p], ToText(setting))

(* A setting below 2^63 that is read from the file and written back as it  *)
(* is stays the same; of a larger one, which a negative number makes, this *)
(* is not so (proc.cpp:26-31, 142-143).                                    *)
CopyKeepsSetting == setting < Half => Parse(ToText(setting)) = setting

-----------------------------------------------------------------------------
(* A property the code does not have. *)

(* Closing a session that wrote the file from its start makes the number   *)
(* it wrote the setting, if nobody else wrote or truncated the file.       *)
WriteTakesEffect ==
  [][\A p \in Procs :
       Release(p) /\ wrote[p] # << >> /\ meddled[p] # "changed" =>
         setting' = Parse(wrote[p])]_vars
=============================================================================
