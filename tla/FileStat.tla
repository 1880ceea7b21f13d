------------------------------ MODULE FileStat ------------------------------
(***************************************************************************)
(* What a server says of one file in JSON, and what FileStat makes of it   *)
(* (filestat.h, filestat.cpp, ext/time_iso8601.cpp), down to the bits of   *)
(* mode_t that the handlers test.                                          *)
(*                                                                         *)
(* A mode_t is the set of the numbers of its bits: the type in 12..15, as  *)
(* Linux numbers it, the permissions in 0..8.                              *)
(***************************************************************************)
EXTENDS Integers

CONSTANT LocalZone   \* tm_gmtoff where the program runs

ASSUME LocalZoneAssumption == LocalZone \in Int

S_IFMT == 12..15
S_IFIFO == {12}
S_IFCHR == {13}
S_IFDIR == {14}
S_IFBLK == {13, 14}
S_IFREG == {15}
S_IFLNK == {13, 15}
S_IFSOCK == {14, 15}

S_IRUSR == {8}     S_IWUSR == {7}     S_IXUSR == {6}
Readable == {8, 5, 2}                 \* for the user, the group and others
Writable == {7, 4, 1}
Executable == {6, 3, 0}

ModeBits == 0..15

(* UrlStat's tests look at a bit, not at the whole type: a block device    *)
(* passes for a directory, a link for a file, a socket for both.           *)
IsDir(mode) == mode \cap S_IFDIR # {}
IsReg(mode) == mode \cap S_IFREG # {}

(* The mode string "drwxr-xr-x" is [letter |-> "d", long |-> TRUE,         *)
(* perms |-> the positions that hold their own letter].  Only a string of  *)
(* ten characters has permissions.                                         *)
FileType ==
  [d |-> S_IFDIR, c |-> S_IFCHR, b |-> S_IFBLK, p |-> S_IFIFO,
   l |-> S_IFLNK, s |-> S_IFSOCK, file |-> S_IFREG]

StrToMode(str) ==
  (IF str.letter \in DOMAIN FileType THEN FileType[str.letter] ELSE {})
    \cup (IF str.long THEN str.perms ELSE {})

-----------------------------------------------------------------------------
(* A date is [wall |-> the time of day it shows, zone |-> its offset].     *)

\* A bug: the zone of the text is not looked at.
TimeOfWall(text) == text.wall

\* mktime() takes the fields for local time, and the zones' difference is
\* then added.
TimeIso8601(text) ==
  LET ofs == text.zone - LocalZone
      r == text.wall - LocalZone
  IN  r + ofs

-----------------------------------------------------------------------------
(* A description is a function from the fields that are there to their     *)
(* values; that of no field stands also for what is not a hash.            *)
Has(val, field) == field \in DOMAIN val

\* A date that cannot be parsed is skipped.
FromJson(fs, val) ==
  [mode |-> IF Has(val, "mode") THEN StrToMode(val.mode) ELSE fs.mode,
   size |-> IF Has(val, "size") THEN val.size ELSE fs.size,
   mtime |-> IF Has(val, "mtime") /\ val.mtime.valid
             THEN TimeIso8601(val.mtime) ELSE fs.mtime]

\* FileStat(): an empty directory of time 0.
DefaultFileStat == [mode |-> S_IFDIR, size |-> 0, mtime |-> 0]

(* FileStat(std::string&) initialises nothing before it parses: a field    *)
(* that is not there has any value that Leftover holds.                    *)
ParsedFileStats(val, Leftover) == {FromJson(fs, val) : fs \in Leftover}
=============================================================================
