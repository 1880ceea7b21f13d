------------------------------- MODULE Options -------------------------------
(***************************************************************************)
(* AutoHttpFs::parse_args (autohttpfs.cpp:33-110): the options of the      *)
(* program are taken out of argv, one helper per option, and what is left  *)
(* goes to fuse_main (main.cpp:25-35).                                     *)
(*                                                                         *)
(* An argument is a record of its key, its value and the number that atoi  *)
(* makes of the value; it is an option if a helper knows the key.  argv[0] *)
(* is left out: no helper knows it, and 0 is the place before the first    *)
(* argument.                                                               *)
(***************************************************************************)
EXTENDS Integers, Sequences, SequencesExt, FiniteSets

CONSTANT CommandLines   \* what the program may be started with

VARIABLES
  given,      \* the command line, for the property only
  argv,       \* what is left of it
  it, helper, \* the place in argv, and the helper that looks at it next
  settings,   \* a value for each key
  help        \* has --help been seen?

Switches == {"readonly", "noexec"}
Numbers == {"loglevel", "max_readahead"}
Helpers == <<"readonly", "noexec", "loglevel", "root", "max_readahead">>

Defaults ==
  [readonly |-> TRUE, noexec |-> TRUE, loglevel |-> 5, root |-> "/",
   max_readahead |-> 131072]

Init ==
  /\ given \in CommandLines
  /\ argv = given
  /\ it = 1 /\ helper = 1
  /\ settings = Defaults
  /\ help = FALSE

Parsed == it > Len(argv)

(* A switch that is neither yes nor no is reported and keeps its value. *)
IsValid(arg) == arg.key \in Switches => arg.value \in {"yes", "no"}

Value(arg) ==
  CASE arg.key \in Switches -> arg.value = "yes"
    [] arg.key \in Numbers  -> arg.number
    [] OTHER                -> arg.value

Matches(key) == it >= 1 /\ argv[it].key = key

\* A bug: the place is kept, and with it the argument that has moved there.
ShiftKeepsPlace == argv' = RemoveAt(argv, it) /\ it' = it

\* parsearg_shift(): the next helper looks at the argument before.
Shift == argv' = RemoveAt(argv, it) /\ it' = it - 1

\* A helper finds its key, and the argument goes whatever its value.
Take ==
  /\ ~ Parsed /\ helper <= Len(Helpers)
  /\ Matches(Helpers[helper])
  /\ settings' = IF IsValid(argv[it])
                 THEN [settings EXCEPT ![Helpers[helper]] = Value(argv[it])]
                 ELSE settings
  /\ Shift
  /\ helper' = helper + 1
  /\ UNCHANGED <<given, help>>

Skip ==
  /\ ~ Parsed /\ helper <= Len(Helpers)
  /\ ~ Matches(Helpers[helper])
  /\ helper' = helper + 1
  /\ UNCHANGED <<given, argv, it, settings, help>>

\* --help is noticed and left to fuse_main.
NextArgument ==
  /\ ~ Parsed /\ helper = Len(Helpers) + 1
  /\ help' = (help \/ Matches("help"))
  /\ it' = it + 1
  /\ helper' = 1
  /\ UNCHANGED <<given, argv, settings>>

-----------------------------------------------------------------------------
IsOption(arg) == arg.key \in Range(Helpers)

(* The last valid use of an option on the command line, or its default. *)
LastValue(key) ==
  LET uses == {i \in DOMAIN given : given[i].key = key /\ IsValid(given[i])}
  IN  IF uses = {} THEN Defaults[key]
      ELSE Value(given[CHOOSE i \in uses : \A j \in uses : j <= i])

(* The arguments that are no options, and the place of each among them.    *)
Kept == {i \in DOMAIN given : ~ IsOption(given[i])}
Rank(i) == Cardinality({j \in Kept : j <= i})

(* Whatever the order of the options, their number and the arguments       *)
(* between them, each setting has the last valid value it was given, and   *)
(* fuse_main gets all other arguments in their order                       *)
(* (autohttpfs.cpp:41-57, 105-110).                                        *)
OptionsTaken ==
  Parsed =>
    /\ \A key \in Range(Helpers) : settings[key] = LastValue(key)
    /\ Len(argv) = Cardinality(Kept) /\ \A i \in Kept : argv[Rank(i)] = given[i]
    /\ help <=> \E i \in DOMAIN given : given[i].key = "help"
=============================================================================
