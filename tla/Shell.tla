------------------------------- MODULE Shell -------------------------------
(****************************************************************************)
(* Lab_7/WIN: main.cpp, handle_user_input.hpp, filesystem.hpp.  The         *)
(* arguments of the program are joined with spaces, read again word by      *)
(* word from a stream, and the command they name is called.  The commands   *)
(* themselves are stubs without state.                                      *)
(*                                                                          *)
(* Abstraction.  An argument is the sequence of the words in it: one for    *)
(* most, several if it has spaces in it, none if it is empty.               *)
(****************************************************************************)
EXTENDS Naturals, Sequences, SequencesExt

CONSTANTS
  Word,      \* the words that may occur
  Argvs      \* the argument lists, argv[0] left out

ASSUME ArgvsAssumption == Argvs \subseteq Seq(Seq(Word))

VARIABLES
  argv,      \* the arguments
  pc,        \* control point
  stream,    \* the words not read yet
  fail,      \* is the stream in a failed state?
  type,      \* user_input::type_
  args,      \* user_input::args_
  called     \* the calls made: a command with its arguments

shellVars == <<argv, pc, stream, fail, type, args, called>>

ShellInit ==
  /\ argv \in Argvs
  /\ pc = "join" /\ stream = <<>> /\ fail = FALSE
  /\ type = "help" /\ args = <<>> /\ called = <<>>

-----------------------------------------------------------------------------
(* Reading *)

\* The enumeration, and the map from the names; all names are in lower case.
user_input_type == {"help", "dir", "cd", "print", "mkdir", "createnew", "rd", "del", "rename"}
commands == [name \in {"--help", "--dir", "--cd", "--print", "--mkdir", "--createnew", "--rd",
                       "--del", "--rename"} |->
               CASE name = "--help" -> "help" [] name = "--dir" -> "dir" [] name = "--cd" -> "cd"
                 [] name = "--print" -> "print" [] name = "--mkdir" -> "mkdir"
                 [] name = "--createnew" -> "createnew" [] name = "--rd" -> "rd"
                 [] name = "--del" -> "del" [] name = "--rename" -> "rename"]

to_input_type(word) == IF word \in DOMAIN commands THEN commands[word] ELSE "help"

\* Every argument with a space before it.
Join ==
  /\ pc = "join" /\ pc' = "type"
  /\ stream' = FlattenSeq(argv)
  /\ UNCHANGED <<argv, fail, type, args, called>>

\* is >> word: the next word, or the stream fails.
CanRead == ~fail /\ stream # <<>>
Skip == IF CanRead THEN Tail(stream) ELSE stream

\* The result of tolower is dropped: the word is looked up as it was written.
ReadType ==
  /\ pc = "type" /\ pc' = "first"
  /\ type' = IF CanRead THEN to_input_type(Head(stream)) ELSE "help"
  /\ stream' = Skip /\ fail' = ~CanRead
  /\ UNCHANGED <<argv, args, called>>

\* READ_ARG: without a word the command becomes help, and reading goes on.
READ_ARG ==
  /\ args' = IF CanRead THEN Append(args, Head(stream)) ELSE args
  /\ type' = IF CanRead THEN type ELSE "help"
  /\ stream' = Skip /\ fail' = ~CanRead

\* The switch chooses how many words are read, by the command first found. Variant: no
\* second name is read for rename.
OneArgument == {"cd", "print", "mkdir", "rd", "del"}
TwoArgumentsButRename == {"createnew"}
TwoArguments == {"createnew", "rename"}

ReadNothing ==
  /\ pc = "first" /\ type \notin OneArgument \cup TwoArguments
  /\ pc' = "call"
  /\ UNCHANGED <<argv, stream, fail, type, args, called>>

ReadOne ==
  /\ pc = "first" /\ type \in OneArgument
  /\ READ_ARG /\ pc' = "call"
  /\ UNCHANGED <<argv, called>>

ReadFirst ==
  /\ pc = "first" /\ type \in TwoArguments
  /\ READ_ARG /\ pc' = "second"
  /\ UNCHANGED <<argv, called>>

ReadSecond ==
  /\ pc = "second"
  /\ READ_ARG /\ pc' = "call"
  /\ UNCHANGED <<argv, called>>

-----------------------------------------------------------------------------
(* Calling *)

\* The message, or the stub of the file system, which does nothing with its arguments.
ShowHelp ==
  /\ pc = "call" /\ type = "help" /\ pc' = "done"
  /\ called' = Append(called, <<"help", <<>>>>)
  /\ UNCHANGED <<argv, stream, fail, type, args>>

Stub(cmd) == called' = Append(called, <<cmd, args>>)
Call ==
  /\ pc = "call" /\ type # "help" /\ pc' = "done"
  /\ Stub(type)
  /\ UNCHANGED <<argv, stream, fail, type, args>>

Done == pc = "done" /\ UNCHANGED shellVars

ShellNext ==
  \/ Join \/ ReadType \/ ReadNothing \/ ReadOne \/ ReadFirst \/ ReadSecond \/ ShowHelp \/ Call
  \/ Done

ShellSpec == ShellInit /\ [][ShellNext]_shellVars

-----------------------------------------------------------------------------
(* Properties *)

\* What the help message says of each command: how many arguments it has.
Parameters ==
  [cmd \in user_input_type |->
     IF cmd \in {"help", "dir"} THEN 0 ELSE IF cmd \in {"createnew", "rename"} THEN 2 ELSE 1]

CommandOf(argument) == IF Len(argument) = 1 THEN to_input_type(argument[1]) ELSE "help"

\* The call that the message promises for an argument list, each parameter being one argument
\* as the user has written it; what comes behind the last of them is not spoken of.
Promised ==
  LET cmd == IF argv = <<>> THEN "help" ELSE CommandOf(argv[1])
  IN  IF Len(argv) <= Parameters[cmd] THEN <<"help", <<>>>>
      ELSE <<cmd, SubSeq(argv, 2, Parameters[cmd] + 1)>>

\* A call that was made, its words seen as arguments.
Received(call) == <<call[1], [i \in DOMAIN call[2] |-> <<call[2][i]>>]>>

OneWordEach == \A i \in DOMAIN argv : Len(argv[i]) = 1

\* Reading word by word, with commands that turn into help on the way, ends in one call, and
\* a command is called with as many words as it has parameters; when every argument is one
\* word it is the call that the help message promises. Of an argument with a space in it the
\* message promises more: its words reach a command as if they were arguments.
Dispatches ==
  pc = "done" =>
    /\ Len(called) = 1 /\ Len(called[1][2]) = Parameters[called[1][1]]
    /\ OneWordEach => Received(called[1]) = Promised
=============================================================================
