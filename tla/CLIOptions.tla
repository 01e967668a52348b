------------------------------ MODULE CLIOptions ------------------------------
(***************************************************************************)
(* parseCliArgs (src/CLIOptions.cpp): one action per kind of argument, one *)
(* step per turn of its loop.  An argument is one of the option names or a *)
(* member of Words; what std::stoull makes of it is a constant, since it   *)
(* accepts more than the digits of a number.  The name of no option, like  *)
(* --verbose, is a word like any other.  -h stands for --help.             *)
(***************************************************************************)
EXTENDS Naturals, SequencesExt

CONSTANTS
  Words,    \* arguments that are not the name of an option
  stoull,   \* [Words -> the number read from the word, or Throws]
  Throws,
  None,     \* an option or argument that was not given
  Wrap,     \* 2^64
  MaxArgs   \* bound: arguments after the program's name

OptionNames ==
  {"--help", "--live", "--stdout", "--flow-timeout", "--activity-timeout", "--label"}

Arguments == OptionNames \cup Words

ASSUME CLIOptionsAssumption ==
  /\ Words \cap OptionNames = {}
  /\ None \notin Arguments
  /\ Throws \notin Nat
  /\ {Wrap, MaxArgs} \subseteq Nat \ {0}
  /\ 120 < Wrap
  /\ stoull \in [Words -> (0 .. Wrap - 1) \cup {Throws}]

VARIABLES
  argv,     \* the arguments after the program's name
  i,        \* the next one to look at
  options,  \* result.options
  status    \* "Parsing" until parseCliArgs returns

vars == << argv, i, options, status >>

OptionsType ==
  [ live_mode: BOOLEAN, stdout_mode: BOOLEAN,
    flow_timeout_sec: 0 .. Wrap - 1, activity_timeout_sec: 0 .. Wrap - 1,
    capture_source: Words \cup {None}, output_arg: Words \cup {None},
    label: Arguments \cup {None} ]

Init ==
  /\ argv \in BoundedSeq(Arguments, MaxArgs)
  /\ i = 1
  /\ options = [live_mode |-> FALSE, stdout_mode |-> FALSE,
                flow_timeout_sec |-> 120, activity_timeout_sec |-> 5,
                capture_source |-> None, output_arg |-> None, label |-> None]
  /\ status = "Parsing"

Parsing == status = "Parsing" /\ i <= Len(argv)

Return(value) == status' = value /\ UNCHANGED << argv, i, options >>

\* Fault: the value of an option is looked at again.
Accept_OnlyOne(n, new) == i' = i + 1 /\ options' = new /\ UNCHANGED << argv, status >>

\* The turn accepts n arguments and leaves the options as given.
Accept(n, new) ==
  /\ i' = i + n
  /\ options' = new
  /\ UNCHANGED << argv, status >>

Help == Parsing /\ argv[i] = "--help" /\ Return("Help")

\* --live and --stdout: an error when given twice.
Flag(name, field) ==
  /\ Parsing
  /\ argv[i] = name
  /\ IF options[field] THEN Return("Error")
     ELSE Accept(1, [options EXCEPT ![field] = TRUE])

HasValue == i + 1 <= Len(argv)

\* Fault: an option takes no other option for its value.
Value_NotAnOption == IF HasValue /\ argv[i + 1] \in Words THEN argv[i + 1] ELSE None

\* The argument after an option is its value, whatever it looks like.
Value == IF HasValue THEN argv[i + 1] ELSE None

\* What stoull reads from an argument; it throws when there is no number.
Number(arg) == IF arg \in Words THEN stoull[arg] ELSE Throws

\* Fault: what stoull throws is not caught.
Invalid_MissingOnly(arg) == arg = None

Invalid(arg) == Number(arg) = Throws

Timeout(name, field) ==
  /\ Parsing
  /\ argv[i] = name
  /\ IF Invalid(Value) THEN Return("Error")
     ELSE Accept(2, [options EXCEPT ![field] = Number(Value)])

Label ==
  /\ Parsing
  /\ argv[i] = "--label"
  /\ IF Value = None THEN Return("Error")
     ELSE Accept(2, [options EXCEPT !.label = Value])

\* The capture, then the output; a third one is an error.
Positional ==
  /\ Parsing
  /\ argv[i] \in Words
  /\ IF options.capture_source = None
     THEN Accept(1, [options EXCEPT !.capture_source = argv[i]])
     ELSE IF options.output_arg = None
     THEN Accept(1, [options EXCEPT !.output_arg = argv[i]])
     ELSE Return("Error")

\* All arguments are read; the result must name a capture, and not an output
\* besides stdout.
Check ==
  /\ status = "Parsing"
  /\ i > Len(argv)
  /\ Return(IF \/ options.capture_source = None
               \/ options.stdout_mode /\ options.output_arg # None
            THEN "Error" ELSE "Ok")

Returned == status # "Parsing" /\ UNCHANGED vars

Next ==
  \/ Help
  \/ Flag("--live", "live_mode")
  \/ Flag("--stdout", "stdout_mode")
  \/ Timeout("--flow-timeout", "flow_timeout_sec")
  \/ Timeout("--activity-timeout", "activity_timeout_sec")
  \/ Label
  \/ Positional
  \/ Check
  \/ Returned

Spec == Init /\ [][Next]_vars

-----------------------------------------------------------------------------
(* The usage text, read as a grammar over the positions of argv *)

Positions == 1 .. Len(argv)

TakesValue == {"--flow-timeout", "--activity-timeout", "--label"}

\* The position holds the value of the option before it.
IsValue(p) ==
  LET v[q \in Positions] ==
        IF q = 1 THEN FALSE ELSE argv[q - 1] \in TakesValue /\ ~ v[q - 1]
  IN v[p]

Own == {p \in Positions : ~ IsValue(p)}

Occurrences(name) == {p \in Own : argv[p] = name}

Paths == {p \in Own : argv[p] \in Words}

\* Positions at which the arguments stop following the usage.
Mistakes ==
  {p \in Own :
     \/ argv[p] \in {"--live", "--stdout"} /\ \E q \in Occurrences(argv[p]) : q < p
     \/ argv[p] \in TakesValue /\ p = Len(argv)
     \/ argv[p] \in TakesValue \ {"--label"} /\ p < Len(argv) /\ Number(argv[p + 1]) = Throws
     \/ p \in Paths /\ Cardinality({q \in Paths : q < p}) >= 2}

ExpectedStatus ==
  IF \E h \in Occurrences("--help") : \A p \in Mistakes : h < p THEN "Help"
  ELSE IF \/ Mistakes # {}
          \/ Paths = {}
          \/ Occurrences("--stdout") # {} /\ Cardinality(Paths) = 2
  THEN "Error" ELSE "Ok"

\* The value of an option is that of its last occurrence.
Given(name, default) ==
  IF Occurrences(name) = {} THEN default ELSE argv[Max(Occurrences(name)) + 1]

\* A timeout that is not given has the default of the usage text.
Seconds(name, default) ==
  IF Occurrences(name) = {} THEN default ELSE Number(Given(name, None))

\* Properties

TypeOK ==
  /\ argv \in Seq(Arguments)
  /\ i \in 1 .. Len(argv) + 1
  /\ options \in OptionsType
  /\ status \in {"Parsing", "Ok", "Help", "Error"}

\* A command line is accepted exactly when it follows the usage, whatever the
\* order of its arguments; a request for help counts up to the first mistake,
\* and an option's value is never taken for an option or a path.
StatusByUsage == status # "Parsing" => status = ExpectedStatus

\* The options of an accepted command line are those a reader of the usage
\* finds in it: each path and value is used once, in its own place, and a
\* timeout that is not given is 120 or 5 seconds.
OptionsByUsage ==
  status = "Ok" =>
    /\ options.live_mode <=> Occurrences("--live") # {}
    /\ options.stdout_mode <=> Occurrences("--stdout") # {}
    /\ options.label = Given("--label", None)
    /\ options.flow_timeout_sec = Seconds("--flow-timeout", 120)
    /\ options.activity_timeout_sec = Seconds("--activity-timeout", 5)
    /\ Cardinality(Paths) \in {1, 2}
    /\ options.capture_source = argv[Min(Paths)]
    /\ options.output_arg = IF Cardinality(Paths) = 2 THEN argv[Max(Paths)] ELSE None

=============================================================================
