--------------------------- MODULE CLIOptionsProofs ---------------------------
(***************************************************************************)
(* parseCliArgs reads a command line as the usage text does, for every     *)
(* set of words, whatever stoull makes of them, and command lines of any   *)
(* length: its status and its options are those of the grammar.            *)
(***************************************************************************)
EXTENDS CLIOptions, SequenceTheorems, WellFoundedInduction, FiniteSetTheorems, TLAPS

-----------------------------------------------------------------------------
(* The recursion of the grammar *)

\* A nonempty set of naturals has a least element.
LEMMA LeastNat ==
  ASSUME NEW S, S \subseteq Nat, S # {}
  PROVE  \E n \in S : \A m \in S : n <= m
<1> DEFINE R == {ss \in Nat \X Nat : ss[1] < ss[2]}
<1>1. IsWellFoundedOn(R, Nat)
  BY NatLessThanWellFounded, Zenon DEF OpToRel
<1>2. PICK n \in S : \A m \in S : ~ (<< m, n >> \in R)
  <2> HIDE DEF R
  <2> QED
    BY <1>1, WFMin
<1>3. ASSUME NEW m \in S, ~ (n <= m)
      PROVE  FALSE
  <2>1. << m, n >> \in Nat \X Nat /\ << m, n >>[1] < << m, n >>[2]
    BY <1>3
  <2> QED
    BY <1>2, <2>1
<1> QED
  BY <1>3

\* IsValue is well defined: a position holds a value exactly when the one
\* before it holds the name of an option that takes one and is itself none.
LEMMA IsValueEquation ==
  ASSUME Len(argv) \in Nat
  PROVE  \A p \in Positions :
           IsValue(p) <=> p # 1 /\ argv[p - 1] \in TakesValue /\ ~ IsValue(p - 1)
<1> DEFINE Turn(g, q) == IF q = 1 THEN FALSE ELSE argv[q - 1] \in TakesValue /\ ~ g[q - 1]
           UpTo(n, g) == g = [q \in 1 .. n |-> Turn(g, q)]
           Undefined == {n \in Nat : ~ \E g : UpTo(n, g)}
           v == CHOOSE g : UpTo(Len(argv), g)
<1>1. ASSUME NEW n \in Nat, NEW g, UpTo(n, g)
      PROVE  \E h : UpTo(n + 1, h)
  <2> DEFINE h == [q \in 1 .. n + 1 |-> IF q <= n THEN g[q] ELSE Turn(g, q)]
  <2>1. \A q \in 1 .. n : g[q] = Turn(g, q)
    BY <1>1
  <2>2. \A q \in 1 .. n + 1 : h[q] = Turn(g, q)
    <3> HIDE DEF Turn
    <3> QED
      BY <2>1
  <2>3. \A q \in 1 .. n + 1 : q # 1 => q - 1 \in 1 .. n /\ h[q - 1] = g[q - 1]
    BY DEF h
  <2>4. \A q \in 1 .. n + 1 : Turn(h, q) = Turn(g, q)
    BY <2>3
  <2>5. h = [q \in 1 .. n + 1 |-> Turn(h, q)]
    BY <2>2, <2>4
  <2> QED
    BY <2>5
<1>2. UpTo(0, << >>)
  OBVIOUS
<1> HIDE DEF UpTo
<1>3. Undefined = {}
  <2>1. SUFFICES ASSUME Undefined # {} PROVE FALSE
    OBVIOUS
  <2>2. PICK n \in Undefined : \A m \in Undefined : n <= m
    BY <2>1, LeastNat
  <2>3. n # 0
    BY <1>2, <2>2
  <2>4. n - 1 \in Nat /\ n - 1 \notin Undefined
    BY <2>2, <2>3
  <2>5. PICK g : UpTo(n - 1, g)
    BY <2>4
  <2>6. \E h : UpTo(n, h)
    BY <1>1, <2>2, <2>4, <2>5
  <2> QED
    BY <2>2, <2>6
<1>4. UpTo(Len(argv), v)
  BY <1>3
<1>5. \A p : IsValue(p) = v[p]
  BY DEF IsValue, Positions, UpTo
<1> HIDE DEF v
<1>6. \A p \in Positions : v[p] = Turn(v, p)
  BY <1>4 DEF Positions, UpTo
<1> QED
  BY <1>5, <1>6

-----------------------------------------------------------------------------
(* What the loop has found among the arguments before i *)

\* The next argument is one of its own, and nothing before it ends the loop.
ReadSoFar ==
  /\ i \in Positions => i \in Own
  /\ \A p \in Mistakes : i <= p
  /\ \A p \in Occurrences("--help") : i <= p

FlagRead(name, field) ==
  options[field] <=> \E p \in Occurrences(name) : p < i

\* p is the last occurrence of the option so far.
IsLast(name, p) ==
  p \in Occurrences(name) /\ p < i /\ \A q \in Occurrences(name) : q < i => q <= p

Unread(name) == \A p \in Occurrences(name) : i <= p

TimeoutDefault == [flow_timeout_sec |-> 120, activity_timeout_sec |-> 5]

TimeoutRead(name, field) ==
  \/ Unread(name) /\ options[field] = TimeoutDefault[field]
  \/ \E p \in Positions : IsLast(name, p) /\ options[field] = Number(argv[p + 1])

LabelRead ==
  \/ Unread("--label") /\ options.label = None
  \/ \E p \in Positions : IsLast("--label", p) /\ options.label = argv[p + 1]

\* The paths so far.
ReadPaths == {p \in Paths : p < i}

PathsRead ==
  \/ /\ ReadPaths = {}
     /\ options.capture_source = None /\ options.output_arg = None
  \/ \E p \in Positions :
       /\ ReadPaths = {p}
       /\ options.capture_source = argv[p] /\ options.output_arg = None
  \/ \E p, q \in Positions :
       /\ p < q /\ ReadPaths = {p, q}
       /\ options.capture_source = argv[p] /\ options.output_arg = argv[q]

\* The options describe the arguments before i.
OptionsSoFar ==
  /\ FlagRead("--live", "live_mode")
  /\ FlagRead("--stdout", "stdout_mode")
  /\ TimeoutRead("--flow-timeout", "flow_timeout_sec")
  /\ TimeoutRead("--activity-timeout", "activity_timeout_sec")
  /\ LabelRead
  /\ PathsRead

\* The inductive invariant.
Consistent ==
  /\ TypeOK
  /\ status = "Parsing" => ReadSoFar /\ OptionsSoFar
  /\ StatusByUsage
  /\ OptionsByUsage

-----------------------------------------------------------------------------
(* One turn of the loop *)

LEMMA ArgumentTypes ==
  ASSUME TypeOK
  PROVE  /\ Len(argv) \in Nat /\ Positions \subseteq Nat /\ i \in Nat
         /\ \A p \in Positions : argv[p] \in Arguments
         /\ Own \subseteq Positions
         /\ Paths \subseteq Own /\ Mistakes \subseteq Own
         /\ \A name : Occurrences(name) \subseteq Own
BY DEF TypeOK, Positions, Own, Paths, Mistakes, Occurrences

\* The grammar depends on the arguments only.
LEMMA GrammarStable ==
  ASSUME argv' = argv
  PROVE  /\ Positions' = Positions /\ Own' = Own /\ Paths' = Paths
         /\ Mistakes' = Mistakes /\ ExpectedStatus' = ExpectedStatus
         /\ \A name : Occurrences(name)' = Occurrences(name)
         /\ \A name, default : Given(name, default)' = Given(name, default)
<1>1. Positions' = Positions
  BY DEF Positions
<1>2. \A p : IsValue(p)' = IsValue(p)
  BY DEF IsValue, Positions
<1>3. Own' = Own
  BY <1>1, <1>2 DEF Own
<1>4. Paths' = Paths
  BY <1>3 DEF Paths
<1>5. \A name : Occurrences(name)' = Occurrences(name)
  BY <1>3 DEF Occurrences
<1>6. Mistakes' = Mistakes
  BY <1>3, <1>4, <1>5 DEF Mistakes
<1>7. ExpectedStatus' = ExpectedStatus
  BY <1>4, <1>5, <1>6 DEF ExpectedStatus
<1>8. \A name, default : Given(name, default)' = Given(name, default)
  BY <1>5 DEF Given
<1> QED
  BY <1>1, <1>3, <1>4, <1>5, <1>6, <1>7, <1>8

\* How many arguments an option takes, itself included.
Width(p) == IF argv[p] \in TakesValue THEN 2 ELSE 1

\* The next argument of its own is the one behind the value, if there is one.
LEMMA NextOwn ==
  ASSUME TypeOK, NEW p \in Own, p + Width(p) <= Len(argv) + 1
  PROVE  /\ p + Width(p) \in Positions => p + Width(p) \in Own
         /\ \A q \in Own : q < p + Width(p) <=> q < p \/ q = p
<1>1. /\ Len(argv) \in Nat /\ p \in 1 .. Len(argv)
      /\ \A q \in Own : q \in 1 .. Len(argv)
      /\ ~ IsValue(p)
  BY ArgumentTypes DEF Own, Positions
<1>2. p + 1 \in Positions => (IsValue(p + 1) <=> argv[p] \in TakesValue)
  <2>1. p + 1 # 1 /\ (p + 1) - 1 = p
    BY <1>1
  <2>2. p + 1 \in Positions =>
          (IsValue(p + 1) <=> p + 1 # 1 /\ argv[(p + 1) - 1] \in TakesValue
                                       /\ ~ IsValue((p + 1) - 1))
    BY <1>1, IsValueEquation
  <2> QED
    BY <1>1, <2>1, <2>2
<1>3. CASE argv[p] \in TakesValue
  <2>1. Width(p) = 2 /\ p + 1 \in Positions /\ p + 1 \notin Own
    BY <1>1, <1>2, <1>3 DEF Width, Positions, Own
  <2>2. p + 2 \in Positions => ~ IsValue(p + 2)
    <3>1. (p + 2) - 1 = p + 1
      BY <1>1
    <3>2. p + 2 \in Positions =>
            (IsValue(p + 2) => ~ IsValue((p + 2) - 1))
      BY <1>1, IsValueEquation
    <3> QED
      BY <1>2, <1>3, <2>1, <3>1, <3>2
  <2>3. \A q \in Own : q # p + 1
    BY <2>1
  <2> QED
    BY <1>1, <2>1, <2>2, <2>3 DEF Own
<1>4. CASE argv[p] \notin TakesValue
  BY <1>1, <1>2, <1>4 DEF Width, Own
<1> QED
  BY <1>3, <1>4

\* A turn that takes the argument at i, and its value if it has one.
Takes ==
  /\ argv' = argv /\ i' = i + Width(i) /\ status' = status
  /\ i' <= Len(argv) + 1

LEMMA TakesNext ==
  ASSUME TypeOK, Parsing, ReadSoFar, Takes
  PROVE  /\ i \in Positions /\ i \in Own /\ i \in Nat /\ i' \in Nat /\ i < i'
         /\ i' \in Positions => i' \in Own
         /\ \A p \in Own : p < i' <=> p < i \/ p = i
<1>1. i \in Own /\ i \in Positions
  BY ArgumentTypes DEF TypeOK, Parsing, ReadSoFar, Positions
<1>2. Width(i) \in Nat /\ Width(i) > 0
  BY DEF Width
<1> QED
  BY <1>1, <1>2, NextOwn, ArgumentTypes DEF Takes

LEMMA TakesType ==
  ASSUME TypeOK, Parsing, ReadSoFar, Takes, options' \in OptionsType
  PROVE  TypeOK'
<1>1. i \in Nat /\ i' \in Nat /\ i < i' /\ i' <= Len(argv) + 1
  BY TakesNext DEF Takes
<1>2. i' \in 1 .. Len(argv) + 1 /\ Len(argv) \in Nat
  BY <1>1, ArgumentTypes
<1> QED
  BY <1>2 DEF TypeOK, Takes

\* Nothing ends the loop before the next turn either.
LEMMA TakesReadSoFar ==
  ASSUME TypeOK, Parsing, ReadSoFar, Takes, argv[i] # "--help", i \notin Mistakes
  PROVE  ReadSoFar'
<1>1. /\ i \in Own /\ i \in Nat /\ i' \in Nat /\ i < i'
      /\ i' \in Positions => i' \in Own
      /\ \A p \in Own : p < i' <=> p < i \/ p = i
  BY TakesNext
<1>2. /\ Positions' = Positions /\ Own' = Own /\ Mistakes' = Mistakes
      /\ Occurrences("--help")' = Occurrences("--help")
  BY GrammarStable DEF Takes
<1>3. \A p \in Own : p \in Nat
  BY ArgumentTypes
<1>4. ASSUME NEW p \in Mistakes PROVE i' <= p
  <2>1. p \in Own /\ p # i /\ i <= p
    BY <1>4, ArgumentTypes DEF ReadSoFar
  <2> QED
    BY <1>1, <1>3, <2>1
<1>5. ASSUME NEW p \in Occurrences("--help") PROVE i' <= p
  <2>1. p \in Own /\ p # i /\ i <= p
    BY <1>5 DEF Occurrences, ReadSoFar
  <2> QED
    BY <1>1, <1>3, <2>1
<1> QED
  BY <1>1, <1>2, <1>4, <1>5 DEF ReadSoFar

LEMMA FlagKept ==
  ASSUME TypeOK, Parsing, ReadSoFar, Takes, NEW name, NEW field,
         FlagRead(name, field), argv[i] # name, options'[field] = options[field]
  PROVE  FlagRead(name, field)'
<1>1. /\ \A p \in Own : p < i' <=> p < i \/ p = i
      /\ Occurrences(name)' = Occurrences(name)
  BY TakesNext, GrammarStable DEF Takes
<1>2. \A p \in Occurrences(name) : p \in Own /\ p # i
  BY DEF Occurrences
<1>3. (\E p \in Occurrences(name) : p < i') <=> (\E p \in Occurrences(name) : p < i)
  BY <1>1, <1>2
<1> QED
  BY <1>1, <1>3 DEF FlagRead

LEMMA FlagGiven ==
  ASSUME TypeOK, Parsing, ReadSoFar, Takes, NEW name, NEW field,
         argv[i] = name, options'[field] = TRUE
  PROVE  FlagRead(name, field)'
<1>1. /\ i \in Own /\ i < i'
      /\ Occurrences(name)' = Occurrences(name)
  BY TakesNext, GrammarStable DEF Takes
<1>2. i \in Occurrences(name)
  BY <1>1 DEF Occurrences
<1> QED
  BY <1>1, <1>2 DEF FlagRead

\* Another argument leaves an option unread, or its last occurrence.
LEMMA OtherTaken ==
  ASSUME TypeOK, Parsing, ReadSoFar, Takes, NEW name, argv[i] # name
  PROVE  /\ Unread(name) => Unread(name)'
         /\ \A p \in Positions : IsLast(name, p) => IsLast(name, p)'
<1>1. /\ \A p \in Own : p < i' <=> p < i \/ p = i
      /\ Occurrences(name)' = Occurrences(name)
      /\ i \in Nat /\ i' \in Nat
  BY TakesNext, GrammarStable DEF Takes
<1>2. \A p \in Occurrences(name) : p \in Own /\ p # i /\ p \in Nat
  BY ArgumentTypes DEF Occurrences
<1>3. \A p \in Occurrences(name) : p < i' <=> p < i
  BY <1>1, <1>2
<1>4. Unread(name) => Unread(name)'
  BY <1>1, <1>2, <1>3 DEF Unread
<1>5. ASSUME NEW p \in Positions, IsLast(name, p) PROVE IsLast(name, p)'
  BY <1>1, <1>3, <1>5 DEF IsLast
<1> QED
  BY <1>4, <1>5

\* An option that is taken has its last occurrence here.
LEMMA OptionTaken ==
  ASSUME TypeOK, Parsing, ReadSoFar, Takes, NEW name, argv[i] = name
  PROVE  \E p \in Positions : p = i /\ IsLast(name, p)'
<1>1. /\ \A p \in Own : p < i' <=> p < i \/ p = i
      /\ Occurrences(name)' = Occurrences(name)
      /\ i \in Own /\ i \in Positions /\ i \in Nat /\ i < i'
  BY TakesNext, GrammarStable DEF Takes
<1>2. i \in Occurrences(name)
  BY <1>1 DEF Occurrences
<1>3. \A p \in Occurrences(name) : p \in Own /\ p \in Nat
  BY ArgumentTypes DEF Occurrences
<1>4. \A p \in Occurrences(name) : p < i' => p <= i
  BY <1>1, <1>3
<1>5. \A p : p = i => IsLast(name, p)'
  BY <1>1, <1>2, <1>4 DEF IsLast
<1> QED
  BY <1>1, <1>5

LEMMA TimeoutKept ==
  ASSUME TypeOK, Parsing, ReadSoFar, Takes, NEW name, NEW field,
         TimeoutRead(name, field), argv[i] # name, options'[field] = options[field]
  PROVE  TimeoutRead(name, field)'
<1>1. Positions' = Positions /\ argv' = argv
  BY GrammarStable DEF Takes
<1>2. CASE Unread(name) /\ options[field] = TimeoutDefault[field]
  <2>1. Unread(name)'
    BY <1>2, OtherTaken
  <2>2. options'[field] = TimeoutDefault[field]
    BY <1>2
  <2> QED
    BY <2>1, <2>2 DEF TimeoutRead, TimeoutDefault
<1>3. CASE \E p \in Positions : IsLast(name, p) /\ options[field] = Number(argv[p + 1])
  <2>1. PICK p \in Positions : IsLast(name, p) /\ options[field] = Number(argv[p + 1])
    BY <1>3
  <2>2. IsLast(name, p)'
    BY <2>1, OtherTaken
  <2>3. options'[field] = Number(argv'[p + 1])
    BY <1>1, <2>1
  <2> QED
    BY <1>1, <2>2, <2>3 DEF TimeoutRead, Number
<1> QED
  BY <1>2, <1>3 DEF TimeoutRead

LEMMA TimeoutGiven ==
  ASSUME TypeOK, Parsing, ReadSoFar, Takes, NEW name, NEW field,
         argv[i] = name, options'[field] = Number(argv[i + 1])
  PROVE  TimeoutRead(name, field)'
<1>1. Positions' = Positions /\ argv' = argv
  BY GrammarStable DEF Takes
<1>2. PICK p \in Positions : p = i /\ IsLast(name, p)'
  BY OptionTaken
<1>3. options'[field] = Number(argv'[p + 1])
  BY <1>1, <1>2
<1> QED
  BY <1>1, <1>2, <1>3 DEF TimeoutRead, Number

LEMMA LabelKept ==
  ASSUME TypeOK, Parsing, ReadSoFar, Takes,
         LabelRead, argv[i] # "--label", options'.label = options.label
  PROVE  LabelRead'
<1>1. Positions' = Positions /\ argv' = argv
  BY GrammarStable DEF Takes
<1>2. CASE Unread("--label") /\ options.label = None
  BY <1>2, OtherTaken DEF LabelRead
<1>3. CASE \E p \in Positions : IsLast("--label", p) /\ options.label = argv[p + 1]
  <2>1. PICK p \in Positions : IsLast("--label", p) /\ options.label = argv[p + 1]
    BY <1>3
  <2>2. IsLast("--label", p)'
    BY <2>1, OtherTaken
  <2> QED
    BY <1>1, <2>1, <2>2 DEF LabelRead
<1> QED
  BY <1>2, <1>3 DEF LabelRead

LEMMA LabelGiven ==
  ASSUME TypeOK, Parsing, ReadSoFar, Takes,
         argv[i] = "--label", options'.label = argv[i + 1]
  PROVE  LabelRead'
<1>1. Positions' = Positions /\ argv' = argv
  BY GrammarStable DEF Takes
<1>2. PICK p \in Positions : p = i /\ IsLast("--label", p)'
  BY OptionTaken
<1> QED
  BY <1>1, <1>2 DEF LabelRead

\* The paths so far grow by the one that is taken.
LEMMA ReadPathsStep ==
  ASSUME TypeOK, Parsing, ReadSoFar, Takes
  PROVE  /\ argv[i] \notin Words => ReadPaths' = ReadPaths
         /\ argv[i] \in Words => ReadPaths' = ReadPaths \cup {i}
         /\ \A p \in ReadPaths : p < i
<1>1. /\ \A p \in Own : p < i' <=> p < i \/ p = i
      /\ Paths' = Paths /\ i \in Own
  BY TakesNext, GrammarStable DEF Takes
<1>2. Paths \subseteq Own /\ (i \in Paths <=> argv[i] \in Words)
  BY <1>1 DEF Paths
<1>3. ReadPaths' = {p \in Paths : p < i \/ p = i}
  BY <1>1, <1>2 DEF ReadPaths
<1> QED
  BY <1>2, <1>3 DEF ReadPaths

LEMMA PathsKept ==
  ASSUME TypeOK, Parsing, ReadSoFar, Takes, PathsRead, argv[i] \notin Words,
         options'.capture_source = options.capture_source,
         options'.output_arg = options.output_arg
  PROVE  PathsRead'
<1>1. Positions' = Positions /\ argv' = argv /\ ReadPaths' = ReadPaths
  BY GrammarStable, ReadPathsStep DEF Takes
<1> QED
  BY <1>1 DEF PathsRead

-----------------------------------------------------------------------------
(* The actions *)

\* No name of an option is a word.
LEMMA NamesAreNotWords ==
  ASSUME NEW name \in OptionNames
  PROVE  name \notin Words /\ name \in Arguments /\ name # None
BY CLIOptionsAssumption DEF Arguments

LEMMA StopConsistent ==
  ASSUME Consistent, NEW value \in {"Error", "Help", "Ok"}, Return(value),
         value = ExpectedStatus, value = "Ok" => OptionsByUsage'
  PROVE  Consistent'
<1>1. TypeOK'
  BY DEF Consistent, TypeOK, Return
<1>2. status' = value /\ argv' = argv
  BY DEF Return
<1>3. StatusByUsage'
  BY <1>2, GrammarStable DEF StatusByUsage
<1>4. OptionsByUsage'
  <2>1. CASE value = "Ok"
    BY <2>1
  <2>2. CASE value # "Ok"
    BY <1>2, <2>2 DEF OptionsByUsage
  <2> QED
    BY <2>1, <2>2
<1>5. status' # "Parsing"
  BY <1>2
<1> QED
  BY <1>1, <1>3, <1>4, <1>5 DEF Consistent

\* A mistake that no request for help precedes is an error.
LEMMA ErrorConsistent ==
  ASSUME Consistent, Parsing, i \in Mistakes, argv[i] # "--help", Return("Error")
  PROVE  Consistent'
<1>1. TypeOK /\ ReadSoFar
  BY DEF Consistent, Parsing
<1>2. i \in Nat /\ \A h \in Occurrences("--help") : h \in Nat /\ i <= h
  BY <1>1, ArgumentTypes DEF ReadSoFar
<1>3. ~ \E h \in Occurrences("--help") : \A p \in Mistakes : h < p
  BY <1>2
<1>4. ExpectedStatus = "Error"
  BY <1>3 DEF ExpectedStatus
<1> QED
  BY <1>4, StopConsistent

LEMMA TakesConsistent ==
  ASSUME Consistent, Parsing, Takes, argv[i] # "--help", i \notin Mistakes,
         TypeOK', OptionsSoFar'
  PROVE  Consistent'
<1>1. ReadSoFar'
  BY TakesReadSoFar DEF Consistent, Parsing
<1>2. status' = "Parsing"
  BY DEF Takes, Parsing
<1>3. StatusByUsage' /\ OptionsByUsage'
  BY <1>2 DEF StatusByUsage, OptionsByUsage
<1> QED
  BY <1>1, <1>3 DEF Consistent

LEMMA Here ==
  ASSUME Consistent, Parsing
  PROVE  /\ TypeOK /\ ReadSoFar /\ OptionsSoFar
         /\ i \in Positions /\ i \in Own /\ i \in Nat
         /\ Len(argv) \in Nat /\ i <= Len(argv)
<1>1. TypeOK /\ ReadSoFar /\ OptionsSoFar
  BY DEF Consistent, Parsing
<1>2. Len(argv) \in Nat /\ i \in 1 .. Len(argv) + 1 /\ i <= Len(argv)
  BY <1>1, ArgumentTypes DEF Parsing, TypeOK
<1>3. i \in Positions
  BY <1>2 DEF Positions
<1> QED
  BY <1>1, <1>2, <1>3 DEF ReadSoFar

\* When the next argument is a mistake.
LEMMA MistakeHere ==
  ASSUME i \in Own
  PROVE  i \in Mistakes <=>
           \/ argv[i] \in {"--live", "--stdout"} /\ \E q \in Occurrences(argv[i]) : q < i
           \/ argv[i] \in TakesValue /\ i = Len(argv)
           \/ argv[i] \in TakesValue \ {"--label"} /\ i < Len(argv)
                /\ Number(argv[i + 1]) = Throws
           \/ argv[i] \in Words /\ Cardinality(ReadPaths) >= 2
<1>1. i \in Paths <=> argv[i] \in Words
  BY DEF Paths
<1>2. ReadPaths = {q \in Paths : q < i}
  BY DEF ReadPaths
<1> QED
  BY <1>1, <1>2 DEF Mistakes

LEMMA HelpConsistent ==
  ASSUME Consistent, Help
  PROVE  Consistent'
<1>1. Parsing /\ argv[i] = "--help" /\ Return("Help")
  BY DEF Help
<1>2. /\ TypeOK /\ ReadSoFar /\ i \in Own /\ i \in Nat
      /\ \A p \in Mistakes : p \in Nat
  BY <1>1, Here, ArgumentTypes
<1>3. i \in Occurrences("--help")
  BY <1>1, <1>2 DEF Occurrences
<1>4. i \notin Mistakes
  BY <1>1, <1>2, MistakeHere, NamesAreNotWords DEF OptionNames, TakesValue
<1>5. \A p \in Mistakes : i < p
  BY <1>2, <1>4 DEF ReadSoFar
<1>6. ExpectedStatus = "Help"
  BY <1>3, <1>5 DEF ExpectedStatus
<1> QED
  BY <1>1, <1>6, StopConsistent

LEMMA FlagConsistent ==
  ASSUME Consistent, NEW name, NEW field, NEW other, NEW otherField,
         \/ /\ name = "--live" /\ field = "live_mode"
            /\ other = "--stdout" /\ otherField = "stdout_mode"
         \/ /\ name = "--stdout" /\ field = "stdout_mode"
            /\ other = "--live" /\ otherField = "live_mode",
         Flag(name, field)
  PROVE  Consistent'
<1>1. Parsing /\ argv[i] = name
  BY DEF Flag
<1>2. /\ TypeOK /\ ReadSoFar /\ OptionsSoFar
      /\ i \in Own /\ i \in Nat /\ Len(argv) \in Nat /\ i <= Len(argv)
  BY <1>1, Here
<1>3. /\ name \notin Words /\ name \notin TakesValue /\ name # "--help"
      /\ name # "--label" /\ name # other
  BY NamesAreNotWords DEF OptionNames, TakesValue
<1>4. FlagRead(name, field) /\ FlagRead(other, otherField)
  BY <1>2 DEF OptionsSoFar
<1>5. i \in Mistakes <=> \E q \in Occurrences(name) : q < i
  BY <1>1, <1>2, <1>3, MistakeHere
<1>6. CASE options[field]
  <2>1. Return("Error") /\ i \in Mistakes
    BY <1>4, <1>5, <1>6 DEF Flag, FlagRead
  <2> QED
    BY <1>1, <1>3, <2>1, ErrorConsistent
<1>7. CASE ~ options[field]
  <2>1. i \notin Mistakes
    BY <1>4, <1>5, <1>7 DEF FlagRead
  <2>2. /\ argv' = argv /\ status' = status /\ i' = i + 1
        /\ options' = [options EXCEPT ![field] = TRUE]
    BY <1>7 DEF Flag, Accept
  <2>3. Takes
    BY <1>1, <1>2, <1>3, <2>2 DEF Takes, Width
  <2>4. /\ options'[field] = TRUE /\ options'[otherField] = options[otherField]
        /\ options'.flow_timeout_sec = options.flow_timeout_sec
        /\ options'.activity_timeout_sec = options.activity_timeout_sec
        /\ options'.label = options.label
        /\ options'.capture_source = options.capture_source
        /\ options'.output_arg = options.output_arg
    BY <1>2, <2>2 DEF TypeOK, OptionsType
  <2>5. options' \in OptionsType
    BY <1>2, <2>2 DEF TypeOK, OptionsType
  <2>6. FlagRead(name, field)'
    BY <1>1, <1>2, <2>3, <2>4, FlagGiven
  <2>7. FlagRead(other, otherField)'
    BY <1>1, <1>2, <1>3, <1>4, <2>3, <2>4, FlagKept
  <2>8. /\ TimeoutRead("--flow-timeout", "flow_timeout_sec")'
        /\ TimeoutRead("--activity-timeout", "activity_timeout_sec")'
    BY <1>1, <1>2, <1>3, <2>3, <2>4, TimeoutKept DEF OptionsSoFar, TakesValue
  <2>9. LabelRead' /\ PathsRead'
    BY <1>1, <1>2, <1>3, <2>3, <2>4, LabelKept, PathsKept DEF OptionsSoFar
  <2>10. OptionsSoFar'
    BY <2>6, <2>7, <2>8, <2>9 DEF OptionsSoFar
  <2> QED
    BY <1>1, <1>2, <1>3, <2>1, <2>3, <2>5, <2>10, TakesType, TakesConsistent
<1> QED
  BY <1>6, <1>7

LEMMA TimeoutConsistent ==
  ASSUME Consistent, NEW name, NEW field, NEW other, NEW otherField,
         \/ /\ name = "--flow-timeout" /\ field = "flow_timeout_sec"
            /\ other = "--activity-timeout" /\ otherField = "activity_timeout_sec"
         \/ /\ name = "--activity-timeout" /\ field = "activity_timeout_sec"
            /\ other = "--flow-timeout" /\ otherField = "flow_timeout_sec",
         Timeout(name, field)
  PROVE  Consistent'
<1>1. Parsing /\ argv[i] = name
  BY DEF Timeout
<1>2. /\ TypeOK /\ ReadSoFar /\ OptionsSoFar
      /\ i \in Own /\ i \in Nat /\ Len(argv) \in Nat /\ i <= Len(argv)
  BY <1>1, Here
<1>3. /\ name \notin Words /\ name \in TakesValue /\ name # "--help"
      /\ name # "--label" /\ name # other /\ name \notin {"--live", "--stdout"}
  BY NamesAreNotWords DEF OptionNames, TakesValue
<1>4. TimeoutRead(name, field) /\ TimeoutRead(other, otherField)
  BY <1>2 DEF OptionsSoFar
<1>5. i \in Mistakes <=>
        i = Len(argv) \/ (i < Len(argv) /\ Number(argv[i + 1]) = Throws)
  <2>1. /\ argv[i] \notin {"--live", "--stdout"} /\ argv[i] \notin Words
        /\ argv[i] \in TakesValue /\ argv[i] \in TakesValue \ {"--label"}
    BY <1>1, <1>3
  <2>2. i \in Own
    BY <1>2
  <2> QED
    BY <2>1, <2>2, MistakeHere, Zenon
<1>6. Value = IF i < Len(argv) THEN argv[i + 1] ELSE None
  BY <1>2 DEF Value, HasValue
<1>7. Number(None) = Throws
  BY CLIOptionsAssumption DEF Number, Arguments
<1>8. CASE Invalid(Value)
  <2>1. Return("Error")
    BY <1>8 DEF Timeout
  <2>2. i \in Mistakes
    <3>1. CASE i < Len(argv)
      <4>1. Value = argv[i + 1]
        BY <1>6, <3>1
      <4>2. Number(argv[i + 1]) = Throws
        BY <1>8, <4>1 DEF Invalid
      <4> QED
        BY <1>5, <3>1, <4>2
    <3>2. CASE i = Len(argv)
      BY <1>5, <3>2
    <3> QED
      BY <1>2, <3>1, <3>2
  <2> QED
    BY <1>1, <1>3, <2>1, <2>2, ErrorConsistent
<1>9. CASE ~ Invalid(Value)
  <2>1. i < Len(argv) /\ Value = argv[i + 1] /\ Number(argv[i + 1]) # Throws
    BY <1>6, <1>7, <1>9 DEF Invalid
  <2>2. i \notin Mistakes
    BY <1>2, <1>5, <2>1
  <2>3. /\ argv' = argv /\ status' = status /\ i' = i + 2
        /\ options' = [options EXCEPT ![field] = Number(argv[i + 1])]
    BY <1>9, <2>1 DEF Timeout, Accept
  <2>4. Takes
    BY <1>1, <1>2, <1>3, <2>1, <2>3 DEF Takes, Width
  <2>5. Number(argv[i + 1]) \in 0 .. Wrap - 1
    BY <2>1, CLIOptionsAssumption DEF Number
  <2> DEFINE n == Number(argv[i + 1])
  <2> HIDE DEF n
  <2>6. options' = [options EXCEPT ![field] = n] /\ n \in 0 .. Wrap - 1
    BY <2>3, <2>5 DEF n
  <2>7. /\ options'[field] = n /\ options'[otherField] = options[otherField]
        /\ options'.live_mode = options.live_mode
        /\ options'.stdout_mode = options.stdout_mode
        /\ options'.label = options.label
        /\ options'.capture_source = options.capture_source
        /\ options'.output_arg = options.output_arg
    BY <1>2, <2>6 DEF TypeOK, OptionsType
  <2>8. options' \in OptionsType
    BY <1>2, <2>6 DEF TypeOK, OptionsType
  <2>9. FlagRead("--live", "live_mode")' /\ FlagRead("--stdout", "stdout_mode")'
    BY <1>1, <1>2, <1>3, <2>4, <2>7, FlagKept DEF OptionsSoFar
  <2>10. TimeoutRead(name, field)'
    <3>1. options'[field] = Number(argv[i + 1])
      BY <2>7 DEF n
    <3> QED
      BY <1>1, <1>2, <2>4, <3>1, TimeoutGiven
  <2>11. TimeoutRead(other, otherField)'
    BY <1>1, <1>2, <1>3, <1>4, <2>4, <2>7, TimeoutKept
  <2>12. LabelRead' /\ PathsRead'
    BY <1>1, <1>2, <1>3, <2>4, <2>7, LabelKept, PathsKept DEF OptionsSoFar
  <2>13. OptionsSoFar'
    BY <2>9, <2>10, <2>11, <2>12 DEF OptionsSoFar
  <2> QED
    BY <1>1, <1>2, <1>3, <2>2, <2>4, <2>8, <2>13, TakesType, TakesConsistent
<1> QED
  BY <1>8, <1>9

LEMMA LabelConsistent ==
  ASSUME Consistent, Label
  PROVE  Consistent'
<1>1. Parsing /\ argv[i] = "--label"
  BY DEF Label
<1>2. /\ TypeOK /\ ReadSoFar /\ OptionsSoFar
      /\ i \in Own /\ i \in Nat /\ Len(argv) \in Nat /\ i <= Len(argv)
  BY <1>1, Here
<1>3. "--label" \notin Words /\ "--label" \in TakesValue
  BY NamesAreNotWords DEF OptionNames, TakesValue
<1>4. i \in Mistakes <=> i = Len(argv)
  BY <1>1, <1>2, <1>3, MistakeHere
<1>5. Value = IF i < Len(argv) THEN argv[i + 1] ELSE None
  BY <1>2 DEF Value, HasValue
<1>6. i < Len(argv) => argv[i + 1] \in Arguments
  BY <1>2, ArgumentTypes DEF Positions
<1>7. CASE Value = None
  <2>1. i = Len(argv)
    BY <1>2, <1>5, <1>6, <1>7, CLIOptionsAssumption
  <2>2. Return("Error")
    BY <1>7 DEF Label
  <2> QED
    BY <1>1, <1>4, <2>1, <2>2, ErrorConsistent
<1>8. CASE Value # None
  <2>1. i < Len(argv) /\ Value = argv[i + 1]
    BY <1>2, <1>5, <1>8
  <2>2. i \notin Mistakes
    BY <1>2, <1>4, <2>1
  <2>3. /\ argv' = argv /\ status' = status /\ i' = i + 2
        /\ options' = [options EXCEPT !.label = argv[i + 1]]
    BY <1>8, <2>1 DEF Label, Accept
  <2>4. Takes
    BY <1>1, <1>2, <1>3, <2>1, <2>3 DEF Takes, Width
  <2>5. /\ options'.label = argv[i + 1]
        /\ options'.live_mode = options.live_mode
        /\ options'.stdout_mode = options.stdout_mode
        /\ options'.flow_timeout_sec = options.flow_timeout_sec
        /\ options'.activity_timeout_sec = options.activity_timeout_sec
        /\ options'.capture_source = options.capture_source
        /\ options'.output_arg = options.output_arg
    BY <1>2, <2>3 DEF TypeOK, OptionsType
  <2>6. options' \in OptionsType
    BY <1>2, <1>6, <2>1, <2>3 DEF TypeOK, OptionsType
  <2>7. FlagRead("--live", "live_mode")' /\ FlagRead("--stdout", "stdout_mode")'
    BY <1>1, <1>2, <2>4, <2>5, FlagKept DEF OptionsSoFar
  <2>8. /\ TimeoutRead("--flow-timeout", "flow_timeout_sec")'
        /\ TimeoutRead("--activity-timeout", "activity_timeout_sec")'
    BY <1>1, <1>2, <2>4, <2>5, TimeoutKept DEF OptionsSoFar
  <2>9. LabelRead' /\ PathsRead'
    BY <1>1, <1>2, <1>3, <2>4, <2>5, LabelGiven, PathsKept DEF OptionsSoFar
  <2>10. OptionsSoFar'
    BY <2>7, <2>8, <2>9 DEF OptionsSoFar
  <2> QED
    BY <1>1, <1>2, <2>2, <2>4, <2>6, <2>10, TakesType, TakesConsistent
<1> QED
  BY <1>7, <1>8

\* What PathsRead says about the number of paths.
LEMMA PathCases ==
  ASSUME TypeOK, PathsRead
  PROVE  \/ /\ ReadPaths = {} /\ Cardinality(ReadPaths) = 0
            /\ options.capture_source = None /\ options.output_arg = None
         \/ \E p \in Positions :
              /\ ReadPaths = {p} /\ Cardinality(ReadPaths) = 1
              /\ options.capture_source = argv[p] /\ argv[p] # None
              /\ options.output_arg = None
         \/ \E p, q \in Positions :
              /\ p < q /\ ReadPaths = {p, q} /\ Cardinality(ReadPaths) = 2
              /\ options.capture_source = argv[p] /\ argv[p] # None
              /\ options.output_arg = argv[q] /\ argv[q] # None
<1>1. \A p \in Positions : p \in Nat /\ argv[p] # None
  BY ArgumentTypes, CLIOptionsAssumption
<1>2. \A p, q \in Positions : p < q => Cardinality({p, q}) = 2
  <2> SUFFICES ASSUME NEW p \in Positions, NEW q \in Positions, p < q
               PROVE  Cardinality({p, q}) = 2
    OBVIOUS
  <2>1. {p, q} = {p} \cup {q} /\ q \notin {p}
    BY <1>1
  <2>2. IsFiniteSet({p}) /\ Cardinality({p}) = 1
    BY FS_Singleton
  <2>3. Cardinality({p} \cup {q}) = Cardinality({p}) + 1
    BY <2>1, <2>2, FS_AddElement
  <2> QED
    BY <2>1, <2>2, <2>3
<1>3. Cardinality({}) = 0 /\ \A p : Cardinality({p}) = 1
  BY FS_EmptySet, FS_Singleton
<1>4. CASE /\ ReadPaths = {}
           /\ options.capture_source = None /\ options.output_arg = None
  BY <1>3, <1>4
<1>5. CASE \E p \in Positions :
             /\ ReadPaths = {p}
             /\ options.capture_source = argv[p] /\ options.output_arg = None
  <2>1. PICK p \in Positions :
          /\ ReadPaths = {p}
          /\ options.capture_source = argv[p] /\ options.output_arg = None
    BY <1>5
  <2>2. Cardinality(ReadPaths) = 1 /\ argv[p] # None
    BY <1>1, <1>3, <2>1
  <2> QED
    BY <2>1, <2>2
<1>6. CASE \E p, q \in Positions :
             /\ p < q /\ ReadPaths = {p, q}
             /\ options.capture_source = argv[p] /\ options.output_arg = argv[q]
  <2>1. PICK p \in Positions, q \in Positions :
          /\ p < q /\ ReadPaths = {p, q}
          /\ options.capture_source = argv[p] /\ options.output_arg = argv[q]
    BY <1>6
  <2>2. Cardinality(ReadPaths) = 2 /\ argv[p] # None /\ argv[q] # None
    BY <1>1, <1>2, <2>1
  <2> QED
    BY <2>1, <2>2
<1> QED
  BY <1>4, <1>5, <1>6 DEF PathsRead

LEMMA PositionalConsistent ==
  ASSUME Consistent, Positional
  PROVE  Consistent'
<1>1. Parsing /\ argv[i] \in Words
  BY DEF Positional
<1>2. /\ TypeOK /\ ReadSoFar /\ OptionsSoFar
      /\ i \in Own /\ i \in Positions /\ i \in Nat
      /\ Len(argv) \in Nat /\ i <= Len(argv)
  BY <1>1, Here
<1>3. /\ argv[i] \notin OptionNames /\ argv[i] \notin TakesValue
      /\ argv[i] \notin {"--live", "--stdout"} /\ argv[i] # "--help"
      /\ argv[i] # None
  BY <1>1, CLIOptionsAssumption DEF OptionNames, TakesValue, Arguments
<1>4. i \in Mistakes <=> Cardinality(ReadPaths) >= 2
  <2>1. argv[i] \notin TakesValue \ {"--label"}
    BY <1>3
  <2> QED
    BY <1>1, <1>2, <1>3, <2>1, MistakeHere, Zenon
<1>5. ASSUME Takes, options' \in OptionsType, i \notin Mistakes, PathsRead',
             options'.live_mode = options.live_mode,
             options'.stdout_mode = options.stdout_mode,
             options'.flow_timeout_sec = options.flow_timeout_sec,
             options'.activity_timeout_sec = options.activity_timeout_sec,
             options'.label = options.label
      PROVE  Consistent'
  <2>1. FlagRead("--live", "live_mode")' /\ FlagRead("--stdout", "stdout_mode")'
    BY <1>1, <1>2, <1>3, <1>5, FlagKept DEF OptionsSoFar
  <2>2. /\ TimeoutRead("--flow-timeout", "flow_timeout_sec")'
        /\ TimeoutRead("--activity-timeout", "activity_timeout_sec")'
    BY <1>1, <1>2, <1>3, <1>5, TimeoutKept DEF OptionsSoFar, OptionNames
  <2>3. LabelRead'
    BY <1>1, <1>2, <1>3, <1>5, LabelKept DEF OptionsSoFar, OptionNames
  <2>4. OptionsSoFar'
    BY <1>5, <2>1, <2>2, <2>3 DEF OptionsSoFar
  <2> QED
    BY <1>1, <1>2, <1>3, <1>5, <2>4, TakesType, TakesConsistent
<1>6. ASSUME Accept(1, options'), argv' = argv
      PROVE  /\ Takes
             /\ Positions' = Positions /\ ReadPaths' = ReadPaths \cup {i}
             /\ \A p \in ReadPaths : p < i
  <2>1. Takes
    BY <1>2, <1>3, <1>6 DEF Takes, Accept, Width
  <2> QED
    BY <1>1, <1>2, <2>1, GrammarStable, ReadPathsStep DEF Takes
<1>7. \/ /\ ReadPaths = {} /\ Cardinality(ReadPaths) = 0
         /\ options.capture_source = None /\ options.output_arg = None
      \/ \E p \in Positions :
           /\ ReadPaths = {p} /\ Cardinality(ReadPaths) = 1
           /\ options.capture_source = argv[p] /\ argv[p] # None
           /\ options.output_arg = None
      \/ \E p, q \in Positions :
           /\ p < q /\ ReadPaths = {p, q} /\ Cardinality(ReadPaths) = 2
           /\ options.capture_source = argv[p] /\ argv[p] # None
           /\ options.output_arg = argv[q] /\ argv[q] # None
  BY <1>2, PathCases DEF OptionsSoFar
<1>8. CASE options.capture_source = None
  <2>1. ReadPaths = {} /\ Cardinality(ReadPaths) = 0 /\ options.output_arg = None
    BY <1>7, <1>8
  <2>2. options' = [options EXCEPT !.capture_source = argv[i]] /\ Accept(1, options')
    BY <1>8 DEF Positional, Accept
  <2>3. options' \in OptionsType
    BY <1>1, <1>2, <2>2 DEF TypeOK, OptionsType
  <2>4. argv' = argv /\ i \notin Mistakes
    BY <1>4, <2>1, <2>2 DEF Accept
  <2>5. /\ options'.capture_source = argv[i] /\ options'.output_arg = None
        /\ options'.live_mode = options.live_mode
        /\ options'.stdout_mode = options.stdout_mode
        /\ options'.flow_timeout_sec = options.flow_timeout_sec
        /\ options'.activity_timeout_sec = options.activity_timeout_sec
        /\ options'.label = options.label
    BY <1>2, <2>1, <2>2 DEF TypeOK, OptionsType
  <2>6. Takes /\ Positions' = Positions /\ ReadPaths' = {i}
    BY <1>6, <2>1, <2>2, <2>4
  <2>7. PathsRead'
    BY <1>2, <2>4, <2>5, <2>6 DEF PathsRead
  <2> QED
    BY <1>5, <2>3, <2>4, <2>5, <2>6, <2>7
<1>9. CASE options.capture_source # None /\ options.output_arg = None
  <2>1. PICK p \in Positions :
          /\ ReadPaths = {p} /\ Cardinality(ReadPaths) = 1
          /\ options.capture_source = argv[p]
    BY <1>7, <1>9
  <2>2. options' = [options EXCEPT !.output_arg = argv[i]] /\ Accept(1, options')
    BY <1>9 DEF Positional, Accept
  <2>3. options' \in OptionsType
    BY <1>1, <1>2, <2>2 DEF TypeOK, OptionsType
  <2>4. argv' = argv /\ i \notin Mistakes
    BY <1>4, <2>1, <2>2 DEF Accept
  <2>5. /\ options'.capture_source = argv[p] /\ options'.output_arg = argv[i]
        /\ options'.live_mode = options.live_mode
        /\ options'.stdout_mode = options.stdout_mode
        /\ options'.flow_timeout_sec = options.flow_timeout_sec
        /\ options'.activity_timeout_sec = options.activity_timeout_sec
        /\ options'.label = options.label
    BY <1>2, <2>1, <2>2 DEF TypeOK, OptionsType
  <2>6. Takes /\ Positions' = Positions /\ ReadPaths' = {p, i} /\ p < i
    BY <1>6, <2>1, <2>2, <2>4
  <2>7. \E q, r \in Positions :
          /\ q < r /\ ReadPaths' = {q, r}
          /\ options'.capture_source = argv[q] /\ options'.output_arg = argv[r]
    BY <1>2, <2>1, <2>5, <2>6
  <2>8. PathsRead'
    BY <2>4, <2>6, <2>7 DEF PathsRead
  <2> QED
    BY <1>5, <2>3, <2>4, <2>5, <2>6, <2>8
<1>10. CASE options.capture_source # None /\ options.output_arg # None
  <2>1. Cardinality(ReadPaths) = 2
    BY <1>7, <1>10
  <2>2. Return("Error") /\ i \in Mistakes
    BY <1>4, <1>10, <2>1 DEF Positional
  <2> QED
    BY <1>1, <1>3, <2>2, ErrorConsistent
<1> QED
  BY <1>8, <1>9, <1>10

\* The last occurrence of an option is the last one of all at the end.
LEMMA LastIsMax ==
  ASSUME TypeOK, i > Len(argv), NEW name, NEW p \in Positions, IsLast(name, p)
  PROVE  Occurrences(name) # {} /\ Max(Occurrences(name)) = p
<1>1. \A q \in Occurrences(name) : q \in Nat /\ q < i
  BY ArgumentTypes DEF TypeOK, Positions
<1>2. p \in Occurrences(name) /\ \A q \in Occurrences(name) : p >= q
  BY <1>1 DEF IsLast
<1>3. \A q \in Occurrences(name) :
        (\A r \in Occurrences(name) : q >= r) => q = p
  BY <1>1, <1>2
<1> QED
  BY <1>2, <1>3 DEF Max

\* Once all arguments are read, the options are those of the grammar.
LEMMA AllRead ==
  ASSUME TypeOK, ReadSoFar, OptionsSoFar, i > Len(argv)
  PROVE  /\ Mistakes = {} /\ Occurrences("--help") = {}
         /\ options.live_mode <=> Occurrences("--live") # {}
         /\ options.stdout_mode <=> Occurrences("--stdout") # {}
         /\ options.label = Given("--label", None)
         /\ options.flow_timeout_sec = Seconds("--flow-timeout", 120)
         /\ options.activity_timeout_sec = Seconds("--activity-timeout", 5)
         /\ \/ /\ Paths = {} /\ options.capture_source = None
            \/ /\ Cardinality(Paths) = 1 /\ Paths # {}
               /\ options.capture_source = argv[Min(Paths)]
               /\ options.capture_source # None /\ options.output_arg = None
            \/ /\ Cardinality(Paths) = 2 /\ Paths # {}
               /\ options.capture_source = argv[Min(Paths)]
               /\ options.output_arg = argv[Max(Paths)]
               /\ options.capture_source # None /\ options.output_arg # None
<1>1. \A p \in Own : p \in Nat /\ p < i /\ ~ (i <= p)
  BY ArgumentTypes DEF TypeOK, Positions
<1>2. \A name : \A p \in Occurrences(name) : p < i /\ ~ (i <= p)
  BY <1>1, ArgumentTypes
<1>3. Mistakes = {} /\ Occurrences("--help") = {}
  BY <1>1, <1>2, ArgumentTypes DEF ReadSoFar
<1>4. /\ options.live_mode <=> Occurrences("--live") # {}
      /\ options.stdout_mode <=> Occurrences("--stdout") # {}
  BY <1>2 DEF OptionsSoFar, FlagRead
<1>5. ASSUME NEW name, Unread(name)
      PROVE  Occurrences(name) = {}
  BY <1>2, <1>5 DEF Unread
<1>6. ASSUME NEW name, NEW p \in Positions, IsLast(name, p), NEW default
      PROVE  Given(name, default) = argv[p + 1]
  BY <1>6, LastIsMax DEF Given
<1>7. options.label = Given("--label", None)
  <2>1. CASE Unread("--label") /\ options.label = None
    BY <1>5, <2>1 DEF Given
  <2>2. CASE \E p \in Positions : IsLast("--label", p) /\ options.label = argv[p + 1]
    BY <1>6, <2>2
  <2> QED
    BY <2>1, <2>2 DEF OptionsSoFar, LabelRead
<1>8. ASSUME NEW name, NEW field, TimeoutRead(name, field)
      PROVE  options[field] = Seconds(name, TimeoutDefault[field])
  <2>1. CASE Unread(name) /\ options[field] = TimeoutDefault[field]
    BY <1>5, <2>1 DEF Seconds
  <2>2. CASE \E p \in Positions : IsLast(name, p) /\ options[field] = Number(argv[p + 1])
    <3>1. PICK p \in Positions : IsLast(name, p) /\ options[field] = Number(argv[p + 1])
      BY <2>2
    <3>2. Occurrences(name) # {}
      BY <3>1 DEF IsLast
    <3> QED
      BY <1>6, <3>1, <3>2 DEF Seconds
  <2> QED
    BY <1>8, <2>1, <2>2 DEF TimeoutRead
<1>9. /\ options.flow_timeout_sec = Seconds("--flow-timeout", 120)
      /\ options.activity_timeout_sec = Seconds("--activity-timeout", 5)
  BY <1>8 DEF OptionsSoFar, TimeoutDefault
<1>10. ReadPaths = Paths
  BY <1>1, ArgumentTypes DEF ReadPaths
<1>11. \A p \in Positions : Min({p}) = p
  BY DEF Min
<1>12. \A p, q \in Positions : p < q => Min({p, q}) = p /\ Max({p, q}) = q
  <2> SUFFICES ASSUME NEW p \in Positions, NEW q \in Positions, p < q
               PROVE  Min({p, q}) = p /\ Max({p, q}) = q
    OBVIOUS
  <2>1. p \in Nat /\ q \in Nat
    BY ArgumentTypes
  <2>2. /\ \A x \in {p, q} : (\A y \in {p, q} : x <= y) <=> x = p
        /\ \A x \in {p, q} : (\A y \in {p, q} : x >= y) <=> x = q
    BY <2>1
  <2> QED
    BY <2>2 DEF Min, Max
<1>13. \/ /\ Paths = {} /\ options.capture_source = None
       \/ /\ Cardinality(Paths) = 1 /\ Paths # {}
          /\ options.capture_source = argv[Min(Paths)]
          /\ options.capture_source # None /\ options.output_arg = None
       \/ /\ Cardinality(Paths) = 2 /\ Paths # {}
          /\ options.capture_source = argv[Min(Paths)]
          /\ options.output_arg = argv[Max(Paths)]
          /\ options.capture_source # None /\ options.output_arg # None
  <2>1. CASE Paths = {} /\ options.capture_source = None
    BY <2>1
  <2>2. ASSUME NEW p \in Positions, Paths = {p}, Cardinality(Paths) = 1,
               options.capture_source = argv[p], argv[p] # None, options.output_arg = None
        PROVE  <1>13!2
    BY <1>11, <2>2
  <2>3. ASSUME NEW p \in Positions, NEW q \in Positions, p < q,
               Paths = {p, q}, Cardinality(Paths) = 2,
               options.capture_source = argv[p], argv[p] # None,
               options.output_arg = argv[q], argv[q] # None
        PROVE  <1>13!3
    BY <1>12, <2>3
  <2> QED
    BY <1>10, <2>1, <2>2, <2>3, PathCases DEF OptionsSoFar
<1> QED
  BY <1>3, <1>4, <1>7, <1>9, <1>13

LEMMA CheckConsistent ==
  ASSUME Consistent, Check
  PROVE  Consistent'
<1>1. /\ status = "Parsing" /\ i > Len(argv)
      /\ TypeOK /\ ReadSoFar /\ OptionsSoFar
  BY DEF Check, Consistent
<1> DEFINE value == IF \/ options.capture_source = None
                       \/ options.stdout_mode /\ options.output_arg # None
                    THEN "Error" ELSE "Ok"
<1>2. Return(value)
  BY DEF Check
<1>3. /\ ~ \E h \in Occurrences("--help") : \A p \in Mistakes : h < p
      /\ Mistakes = {}
  BY <1>1, AllRead
<1>4. ExpectedStatus =
        IF \/ Paths = {}
           \/ Occurrences("--stdout") # {} /\ Cardinality(Paths) = 2
        THEN "Error" ELSE "Ok"
  BY <1>3 DEF ExpectedStatus
<1>5. options.stdout_mode <=> Occurrences("--stdout") # {}
  BY <1>1, AllRead
<1>6. \/ /\ Paths = {} /\ options.capture_source = None
      \/ /\ Cardinality(Paths) = 1 /\ Paths # {}
         /\ options.capture_source = argv[Min(Paths)]
         /\ options.capture_source # None /\ options.output_arg = None
      \/ /\ Cardinality(Paths) = 2 /\ Paths # {}
         /\ options.capture_source = argv[Min(Paths)]
         /\ options.output_arg = argv[Max(Paths)]
         /\ options.capture_source # None /\ options.output_arg # None
  BY <1>1, AllRead
<1>7. value = ExpectedStatus
  BY <1>4, <1>5, <1>6
<1>8. ASSUME value = "Ok" PROVE OptionsByUsage'
  <2>1. argv' = argv /\ options' = options
    BY <1>2 DEF Return
  <2>2. /\ Paths' = Paths
        /\ \A name : Occurrences(name)' = Occurrences(name)
        /\ \A name, default : Given(name, default)' = Given(name, default)
    BY <2>1, GrammarStable
  <2>3. Paths # {}
    BY <1>6, <1>8
  <2>4. /\ Cardinality(Paths) \in {1, 2}
        /\ options.capture_source = argv[Min(Paths)]
        /\ options.output_arg = IF Cardinality(Paths) = 2 THEN argv[Max(Paths)] ELSE None
    BY <1>6, <2>3
  <2> QED
    BY <1>1, <2>1, <2>2, <2>4, AllRead DEF OptionsByUsage, Seconds, Number
<1>9. value \in {"Error", "Ok"}
  OBVIOUS
<1> HIDE DEF value
<1> QED
  BY <1>2, <1>7, <1>8, <1>9, StopConsistent

-----------------------------------------------------------------------------

LEMMA InitConsistent ==
  ASSUME Init
  PROVE  Consistent
<1>1. argv \in Seq(Arguments)
  BY CLIOptionsAssumption, SeqDef DEF Init, BoundedSeq, SeqOf
<1>2. Len(argv) \in Nat /\ 1 \in 1 .. Len(argv) + 1
  BY <1>1
<1>3. options \in OptionsType
  BY CLIOptionsAssumption DEF Init, OptionsType
<1>4. TypeOK
  BY <1>1, <1>2, <1>3 DEF Init, TypeOK
<1>5. \A p \in Own : p \in Nat /\ i <= p /\ ~ (p < i)
  BY <1>4, ArgumentTypes DEF Init, Positions
<1>6. 1 \in Positions => 1 \in Own
  BY <1>2, IsValueEquation DEF Own
<1>7. ReadSoFar
  BY <1>4, <1>5, <1>6, ArgumentTypes DEF Init, ReadSoFar
<1>8. \A name : \A p \in Occurrences(name) : i <= p /\ ~ (p < i)
  BY <1>4, <1>5, ArgumentTypes
<1>9. ReadPaths = {}
  BY <1>4, <1>5, ArgumentTypes DEF ReadPaths
<1>10. OptionsSoFar
  BY <1>8, <1>9 DEF Init, OptionsSoFar, FlagRead, TimeoutRead, TimeoutDefault, LabelRead,
                        PathsRead, Unread
<1>11. StatusByUsage /\ OptionsByUsage
  BY DEF Init, StatusByUsage, OptionsByUsage
<1> QED
  BY <1>4, <1>7, <1>10, <1>11 DEF Consistent

LEMMA NextConsistent ==
  ASSUME Consistent, [Next]_vars
  PROVE  Consistent'
<1>1. CASE Help
  BY <1>1, HelpConsistent
<1>2. CASE Flag("--live", "live_mode")
  BY <1>2, FlagConsistent
<1>3. CASE Flag("--stdout", "stdout_mode")
  BY <1>3, FlagConsistent
<1>4. CASE Timeout("--flow-timeout", "flow_timeout_sec")
  BY <1>4, TimeoutConsistent
<1>5. CASE Timeout("--activity-timeout", "activity_timeout_sec")
  BY <1>5, TimeoutConsistent
<1>6. CASE Label
  BY <1>6, LabelConsistent
<1>7. CASE Positional
  BY <1>7, PositionalConsistent
<1>8. CASE Check
  BY <1>8, CheckConsistent
<1>9. CASE UNCHANGED vars
  <2>1. /\ argv' = argv /\ i' = i /\ options' = options /\ status' = status
    BY <1>9 DEF vars
  <2>2. /\ Positions' = Positions /\ Own' = Own /\ Paths' = Paths
        /\ Mistakes' = Mistakes /\ ExpectedStatus' = ExpectedStatus
        /\ \A name : Occurrences(name)' = Occurrences(name)
        /\ \A name, default : Given(name, default)' = Given(name, default)
    BY <2>1, GrammarStable
  <2>3. TypeOK' /\ StatusByUsage'
    BY <2>1, <2>2 DEF Consistent, TypeOK, StatusByUsage
  <2>4. OptionsByUsage'
    BY <2>1, <2>2 DEF Consistent, OptionsByUsage, Seconds, Number
  <2>5. ReadSoFar' = ReadSoFar
    BY <2>1, <2>2 DEF ReadSoFar
  <2>6. ReadPaths' = ReadPaths
    BY <2>1, <2>2 DEF ReadPaths
  <2>7. OptionsSoFar' = OptionsSoFar
    BY <2>1, <2>2, <2>6 DEF OptionsSoFar, FlagRead, TimeoutRead, LabelRead, PathsRead,
                            Unread, IsLast, Number
  <2> QED
    BY <2>1, <2>3, <2>4, <2>5, <2>7 DEF Consistent
<1> QED
  BY <1>1, <1>2, <1>3, <1>4, <1>5, <1>6, <1>7, <1>8, <1>9 DEF Next, Returned

THEOREM Invariance == Spec => []Consistent
<1>1. Init => Consistent
  BY InitConsistent
<1>2. Consistent /\ [Next]_vars => Consistent'
  BY NextConsistent
<1> QED
  BY <1>1, <1>2, PTL DEF Spec

\* Every value that parseCliArgs stores has its type, whatever it is given.
THEOREM TypeCorrect == Spec => []TypeOK
<1>1. Consistent => TypeOK
  BY DEF Consistent
<1> QED
  BY <1>1, Invariance, PTL

\* A command line of any length, over any words, is accepted exactly when it
\* follows the usage.
THEOREM StatusCorrect == Spec => []StatusByUsage
<1>1. Consistent => StatusByUsage
  BY DEF Consistent
<1> QED
  BY <1>1, Invariance, PTL

\* The options it is accepted with are those of the usage.
THEOREM OptionsCorrect == Spec => []OptionsByUsage
<1>1. Consistent => OptionsByUsage
  BY DEF Consistent
<1> QED
  BY <1>1, Invariance, PTL

=============================================================================
