-------------------------------- MODULE Harness --------------------------------
(***************************************************************************)
(* The harness of the three ports, from the parameters to the scores: the  *)
(* tests of the input file and those named with -t are read, the config    *)
(* tests run, then the tests that are asked for, and the system score is   *)
(* computed.  Each test runs in a thread of its own that is joined, so one *)
(* test is one step here.                                                  *)
(*                                                                         *)
(* The input file is the order of its tests; the files are well formed.  A *)
(* test is abstracted to how it ends, and to the results of config tests   *)
(* that it looks up: "rate" stands for the tests that look up the clock    *)
(* accuracy, "sleeper" for those that look up the ideal sleep time.        *)
(***************************************************************************)
EXTENDS Naturals, Sequences, SequencesExt, Functions

CONSTANTS
  Files,        \* the input files: sequences of tests
  NameLists,    \* what -t may name; the empty sequence when there is no -t
  Iterations,   \* the iterations that the file gives for a test
  Multiplier,   \* the multiplier that the file gives for each real-time mode
  Strays,       \* the multipliers that may stand where a pointer never set points
  Parallel      \* the tests that are for several processors

ConfigTests == {"clock", "timer"}
Tests == ConfigTests \cup {"rate", "sleeper"}
Modes == {"soft", "hard", "guaranteed"}

ASSUME HarnessAssumption ==
  /\ \A f \in Files : f \in Seq(Tests) /\ IsInjective(f)
  /\ \A n \in NameLists : n \in Seq(Tests \cup {"unknown"})
  /\ Iterations \in Nat \ {0}
  /\ Multiplier \in [Modes -> Nat \ {0}]
  /\ Strays \subseteq Nat \ {0}
  /\ Parallel \subseteq Tests

(* The config tests whose result a test looks up.                          *)
Reads(t) == CASE t = "clock" -> {}
              [] t \in {"timer", "rate"} -> {"clock"}
              [] t = "sleeper" -> {"timer"}

VARIABLES
  env,      \* the port, the machine and the parameters; never changes
  phase,    \* where the harness is
  tests,    \* ifl_params->_tests
  names,    \* cmd_args->_test_list
  multiplier,  \* the multiplier in the real-time values the tests are given
  todo,     \* what the loop of the phase still has to run
  iters,    \* the iterations of each entry of tests
  table,    \* the tests that have a result
  factors,  \* how often a test's score enters the system score
  counted,  \* the number of tests the system score is the mean of
  tried     \* what was run so far, with its iterations (0: it did not start)

vars == << env, phase, tests, names, multiplier, todo, iters, table, factors, counted, tried >>

(* preset: config tests replaced by an option of the command line (Java).  *)
Envs ==
  {e \in [port : {"c", "cpp", "java"}, file : Files, given : NameLists,
          mode : Modes, quick : BOOLEAN, uniprocessor : BOOLEAN, preset : SUBSET ConfigTests] :
     /\ e.uniprocessor => e.port = "cpp"
     /\ e.preset # {} => e.port = "java"}

Init ==
  /\ env \in Envs
  /\ phase = "read"
  /\ tests = << >> /\ names = << >> /\ multiplier = 0 /\ todo = << >>
  /\ iters = [t \in Tests |-> Iterations]
  /\ table = {}
  /\ factors = [t \in Tests |-> 0]
  /\ counted = 0
  /\ tried = << >>

-----------------------------------------------------------------------------
(* The parameters.  insert_new_test_entry and insert_in_test_list of the C *)
(* port add at the head of a list.                                         *)

IsConfig(t) == t \in ConfigTests
InFile(t) == Contains(env.file, t)

(* The elements of s that are in a set, in the order of s: what a loop     *)
(* over a list picks from it.                                              *)
Only(s, set) ==
  LET at == {i \in DOMAIN s : s[i] \in set}
      Nth(n) == CHOOSE i \in at : Cardinality({j \in at : j <= i}) = n
  IN  [n \in 1 .. Cardinality(at) |-> s[Nth(n)]]

\* A mutant: AsRead that adds at the end of the list in every port.
InOrder(s) == s

AsRead(s) == IF env.port = "c" THEN Reverse(s) ELSE s

\* A mutant: ConfigPlan that stops after the first.
FirstConfigOnly(list) ==
  LET all == Only(list, ConfigTests) IN IF all = << >> THEN all ELSE << Head(all) >>

ConfigPlan(list) == Only(list, ConfigTests)

(* The multipliers that the values of the real-time mode may hold.  The    *)
(* C++ port stores the values for the guaranteed mode in the record of the *)
(* hard mode, where the lines that come last in the file stay, and never   *)
(* sets the pointer to the record of the guaranteed mode.                  *)
RealTimeMultipliers ==
  IF env.port # "cpp" \/ env.mode = "soft" THEN {Multiplier[env.mode]}
  ELSE IF env.mode = "hard" THEN {Multiplier["hard"], Multiplier["guaranteed"]}
  ELSE Strays

(* Reading through the pointer that was never set may end the program.     *)
ReadParameters ==
  /\ phase = "read" /\ env.port # "java"
  /\ tests' = AsRead(env.file)
  /\ names' = AsRead(env.given)
  /\ multiplier' \in RealTimeMultipliers
  /\ \/ phase' = "config"
     \/ env.port = "cpp" /\ env.mode = "guaranteed" /\ phase' = "crash"
  /\ todo' = ConfigPlan(tests')
  /\ UNCHANGED << env, iters, table, factors, counted, tried >>

(* TestConfig.parse drops the names that are not in the file.  It rewinds  *)
(* neither its iterator over the tests nor the flag "present", so the      *)
(* first name decides for all; with no name left the program ends.         *)
(* launchTests then refuses a config test that is named, again with an     *)
(* iterator that only the first name gets to use.                          *)
ReadParametersJava ==
  /\ phase = "read" /\ env.port = "java"
  /\ tests' = env.file
  /\ names' = env.given
  /\ multiplier' \in RealTimeMultipliers
  /\ todo' = ConfigPlan(tests')
  /\ phase' = CASE env.given = << >> -> "config"
                [] env.given # << >> /\ ~InFile(Head(env.given)) -> "refused"
                [] env.given # << >> /\ InFile(Head(env.given)) ->
                     IF IsConfig(Head(env.given)) THEN "score" ELSE "config"
  /\ UNCHANGED << env, iters, table, factors, counted, tried >>

-----------------------------------------------------------------------------
(* The tests to run after the config tests.  Names that are not in the     *)
(* file are reported and skipped.  The C++ port finds config tests but     *)
(* does not run them; the Java port returns at the first one.              *)
UpToConfig(s) ==
  LET at == {i \in DOMAIN s : IsConfig(s[i])}
  IN  IF at = {} THEN s ELSE SubSeq(s, 1, Min(at) - 1)

\* A mutant: Requested that runs each name once.
RequestedOnce ==
  IF names = << >> THEN Only(tests, Tests \ ConfigTests)
  ELSE LET known == Only(names, ToSet(env.file))
       IN  SetToSeq(ToSet(known))

Requested ==
  IF names = << >> THEN Only(tests, Tests \ ConfigTests)
  ELSE LET known == Only(names, ToSet(env.file))
       IN  CASE env.port = "c"    -> known
             [] env.port = "cpp"  -> Only(known, Tests \ ConfigTests)
             [] env.port = "java" -> UpToConfig(known)

ConfigDone ==
  /\ phase = "config" /\ todo = << >>
  /\ phase' = "tests"
  /\ todo' = Requested
  /\ UNCHANGED << env, tests, names, multiplier, iters, table, factors, counted, tried >>

TestsDone ==
  /\ phase = "tests" /\ todo = << >>
  /\ phase' = "score"
  /\ UNCHANGED << env, tests, names, multiplier, todo, iters, table, factors, counted, tried >>

-----------------------------------------------------------------------------
(* One test.                                                               *)
Current == Head(todo)

Running == phase \in {"config", "tests"} /\ todo # << >>

NewIterations(t) == IF env.quick THEN 1 ELSE iters[t] * multiplier

(* get_iters and updateIterations store the product in the entry of the    *)
(* list; the C++ port works on a copy of the entry.                        *)
Start(t) ==
  /\ tried' = Append(tried, [test |-> t, iters |-> NewIterations(t)])
  /\ iters' = IF env.port = "cpp" THEN iters
              ELSE [iters EXCEPT ![t] = NewIterations(t)]

NoStart(t) ==
  /\ tried' = Append(tried, [test |-> t, iters |-> 0])
  /\ UNCHANGED iters

(* A test that is run again replaces its result; in the C++ port, whose    *)
(* operator< makes every entry less than itself, std::map may keep both or *)
(* only the first.  Some results do not enter the system score.            *)
Record(t) ==
  /\ table' = table \cup {t}
  /\ \E n \in {0, 1} :
       factors' = [factors EXCEPT ![t] = IF env.port = "cpp" THEN @ + n ELSE n]

NoRecord == UNCHANGED << table, factors >>

\* A mutant: Proceed that does not count.
ProceedUncounted(counts) ==
  /\ todo' = Tail(todo)
  /\ UNCHANGED << phase, counted >>

Proceed(counts) ==
  /\ todo' = Tail(todo)
  /\ counted' = IF counts THEN counted + 1 ELSE counted
  /\ UNCHANGED phase

(* run_test.  A test whose library or symbol is missing does not start; a  *)
(* thread that cannot be created leaves the iterations multiplied.  A test *)
(* that looks up a result that is not there dereferences NULL.             *)
RunTestC ==
  /\ env.port = "c" /\ Running
  /\ \/ NoStart(Current) /\ NoRecord /\ Proceed(FALSE)
     \/ Start(Current) /\ NoRecord /\ Proceed(FALSE)
     \/ /\ Reads(Current) \subseteq table
        /\ Start(Current) /\ Record(Current) /\ Proceed(FALSE)
     \/ /\ ~(Reads(Current) \subseteq table)
        /\ Start(Current) /\ NoRecord
        /\ phase' = "crash"
        /\ UNCHANGED << todo, counted >>
  /\ UNCHANGED << env, tests, names, multiplier >>

(* A failed config test aborts.  On one processor launchTests returns when *)
(* a test fails, unless applicableTest names it: those for several         *)
(* processors, which are also the only ones to fail with a result.         *)
FailCpp ==
  \/ /\ phase = "config"
     /\ phase' = "abort"
     /\ UNCHANGED << todo, counted >>
  \/ /\ phase = "tests" /\ env.uniprocessor /\ Current \notin Parallel
     /\ phase' = "score"
     /\ UNCHANGED << todo, counted >>
  \/ /\ phase = "tests" /\ ~(env.uniprocessor /\ Current \notin Parallel)
     /\ Proceed(TRUE)

RunTestCpp ==
  /\ env.port = "cpp" /\ Running
  /\ \/ NoStart(Current) /\ NoRecord /\ FailCpp
     \/ Start(Current) /\ NoRecord /\ FailCpp
     \/ Current \in ConfigTests \cup Parallel /\ Start(Current) /\ Record(Current) /\ FailCpp
     \/ Start(Current) /\ Record(Current) /\ Proceed(TRUE)
  /\ UNCHANGED << env, tests, names, multiplier >>

(* A test that is not eligible or has no class is not counted.  A preset   *)
(* config test returns null before it updates its iterations.  A test that *)
(* looks up a missing result dies of a NullPointerException in its thread, *)
(* and is counted without a result like one that returns null.             *)
RunTestJava ==
  /\ env.port = "java" /\ Running
  /\ \/ NoStart(Current) /\ NoRecord /\ Proceed(FALSE)
     \/ Start(Current) /\ NoRecord /\ Proceed(FALSE)
     \/ Current \in env.preset /\ NoStart(Current) /\ NoRecord /\ Proceed(TRUE)
     \/ Current \notin env.preset /\ Start(Current) /\ NoRecord /\ Proceed(TRUE)
     \/ /\ Current \notin env.preset
        /\ Reads(Current) \subseteq table \cup env.preset
        /\ Start(Current) /\ Record(Current) /\ Proceed(TRUE)
  /\ UNCHANGED << env, tests, names, multiplier >>

-----------------------------------------------------------------------------
(* The system score is the product of the factors, each to the power of    *)
(* one over the number of tests; the C port takes the size of the table.   *)
Score ==
  /\ phase = "score"
  /\ phase' = "end"
  /\ counted' = IF env.port = "c" THEN Cardinality(table) ELSE counted
  /\ UNCHANGED << env, tests, names, multiplier, todo, iters, table, factors, tried >>

Next ==
  \/ ReadParameters
  \/ ReadParametersJava
  \/ ConfigDone
  \/ TestsDone
  \/ RunTestC
  \/ RunTestCpp
  \/ RunTestJava
  \/ Score

Spec == Init /\ [][Next]_vars

-----------------------------------------------------------------------------
Phases == {"read", "config", "tests", "score", "end", "refused", "abort", "crash"}

TypeOK ==
  /\ env \in Envs
  /\ phase \in Phases
  /\ tests \in Seq(Tests) /\ todo \in Seq(Tests)
  /\ names \in Seq(Tests \cup {"unknown"})
  /\ multiplier \in Nat
  /\ iters \in [Tests -> Nat]
  /\ table \subseteq Tests
  /\ factors \in [Tests -> Nat]
  /\ counted \in Nat
  /\ tried \in Seq([test : Tests, iters : Nat])

Occurrences(t, s) == Cardinality({i \in DOMAIN s : s[i] = t})

TriedTests == [i \in DOMAIN tried |-> tried[i].test]

(* "A config test is the test that will always run first": no benchmark is *)
(* run before every config test of the file, whatever -t names.            *)
ConfigFirst ==
  \A i \in DOMAIN tried : ~IsConfig(tried[i].test) =>
    \A c \in ConfigTests : InFile(c) => \E j \in 1 .. i - 1 : tried[j].test = c

ClockAfterTimer ==
  \E i, j \in DOMAIN env.file :
    i < j /\ env.file[i] = "timer" /\ env.file[j] = "clock"

(* get_min_exec_time and get_ideal_sleep_time do not look whether there is *)
(* a result.  With a file that has clock_config after timer_config, as the *)
(* one shipped with the C port, this crashes the harness only when a       *)
(* config test could not be run, as the list is the reverse of the file.   *)
CrashNeedsFailure ==
  phase = "crash" /\ env.port = "c" /\ ClockAfterTimer =>
    \E i \in 1 .. Len(tried) - 1 : tried[i].test \in ConfigTests \ table

(* "The total number of iterations run by a micro-benchmark is equal to    *)
(* the product of iteration and the multiplier value": of the mode that is *)
(* asked for.                                                              *)
Promise == IF env.quick THEN 1 ELSE Iterations * Multiplier[env.mode]

(* The runs for which the promise is kept: in the C and Java ports the     *)
(* first run of each test, in the C++ port every run in soft mode; and     *)
(* every run of a quick run.                                               *)
Promised(i) ==
  \/ env.quick
  \/ env.port = "cpp" /\ env.mode = "soft"
  \/ env.port # "cpp" /\ \A j \in 1 .. i - 1 : tried[j].test # tried[i].test

AsPromised(i) == Promised(i) => tried[i].iters \in {0, Promise}

(* Whatever fails on the way, at the end each test that is asked for was   *)
(* tried as often as it is named, or once when there is no -t; unless the  *)
(* Java port meets a config test, or the C++ port has one processor.  And  *)
(* it had the iterations that input.txt promises for the mode: in the C    *)
(* and Java ports on its first run, in the C++ port always in soft mode,   *)
(* but not in the others, whose multipliers it mixes up.                   *)
AsOftenAsNamed ==
  \A t \in Tests \ ConfigTests : InFile(t) =>
    Occurrences(t, TriedTests) =
      IF env.given = << >> THEN 1 ELSE Occurrences(t, env.given)

NamesConfig == \E i \in DOMAIN env.given : IsConfig(env.given[i])

RunAsAsked ==
  /\ phase = "end" /\ ~(env.port = "java" /\ NamesConfig) /\ ~env.uniprocessor =>
       AsOftenAsNamed
  /\ \A i \in DOMAIN tried : AsPromised(i)

(* The factors of the product that the system score is the root of.        *)
Entered == SumFunctionOnSet(factors, Tests)

(* The mean is over at least as many tests as enter the product, also when *)
(* tests fail, are not eligible or are run twice.                          *)
FactorsWithinMean ==
  phase = "end" => Entered <= counted

-----------------------------------------------------------------------------
(* The inductive invariant.                                                *)

(* Nothing runs before the lists are read, and they stay as they were read. *)
ReadInv ==
  /\ phase = "read" => tried = << >> /\ counted = 0 /\ factors = [t \in Tests |-> 0]
  /\ phase # "read" =>
       /\ tests = AsRead(env.file) /\ names = AsRead(env.given)
       /\ multiplier \in RealTimeMultipliers

(* A test was run, or at least its start was tried.                        *)
WasTried(t) == \E i \in DOMAIN tried : tried[i].test = t

(* Only config tests run in their phase, and none is forgotten.            *)
ConfigInv ==
  /\ phase = "config" =>
       /\ \A i \in DOMAIN tried : IsConfig(tried[i].test)
       /\ \A k \in DOMAIN todo : IsConfig(todo[k])
       /\ \A c \in ConfigTests : InFile(c) =>
            WasTried(c) \/ \E k \in DOMAIN todo : todo[k] = c
  /\ phase = "tests" => \A c \in ConfigTests : InFile(c) => WasTried(c)

(* The list of the C port is the reverse of the file.                      *)
OrderInv ==
  phase = "config" /\ env.port = "c" /\ ClockAfterTimer =>
    \A k \in DOMAIN todo : todo[k] = "timer" =>
      WasTried("clock") \/ \E j \in 1 .. k - 1 : todo[j] = "clock"

(* Every factor is of a test that is counted: in the C port by its place   *)
(* in the table, in the others when it was run.                            *)
FactorInv ==
  /\ env.port = "c" => \A t \in Tests : factors[t] \in {0, 1} /\ (factors[t] = 1 => t \in table)
  /\ env.port = "c" /\ phase = "end" => counted = Cardinality(table)
  /\ env.port # "c" /\ phase # "abort" => Entered <= counted
  /\ env.port = "cpp" /\ phase = "tests" => \A k \in DOMAIN todo : ~IsConfig(todo[k])

(* Iterations are stored at the first run of a test.                       *)
ItersInv ==
  /\ \A t \in Tests : env.port = "cpp" \/ ~WasTried(t) => iters[t] = Iterations
  /\ \A i \in DOMAIN tried : AsPromised(i)

(* How often a test of the file is asked for.                              *)
Asked(t) == IF env.given = << >> THEN 1 ELSE Occurrences(t, env.given)

(* A benchmark is run as often as it is asked for, counting what is still  *)
(* to run.                                                                 *)
CountInv ==
  ~(env.port = "java" /\ NamesConfig) =>
    \A t \in Tests \ ConfigTests : InFile(t) =>
      /\ phase = "tests" => Occurrences(t, TriedTests) + Occurrences(t, todo) = Asked(t)
      /\ phase \in {"score", "end"} /\ ~env.uniprocessor => Occurrences(t, TriedTests) = Asked(t)

IInv ==
  /\ TypeOK /\ ReadInv /\ ConfigInv /\ OrderInv /\ FactorInv /\ ItersInv /\ CountInv
  /\ ConfigFirst /\ CrashNeedsFailure
=============================================================================
