------------------------------- MODULE Pallet -------------------------------
(***************************************************************************)
(* The command line: fossil_maip_pallet_create and the parser of each      *)
(* command (src/code/logic/common.c), as a scanner over the words of argv. *)
(* pos is the index of the loops, i of pallet_create or j of the parser    *)
(* that runs; cmd is that parser.  A step reads one word, or an option     *)
(* with its value.                                                         *)
(*                                                                         *)
(* A command line is given as a sequence of clauses, a command followed by *)
(* groups of words: the scanner sees the words only, and the meaning of    *)
(* the clauses (MeaningOf) is what its result is compared with.            *)
(***************************************************************************)
EXTENDS Integers, Sequences, SequencesExt

CONSTANTS
  Lines,      \* command lines, as sequences of clauses
  DashWords,  \* the words that begin with '-'
  Atoi(_),    \* the C library's reading of a word as an int
  Split(_),   \* maip_io_cstr_split at commas
  Cases,      \* cases to display: [name, suite, tags, result]
  Null        \* a null pointer

VARIABLES
  line,    \* the command line (never changed)
  pos,     \* i or j
  cmd,     \* the command whose parser runs, or Null in pallet_create
  pallet,  \* the result under construction
  color,   \* MAIP_IO_COLOR_ENABLE
  theme,   \* G_MAIP_THEME, always assigned together with pallet.theme
  status   \* "scanning", "returned", or the code given to exit()

vars == << line, pos, cmd, pallet, color, theme, status >>

-----------------------------------------------------------------------------
(* Commands and options *)

\* CMD_MAP.  Those that read options until the next word without a dash:
Parsed == {"run", "filter", "sort", "shuffle", "show", "report", "info"}
Commands == Parsed \cup {"help", "color", "theme"}

\* Option with a value, the command it belongs to and the field it sets.
Valued ==
  { << "run", "--repeat", "repeat" >>, << "run", "--only", "only_cases" >>,
    << "filter", "--test-name", "test_name" >>,
    << "filter", "--suite-name", "name" >>, << "filter", "--tag", "tag" >>,
    << "sort", "--by", "by" >>, << "sort", "--order", "order" >>,
    << "shuffle", "--seed", "seed" >>, << "shuffle", "--count", "count" >>,
    << "shuffle", "--by", "by" >>,
    << "show", "--test-name", "test_name" >>,
    << "show", "--suite-name", "name" >>, << "show", "--tag", "tag" >>,
    << "show", "--result", "result" >>, << "show", "--verbose", "verbose" >>,
    << "show", "--mode", "mode" >>,
    << "report", "--format", "format" >>,
    << "report", "--destination", "destination" >> }

\* Option without a value, likewise.
Switches ==
  { << "run", "--fail-fast", "fail_fast" >>, << "info", "--os", "os" >>,
    << "info", "--arch", "arch" >>, << "info", "--memory", "memory" >>,
    << "info", "--endian", "endian" >>, << "info", "--self", "self" >> }

Themes == {"fossil", "light", "dark", "maga", "mint"}

\* fossil_maip_pallet_t = {0}; fields that neither a parser nor the engine
\* reads or writes are left out.
Zeroed ==
  [ run     |-> [only |-> Null, only_cases |-> Null, skip |-> Null,
                 repeat |-> 0, fail_fast |-> FALSE],
    filter  |-> [test_name |-> Null, name |-> Null, tag |-> Null],
    sort    |-> [by |-> Null, order |-> Null],
    shuffle |-> [seed |-> Null, count |-> 0, by |-> Null],
    show    |-> [enabled |-> FALSE, verbose |-> Null, mode |-> Null,
                 result |-> Null, test_name |-> Null, name |-> Null, tag |-> Null],
    report  |-> [format |-> Null, destination |-> Null],
    info    |-> [os |-> FALSE, arch |-> FALSE, memory |-> FALSE,
                 endian |-> FALSE, self |-> FALSE] ]

\* "set defaults for ... command": what the part of c becomes where its parser
\* begins, given what it was; parse_report sets none.
Defaults(c, part) ==
  CASE c = "run" -> [part EXCEPT !.only_cases = Null, !.repeat = 1, !.fail_fast = FALSE]
    [] c = "filter" -> [test_name |-> Null, name |-> Null, tag |-> "fossil"]
    [] c = "sort" -> [by |-> "name", order |-> "asc"]
    [] c = "shuffle" -> [seed |-> Null, count |-> 0, by |-> "name"]
    [] c = "show" -> [Zeroed.show EXCEPT !.enabled = TRUE, !.verbose = "plain",
                                         !.mode = "list", !.result = "all"]
    [] c = "report" -> part
    [] c = "info" -> Zeroed.info

\* The value a word gives to a field.
Value(field, word) ==
  CASE field \in {"repeat", "count"} -> Atoi(word)
    [] field = "only_cases" -> Split(word)
    [] OTHER -> word

-----------------------------------------------------------------------------
(* The words *)

\* The words of a clause, and argv without the program's name.
WordsOf(clause) == << clause.cmd >> \o FlattenSeq(clause.groups)
WordsOfLine(l) == FlattenSeq([k \in DOMAIN l |-> WordsOf(l[k])])
argv == WordsOfLine(line)

\* main is given an array of strings, and atoi gives an int for each.
ASSUME LinesAssumption ==
  \A l \in Lines :
    /\ l \in Seq([cmd : STRING, groups : Seq(Seq(STRING))])
    /\ \A k \in DOMAIN WordsOfLine(l) : Atoi(WordsOfLine(l)[k]) \in Int

\* Each option begins with a dash and no command does; a null pointer is no
\* string, and none of the literals it is told apart from.
ASSUME WordAssumption ==
  /\ {t[2] : t \in Valued \cup Switches} \cup {"--help"} \subseteq DashWords
  /\ Commands \cap DashWords = {}
  /\ Null \notin STRING \cup Commands \cup {"all"}

\* The plain name of an outcome is never "all" (test.c:214).
ASSUME CasesAssumption == \A case \in Cases : case.result # "all"

argc == Len(argv) + 1
word == argv[pos]

\* The loop of pallet_create, and that of the parser of c, have a word to read.
AtTop    == status = "scanning" /\ cmd = Null /\ pos < argc
Reading(c) == status = "scanning" /\ cmd = c /\ pos < argc

Init ==
  /\ line \in Lines
  /\ pos = 1
  /\ cmd = Null
  /\ pallet = Zeroed
  /\ color = TRUE
  /\ theme = "fossil"
  /\ status = "scanning"

\* Mutant of Rejected: an unknown word ends the program without an error.
RejectedQuietly == "success"

\* exit(EXIT_FAILURE), after a message.
Rejected == "failure"

\* Mutant of PastValue: the loop steps over one word more.
PastValueByOne == pos + 3

\* The word after an argument that is taken along.
PastValue == pos + 2

\* Mutants of Resume: the parser returns j, or j - 2.
ResumeAfter == IF pos = argc THEN argc ELSE pos + 1
ResumeBefore == IF pos = argc THEN argc ELSE pos - 1

\* The word pallet_create goes on with when a parser stops at word j: it
\* returns j - 1, and the loop adds one.
Resume == pos

Exit(code) ==
  /\ status' = code
  /\ UNCHANGED << line, pos, cmd, pallet, color, theme >>

-----------------------------------------------------------------------------
(* fossil_maip_pallet_create *)

\* _show_version and _show_help do not return.
GlobalFlag ==
  /\ AtTop
  /\ word \in {"--version", "-v", "--help", "-h"}
  /\ Exit("success")

UnknownFlag ==
  /\ AtTop
  /\ word \in DashWords \ {"--version", "-v", "--help", "-h"}
  /\ Exit(Rejected)

UnknownCommand ==
  /\ AtTop
  /\ word \notin DashWords \cup Commands
  /\ Exit(Rejected)

\* One of the parsers with a loop is called: it sets its defaults.
BeginCommand(c) ==
  /\ AtTop
  /\ word = c
  /\ pallet' = [pallet EXCEPT ![c] = Defaults(c, @)]
  /\ cmd' = c
  /\ pos' = pos + 1
  /\ UNCHANGED << line, color, theme, status >>

\* fossil_maip_parse_help: a known topic, or none, ends the program; any other
\* word makes the scanner skip the rest of argv.
HelpCommand ==
  /\ AtTop
  /\ word = "help"
  /\ IF pos + 1 = argc \/ argv[pos + 1] \in Commands \ {"help"}
     THEN Exit("success")
     ELSE /\ pos' = argc
          /\ UNCHANGED << line, cmd, pallet, color, theme, status >>

\* fossil_maip_parse_color; auto asks isatty, which may answer either way.
ColorCommand ==
  /\ AtTop
  /\ word = "color"
  /\ IF pos + 1 < argc /\ argv[pos + 1] \in {"enable", "disable", "auto"}
     THEN /\ color' \in CASE argv[pos + 1] = "enable" -> {TRUE}
                          [] argv[pos + 1] = "disable" -> {FALSE}
                          [] argv[pos + 1] = "auto" -> BOOLEAN
          /\ pos' = PastValue
          /\ UNCHANGED << line, cmd, pallet, theme, status >>
     ELSE Exit(Rejected)

\* fossil_maip_parse_theme.
ThemeCommand ==
  /\ AtTop
  /\ word = "theme"
  /\ IF pos + 1 < argc /\ argv[pos + 1] \in Themes
     THEN /\ theme' = argv[pos + 1]
          /\ pos' = PastValue
          /\ UNCHANGED << line, cmd, pallet, color, status >>
     ELSE Exit(Rejected)

\* The loop of pallet_create ends, the pallet is returned and the tests run.
Return ==
  /\ status = "scanning"
  /\ cmd = Null
  /\ pos = argc
  /\ status' = "returned"
  /\ UNCHANGED << line, pos, cmd, pallet, color, theme >>

-----------------------------------------------------------------------------
(* The loop of a command's parser *)

\* An option takes the next word as its value, whatever that word is.
TakeValue(c) ==
  /\ Reading(c)
  /\ pos + 1 < argc
  /\ \E field \in DOMAIN pallet[c] :
       /\ << c, word, field >> \in Valued
       /\ pallet' = [pallet EXCEPT ![c][field] = Value(field, argv[pos + 1])]
  /\ pos' = PastValue
  /\ UNCHANGED << line, cmd, color, theme, status >>

SetSwitch(c) ==
  /\ Reading(c)
  /\ \E field \in DOMAIN pallet[c] :
       /\ << c, word, field >> \in Switches
       /\ pallet' = [pallet EXCEPT ![c][field] = TRUE]
  /\ pos' = pos + 1
  /\ UNCHANGED << line, cmd, color, theme, status >>

\* The command's own --help ends the program.
SubHelp(c) ==
  /\ Reading(c)
  /\ word = "--help"
  /\ Exit("success")

\* The words with a dash a parser has no branch for, or an option whose value
\* is missing, fall through.
IgnoreWord(c) ==
  /\ Reading(c)
  /\ word \in DashWords \ {"--help"}
  /\ \A t \in Switches : t[1] = c => t[2] # word
  /\ \A t \in Valued : t[1] = c /\ t[2] = word => pos + 1 = argc
  /\ pos' = pos + 1
  /\ UNCHANGED << line, cmd, pallet, color, theme, status >>

\* _show_info returns only if it was asked for the program itself.
InfoExits(c) == c = "info" /\ ~ pallet.info.self

\* The parser returns at a word without a dash, or at the end.
EndCommand(c) ==
  /\ status = "scanning"
  /\ cmd = c
  /\ pos < argc => word \notin DashWords
  /\ IF InfoExits(c)
     THEN Exit("success")
     ELSE /\ cmd' = Null
          /\ pos' = Resume
          /\ UNCHANGED << line, pallet, color, theme, status >>

Option(c) == TakeValue(c) \/ SetSwitch(c) \/ SubHelp(c) \/ IgnoreWord(c)

\* The scan is over: exit() was called, or the engine has its pallet.
Halted ==
  /\ status # "scanning"
  /\ UNCHANGED vars

Next ==
  \/ GlobalFlag
  \/ UnknownFlag
  \/ UnknownCommand
  \/ HelpCommand
  \/ ColorCommand
  \/ ThemeCommand
  \/ Return
  \/ \E c \in Parsed : BeginCommand(c) \/ Option(c) \/ EndCommand(c)
  \/ Halted

Spec == Init /\ [][Next]_vars

\* The scanner is one loop of sequential code.
FairSpec == Spec /\ WF_vars(Next)

-----------------------------------------------------------------------------
(* fossil_maip_show_cases *)

\* Mutant of Shows: the filter for suites is pasted from that for cases.
ShowsPasted(show, case) ==
  /\ show.test_name \in {Null, case.name}
  /\ show.name \in {Null, case.name}
  /\ show.tag = Null \/ show.tag \in case.tags
  /\ show.result \in {Null, case.result}

\* Whether the case is displayed: each filter of show that is set must agree,
\* result with the plain name of the outcome.
Shows(show, case) ==
  /\ show.test_name \in {Null, case.name}
  /\ show.name \in {Null, case.suite}
  /\ show.tag = Null \/ show.tag \in case.tags
  /\ show.result \in {Null, case.result}

-----------------------------------------------------------------------------
(* What a command line means *)

\* The option whose value or flag each field of fossil_maip_pallet_t is said to
\* hold, by the comments there (common.h:237-305) and, for show, README.md:46.
OptionOf ==
  [ run     |-> [only |-> "--only", only_cases |-> "--only", skip |-> "--skip",
                 repeat |-> "--repeat", fail_fast |-> "--fail-fast"],
    filter  |-> [test_name |-> "--test-name", name |-> "--suite-name", tag |-> "--tag"],
    sort    |-> [by |-> "--by", order |-> "--order"],
    shuffle |-> [seed |-> "--seed", count |-> "--count", by |-> "--by"],
    show    |-> [enabled |-> Null, verbose |-> "--verbose", mode |-> "--mode",
                 result |-> "--result", test_name |-> "--test-name",
                 name |-> "--suite-name", tag |-> "--tag"],
    report  |-> [format |-> "--format", destination |-> "--destination"],
    info    |-> [os |-> "--os", arch |-> "--arch", memory |-> "--memory",
                 endian |-> "--endian", self |-> "--self"] ]

\* The fields commented as a flag; the options of the others have a value.
Flags == {"fail_fast", "os", "arch", "memory", "endian", "self"}

Sets(c, group, field) ==
  /\ Len(group) = IF field \in Flags THEN 1 ELSE 2
  /\ group[1] = OptionOf[c][field]

\* A clause that uses its command as it is documented.
WellFormed(clause) ==
  CASE clause.cmd = "help" -> clause.groups = << >>
    [] clause.cmd = "theme" -> \E t \in Themes : clause.groups = << <<t>> >>
    [] clause.cmd = "color" ->
         \E m \in {"enable", "disable", "auto"} : clause.groups = << <<m>> >>
    [] clause.cmd \in Parsed ->
         \A k \in DOMAIN clause.groups :
           \/ clause.groups[k] = << "--help" >>
           \/ \E field \in DOMAIN OptionOf[clause.cmd] :
                Sets(clause.cmd, clause.groups[k], field)
    [] OTHER -> FALSE

\* A line of such clauses.  help is no topic of help: after help help the tests
\* run, without the rest of the line.
WellFormedLine ==
  /\ \A k \in DOMAIN line : WellFormed(line[k])
  /\ \A k \in 1 .. Len(line) - 1 : line[k].cmd = "help" => line[k + 1].cmd # "help"

\* A clause that asks for information instead of a run of the tests.
AsksToStop(clause) ==
  \/ clause.cmd = "help"
  \/ Contains(clause.groups, << "--help" >>)
  \/ clause.cmd = "info" /\ ~ Contains(clause.groups, << "--self" >>)

\* The clauses of a command, by their places in the line, and their groups,
\* << k, n >> being the n-th group of clause k.
PlacesOf(c) == {k \in DOMAIN line : line[k].cmd = c}
GroupsOf(c) == UNION {{k} \X DOMAIN line[k].groups : k \in PlacesOf(c)}
GroupAt(g) == line[g[1]].groups[g[2]]

\* The groups in force: those of the last clause of the command, but reports
\* add up.
InForce(c) == {g \in GroupsOf(c) : c = "report" \/ \A k \in PlacesOf(c) : k <= g[1]}

Setters(c, field) == {g \in InForce(c) : Sets(c, GroupAt(g), field)}

NotAfter(g, h) == g[1] < h[1] \/ (g[1] = h[1] /\ g[2] <= h[2])

\* What a group gives to the field that it sets.
Given(g, field) == IF Len(GroupAt(g)) = 2 THEN Value(field, GroupAt(g)[2]) ELSE TRUE

\* The last group in force that sets a field gives its value; a command that is
\* there without one gives the default; otherwise the field is zero.
MeaningOf(c, field) ==
  CASE Setters(c, field) # {} ->
         Given(CHOOSE g \in Setters(c, field) :
                 \A h \in Setters(c, field) : NotAfter(h, g), field)
    [] Setters(c, field) = {} /\ PlacesOf(c) # {} -> Defaults(c, Zeroed[c])[field]
    [] OTHER -> Zeroed[c][field]

\* No run clause has --skip, the one option that no parser knows.
SkipFree ==
  \A k \in PlacesOf("run") : \A n \in DOMAIN line[k].groups :
    ~ Sets("run", line[k].groups[n], "skip")

\* A case agrees with each filter of the show clause in force, the last of a kind.
AgreesWithShow(case) ==
  \A g \in InForce("show") :
    \/ \E h \in InForce("show") : h[2] > g[2] /\ GroupAt(h)[1] = GroupAt(g)[1]
    \/ CASE GroupAt(g)[1] = "--test-name" -> GroupAt(g)[2] = case.name
         [] GroupAt(g)[1] = "--suite-name" -> GroupAt(g)[2] = case.suite
         [] GroupAt(g)[1] = "--tag" -> GroupAt(g)[2] \in case.tags
         [] GroupAt(g)[1] = "--result" -> GroupAt(g)[2] = case.result
         [] OTHER -> TRUE

\* There is a show clause, and the one in force leaves the result to the default.
ResultByDefault ==
  /\ PlacesOf("show") # {}
  /\ \A g \in InForce("show") : GroupAt(g)[1] # "--result"

ThemeMeant ==
  IF PlacesOf("theme") = {} THEN "fossil"
  ELSE LET last == CHOOSE k \in PlacesOf("theme") : \A i \in PlacesOf("theme") : i <= k
       IN  line[last].groups[1][1]

-----------------------------------------------------------------------------
(* Properties *)

\* The index stays within argv, the parser that runs is one of those with a
\* loop, and the pallet keeps its fields, with a number where the engine counts.
TypeOK ==
  /\ line \in Lines
  /\ pos \in 1 .. argc
  /\ cmd \in Parsed \cup {Null}
  /\ DOMAIN pallet = DOMAIN Zeroed
  /\ \A c \in DOMAIN Zeroed : DOMAIN pallet[c] = DOMAIN Zeroed[c]
  /\ pallet.run.repeat \in Int
  /\ pallet.shuffle.count \in Int
  /\ \A t \in Switches : pallet[t[1]][t[3]] \in BOOLEAN
  /\ color \in BOOLEAN
  /\ theme \in Themes
  /\ status \in {"scanning", "returned", "success", "failure"}

\* A line of well-formed clauses is read as its clauses mean, whatever words
\* are used as values and wherever each parser stops: it ends in help or
\* information if a clause asks for that, and otherwise the pallet has, in each
\* field, what the clauses in force say of it by the comments of the header.
\* Two promises of the header are not kept and stand apart, that of the field
\* only and that of --skip: see OptionsAreHeeded.
PalletMeansClauses ==
  status # "scanning" /\ WellFormedLine /\ SkipFree
  => IF \E k \in DOMAIN line : AsksToStop(line[k])
     THEN status = "success"
     ELSE /\ status = "returned"
          /\ \A c \in DOMAIN Zeroed : \A field \in DOMAIN Zeroed[c] \ {"only"} :
               pallet[c][field] = MeaningOf(c, field)
          /\ theme = ThemeMeant

\* What the parser leaves in the part show is what the display makes of it: a
\* case is displayed if and only if it agrees with the show clause in force.
\* For a clause that leaves the result to the default, see OptionsAreHeeded.
DisplayMeansClauses ==
  status = "returned" /\ WellFormedLine /\ SkipFree /\ ~ ResultByDefault
  => \A case \in Cases : Shows(pallet.show, case) <=> AgreesWithShow(case)

\* The program exits with success before the tests have run only on a line that
\* asks for help, a version or information: no misspelt word makes a build
\* green without tests.
SuccessOnlyOnRequest ==
  status = "success" =>
    \E k \in DOMAIN argv :
      argv[k] \in {"--help", "-h", "--version", "-v", "help", "info"}

\* Whatever the words are, the scan ends: each return of a parser leaves the
\* index where pallet_create goes on, never behind.
Terminates == <>(status # "scanning")

-----------------------------------------------------------------------------
(***************************************************************************)
(* What the documentation says and the code does not do.                   *)
(***************************************************************************)

\* The promises of PalletMeansClauses and DisplayMeansClauses without their
\* exceptions.  A line of options as the header documents them is accepted;
\* run.only, which is what the engine looks at (test.c:587), is the "Value for
\* --only" (common.h:240), and run.skip the "Value for --skip" (common.h:244);
\* and "Show test cases." (README.md:46) shows those that agree with the clause.
OptionsAreHeeded ==
  status # "scanning" /\ WellFormedLine /\ (\A k \in DOMAIN line : ~ AsksToStop(line[k]))
  => /\ status = "returned"
     /\ \A c \in DOMAIN Zeroed : \A field \in DOMAIN Zeroed[c] :
          pallet[c][field] = MeaningOf(c, field)
     /\ \A case \in Cases : Shows(pallet.show, case) <=> AgreesWithShow(case)

=============================================================================
