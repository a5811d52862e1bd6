------------------------------ MODULE MCPallet ------------------------------
(***************************************************************************)
(* Command lines for TLC.  "clauses" are all sequences of up to three of   *)
(* the clauses below: well-formed ones, some whose values look like        *)
(* commands or options, and ones with words that are unknown, missing or   *)
(* in the wrong place.                                                     *)
(***************************************************************************)
EXTENDS Pallet, TLC

Clause(c, groups) == [cmd |-> c, groups |-> groups]

Good ==
  { Clause("run", << >>),
    Clause("run", << <<"--fail-fast">>, <<"--only", "a,b">>, <<"--repeat", "x">> >>),
    Clause("run", << <<"--repeat", "2">>, <<"--repeat", "-1">> >>),
    Clause("run", << <<"--help">> >>),
    Clause("filter", << <<"--tag", "slow">>, <<"--test-name", "sort">> >>),
    Clause("filter", << <<"--suite-name", "--help">> >>),
    Clause("sort", << <<"--order", "desc">> >>),
    Clause("shuffle", << <<"--count", "2">>, <<"--seed", "2">> >>),
    Clause("show", << <<"--mode", "tree">> >>),
    Clause("show", << <<"--result", "pass">>, <<"--tag", "slow">>, <<"--test-name", "a">>,
                      <<"--suite-name", "s">>, <<"--tag", "desc">> >>),
    Clause("report", << <<"--format", "json">> >>),
    Clause("report", << <<"--destination", "report">> >>),
    Clause("info", << <<"--self">>, <<"--os">> >>),
    Clause("info", << <<"--arch">> >>),
    Clause("theme", << <<"dark">> >>),
    Clause("color", << <<"auto">> >>),
    Clause("color", << <<"disable">> >>),
    Clause("help", << >>) }

Bad ==
  { Clause("rnu", << >>), Clause("--bogus", << >>), Clause("-v", << >>),
    Clause("help", << <<"rnu">> >>), Clause("theme", << >>),
    Clause("theme", << <<"blue">> >>), Clause("color", << >>),
    Clause("run", << <<"--repeat">> >>), Clause("sort", << <<"--bogus">> >>) }

\* A documented line, of whose two options neither does what it should.
OptionLines ==
  {<< Clause("run", << <<"--only", "a">> >>), Clause("show", << <<"--tag", "slow">> >>) >>}

MCLines == UNION {[1 .. n -> Good \cup Bad] : n \in 0 .. 3}

\* What a word without digits gives is 0.
MCAtoi(w) == CASE w = "2" -> 2 [] w = "-1" -> -1 [] OTHER -> 0
MCSplit(w) == IF w = "a,b" THEN << "a", "b" >> ELSE << w >>

MCCases ==
  [name : {"a", "sort"}, suite : {"s", "run"}, tags : {{}, {"slow"}, {"slow", "desc"}},
   result : {"pass", "fail"}]

MCDashWords ==
  {t[2] : t \in Valued \cup Switches} \cup
  {"--skip", "--help", "-h", "--version", "-v", "--bogus", "-1"}

=============================================================================
