------------------------------ MODULE MCRunner ------------------------------
(***************************************************************************)
(* Instances of Runner for TLC.  "core" has a suite of two cases, an empty *)
(* suite and a suite of one; "cases" has one suite of three cases, which   *)
(* is what it takes to tell filtering, sorting and shuffling apart.        *)
(***************************************************************************)
EXTENDS Runner, TLC

CONSTANTS c1, c2, c3

\* The pallet of a command line without commands: all zeros.
Plain == [only |-> Null, skip |-> Null, repeat |-> 0, fail_fast |-> FALSE,
          test_name |-> Null, name |-> Null, tag |-> Null,
          sort_by |-> Null, sort_desc |-> FALSE, shuffle_by |-> Null]

\* After the commands run and filter, with the defaults these set.
Run == [Plain EXCEPT !.repeat = 1]
Filter == [Plain EXCEPT !.tag = "fossil"]

CoreRegistered == << <<c1, c2>>, << >>, <<c3>> >>
OrderRegistered == << <<c1, c2, c3>> >>
FixtureRegistered == << <<c1>>, <<c2>> >>

MCName == c1 :> 1 @@ c2 :> 2 @@ c3 :> 3
MCPriority == c1 :> 0 @@ c2 :> -1 @@ c3 :> 0
MCTags == c1 :> {"fossil", "slow"} @@ c2 :> {"fossil"} @@ c3 :> {"fossil"}

CorePallets ==
  { Plain,
    [Run EXCEPT !.repeat = 2],
    [Run EXCEPT !.repeat = 2, !.fail_fast = TRUE],
    [Run EXCEPT !.repeat = -1, !.skip = 1],
    [Run EXCEPT !.only = 2],
    [Run EXCEPT !.tag = "slow", !.fail_fast = TRUE] }

OrderPallets ==
  { [Plain EXCEPT !.shuffle_by = "name"],
    [Filter EXCEPT !.shuffle_by = "priority", !.test_name = 2],
    [Filter EXCEPT !.shuffle_by = "name", !.tag = "slow"],
    [Filter EXCEPT !.sort_by = "result", !.shuffle_by = "unknown", !.skip = 3],
    [Filter EXCEPT !.sort_by = "priority", !.sort_desc = TRUE, !.name = 1] }

CasePallets == CorePallets \cup OrderPallets

FixturePallets ==
  { [Run EXCEPT !.repeat = 2], [Run EXCEPT !.repeat = 2, !.fail_fast = TRUE] }

TagPallets == {[Filter EXCEPT !.tag = "slow"]}

=============================================================================
