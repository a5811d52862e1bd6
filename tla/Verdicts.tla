------------------------------ MODULE Verdicts ------------------------------
(***************************************************************************)
(* What a test run promises, whatever happens inside the tests: the suites *)
(* are judged one after the other; a case gets at most one verdict, while  *)
(* its suite is being judged, and keeps it; and when a suite is closed,    *)
(* the board grows by the census of its verdicts.  Cases found EMPTY have  *)
(* a verdict but are not on the board.                                     *)
(***************************************************************************)
EXTENDS Score, FiniteSets

CONSTANTS
  Case,
  Groups     \* Groups[s]: the cases of suite s

NGroups == Len(Groups)

VARIABLES
  verdict,   \* verdict[c]: the outcome of c, or "pending"
  open,      \* the suite being judged
  board      \* the engine's score

vars == << verdict, open, board >>

Census(s) ==
  [v \in CaseState |->
     IF v = "EMPTY" THEN 0 ELSE Cardinality({c \in Groups[s] : verdict[c] = v})]

Init ==
  /\ verdict = [c \in Case |-> "pending"]
  /\ open = 1
  /\ board = [v \in CaseState |-> 0]

Judge(c, v) ==
  /\ open \in 1 .. NGroups
  /\ c \in Groups[open]
  /\ verdict[c] = "pending"
  /\ verdict' = [verdict EXCEPT ![c] = v]
  /\ UNCHANGED << open, board >>

Close ==
  /\ open \in 1 .. NGroups
  /\ board' = [v \in CaseState |-> board[v] + Census(open)[v]]
  /\ open' = open + 1
  /\ UNCHANGED verdict

Next == Close \/ \E c \in Case, v \in CaseState : Judge(c, v)

Spec == Init /\ [][Next]_vars

=============================================================================
