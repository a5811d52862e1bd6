------------------------------- MODULE CallLog ------------------------------
(***************************************************************************)
(* What a list of mock calls promises: it is the sequence of the calls     *)
(* that the test asked it to record, each as it was given but for what     *)
(* got lost on the way.  A request may be given up, and then leaves the    *)
(* log as it was.  This is the abstract specification that Mock            *)
(* implements.                                                             *)
(***************************************************************************)
EXTENDS Integers, Sequences

CONSTANTS
  Calls,             \* the calls a test makes
  Parts(_),          \* the parts of a call that may get lost
  Recordings(_, _),  \* what may be recorded of a call that lost these parts
  None

VARIABLES
  log,
  request  \* the call being recorded and the parts lost, [call, lost], or None

Init == log = << >> /\ request = None

Ask ==
  /\ request = None
  /\ \E c \in Calls : request' = [call |-> c, lost |-> {}]
  /\ UNCHANGED log

Lose ==
  /\ request # None
  /\ \E n \in Parts(request.call) : request' = [request EXCEPT !.lost = @ \cup {n}]
  /\ UNCHANGED log

GiveUp == request # None /\ request' = None /\ UNCHANGED log

Record ==
  /\ request # None
  /\ \E r \in Recordings(request.call, request.lost) : log' = Append(log, r)
  /\ request' = None

Clear == request = None /\ log' = << >> /\ UNCHANGED request

Spec == Init /\ [][Ask \/ Lose \/ GiveUp \/ Record \/ Clear]_<< log, request >>

=============================================================================
