----------------------------- MODULE MCSuggest ------------------------------
(***************************************************************************)
(* The commands of CMD_MAP, and every word of up to four letters out of    *)
(* four that make it near to several of them.                              *)
(***************************************************************************)
EXTENDS Suggest

MCLetter ==
  {"c", "e", "f", "h", "i", "l", "m", "n", "o", "p", "r", "s", "t", "u", "w"}

MCCandidates ==
  << << "r", "u", "n" >>,
     << "f", "i", "l", "t", "e", "r" >>,
     << "s", "o", "r", "t" >>,
     << "s", "h", "u", "f", "f", "l", "e" >>,
     << "s", "h", "o", "w" >>,
     << "r", "e", "p", "o", "r", "t" >>,
     << "h", "e", "l", "p" >>,
     << "c", "o", "l", "o", "r" >>,
     << "t", "h", "e", "m", "e" >>,
     << "i", "n", "f", "o" >> >>

MCInputs == UNION {[1 .. n -> {"r", "u", "s", "o"}] : n \in 0 .. 4}

=============================================================================
