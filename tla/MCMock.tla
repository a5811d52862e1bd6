------------------------------- MODULE MCMock -------------------------------
(* Small instances of Mock.                                                *)
EXTENDS Mock

CONSTANTS f, text, label, info, AI_NULL, NoNotesText, NULL, node

Functions == {f}
Arg(string, data, name, description, id) ==
  [isString |-> string, data |-> data, name |-> name, description |-> description, id |-> id]
Arguments1 == {Arg(TRUE, NULL, label, NULL, NULL), Arg(TRUE, text, NULL, NULL, label),
               Arg(FALSE, text, NULL, label, NULL)}
Contexts == {[context_info |-> info, expected_behavior |-> NULL, ai_notes |-> NULL]}

=============================================================================
