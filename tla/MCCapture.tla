----------------------------- MODULE MCCapture ------------------------------
(* Small instances of Capture.                                             *)
EXTENDS Capture

Sizes == {1, 3}

=============================================================================
