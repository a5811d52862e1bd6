------------------------------- MODULE Capture ------------------------------
(***************************************************************************)
(* Capturing what a function prints (src/code/logic/mock.c,                *)
(* fossil_mock_capture_output), with the C library's buffer of stdout, the *)
(* open files and the way an assertion that fails leaves the function:     *)
(* the runner's jump skips the rest of the capture.  The function may      *)
(* capture the output of another.                                          *)
(*                                                                         *)
(* What is printed is a sequence of bytes, each of them a number of its    *)
(* own.  Descriptor 1 refers to the terminal or to a temporary file, and   *)
(* temporary files are numbered in the order they are made.                *)
(***************************************************************************)
EXTENDS Integers, Sequences, FiniteSets

CONSTANTS
  Size,        \* sizes of the caller's buffer
  MaxPrinted,  \* bound on the bytes printed
  MaxFiles     \* bound on the captures that get a temporary file

ASSUME SizeAssumption == Size \subseteq Nat \ {0}
ASSUME BoundsAssumption == MaxPrinted \in Nat /\ MaxFiles \in Nat

Terminal == 0
File == Terminal .. MaxFiles

VARIABLES
  stdout,    \* what descriptor 1 refers to
  pending,   \* what is in the buffer of stdout
  content,   \* what was written to the terminal and to each file
  frames,    \* the captures going on: [file, saved, size], the innermost first
  opened,    \* files and saved descriptors that are open
  made,      \* temporary files made
  printed,   \* bytes printed
  captured,  \* what the last capture returned
  printedTo, \* the bytes printed while a file was stdout (not in the code)
  aborted    \* captures that were left by a jump (not in the code)

vars == << stdout, pending, content, frames, opened, made, printed, captured, printedTo, aborted >>

Temporary(n) == << "file", n >>
Saved(n) == << "copy", n >>
Both(n) == {Temporary(n), Saved(n)}

Init ==
  /\ stdout = Terminal
  /\ pending = << >>
  /\ content = [f \in File |-> << >>]
  /\ frames = << >>
  /\ opened = {}
  /\ made = 0
  /\ printed = 0
  /\ captured = [file |-> Terminal, size |-> 1, text |-> << >>]
  /\ printedTo = [f \in File |-> << >>]
  /\ aborted = {}

-----------------------------------------------------------------------------
(* The C library                                                           *)

\* The buffer is written to what descriptor 1 refers to.
Flushed == [content EXCEPT ![stdout] = @ \o pending]

Put ==
  /\ printed < MaxPrinted
  /\ printed' = printed + 1
  /\ pending' = Append(pending, printed')
  /\ printedTo' = [printedTo EXCEPT ![stdout] = Append(@, printed')]

Output ==
  /\ Put
  /\ UNCHANGED << stdout, content, frames, opened, made, captured, aborted >>

\* The library may empty the buffer whenever it likes.
Flush ==
  /\ pending # << >>
  /\ content' = Flushed
  /\ pending' = << >>
  /\ UNCHANGED << stdout, frames, opened, made, printed, captured, printedTo, aborted >>

-----------------------------------------------------------------------------
(* fossil_mock_capture_output                                              *)

\* Mutant of Begin: the buffer is not flushed before stdout is redirected.
BeginUnflushed(size) ==
  /\ made < MaxFiles
  /\ made' = made + 1
  /\ opened' = opened \cup Both(made')
  /\ frames' = << [file |-> made', saved |-> stdout, size |-> size] >> \o frames
  /\ stdout' = made'
  /\ UNCHANGED << pending, content, printed, captured, printedTo, aborted >>

Begin(size) ==
  /\ made < MaxFiles
  /\ made' = made + 1
  /\ opened' = opened \cup Both(made')
  /\ content' = Flushed
  /\ pending' = << >>
  /\ frames' = << [file |-> made', saved |-> stdout, size |-> size] >> \o frames
  /\ stdout' = made'
  /\ UNCHANGED << printed, captured, printedTo, aborted >>

\* tmpfile or dup fails: what was opened is closed.
NotOpened == made < MaxFiles /\ UNCHANGED vars

\* Mutant of NotRedirected: the saved descriptor stays open.
NotRedirectedNorClosed ==
  /\ made < MaxFiles
  /\ made' = made + 1
  /\ opened' = opened \cup {Saved(made')}
  /\ content' = Flushed
  /\ pending' = << >>
  /\ UNCHANGED << stdout, frames, printed, captured, printedTo, aborted >>

\* dup2 fails, after the buffer was flushed.
NotRedirected ==
  /\ made < MaxFiles
  /\ made' = made + 1
  /\ content' = Flushed
  /\ pending' = << >>
  /\ UNCHANGED << stdout, frames, opened, printed, captured, printedTo, aborted >>

Least(a, b) == IF a < b THEN a ELSE b

\* Mutant of Read: one byte too many is read.
ReadTooMuch(text, size) == SubSeq(text, 1, Least(size, Len(text)))

\* fread of at most size - 1 bytes, from the start of the file.
Read(text, size) == SubSeq(text, 1, Least(size - 1, Len(text)))

\* The function returns: stdout is flushed and restored, the file is read.  The
\* result of the dup2 that restores it is not looked at; it is taken to succeed,
\* as it does between two descriptors that are open.
End ==
  LET top == Head(frames)
  IN  /\ frames # << >>
      /\ content' = Flushed
      /\ pending' = << >>
      /\ stdout' = top.saved
      /\ opened' = opened \ Both(top.file)
      /\ captured' = [file |-> top.file, size |-> top.size,
                      text |-> Read(content'[top.file], top.size)]
      /\ frames' = Tail(frames)
      /\ UNCHANGED << made, printed, printedTo, aborted >>

\* An assertion fails in the function (test.c:2280): its message is
\* printed, and the runner's longjmp leaves all captures as they are.
Abort ==
  /\ frames # << >>
  /\ Put
  /\ frames' = << >>
  /\ aborted' = aborted \cup {frames[n].file : n \in DOMAIN frames}
  /\ UNCHANGED << stdout, content, opened, made, captured >>

\* The program has printed all it prints and ends.
Done == printed = MaxPrinted /\ made = MaxFiles /\ frames = << >> /\ UNCHANGED vars

Next ==
  \/ Output \/ Flush
  \/ \E size \in Size : Begin(size)
  \/ NotOpened \/ NotRedirected \/ End \/ Abort \/ Done

Spec == Init /\ [][Next]_vars

-----------------------------------------------------------------------------
(* Properties                                                              *)

\* Wherever the library empties its buffer and however captures are nested,
\* fail (mock.c:312-328) or are left by a jump, a byte goes where stdout was
\* when it was printed, and the bytes arrive there in order.
TextStaysInItsPlace ==
  \A f \in File :
    printedTo[f] = IF f = stdout THEN content[f] \o pending ELSE content[f]

\* What a capture returns is what the function printed itself, up to the size
\* of the buffer less one for the end of the string, and nothing that was
\* printed before the capture or captured inside it.
CapturedIsPrinted ==
  captured.file # Terminal =>
    captured.text = SubSeq(printedTo[captured.file], 1,
                           Least(captured.size - 1, Len(printedTo[captured.file])))

\* Every capture that fails or returns closes what it opened and puts stdout
\* back.  Only one that a jump left (mock.c:329) keeps its two descriptors,
\* and stdout in its file: what is printed afterwards, the message of the
\* assertion first, does not reach the terminal any more.
StdoutIsRestored ==
  /\ opened = UNION {Both(f) : f \in aborted \cup {frames[n].file : n \in DOMAIN frames}}
  /\ frames = << >> => stdout \in aborted \cup {Terminal}
  /\ stdout = Terminal <=> frames = << >> /\ aborted = {}

=============================================================================
