------------------------------ MODULE CString -------------------------------
(***************************************************************************)
(* The C string functions of src/code/logic/common.c, as functions of what *)
(* they are given.  A string is a sequence of characters; positions count  *)
(* from 0, as in the code.  Each function answers null, false or 0 to a    *)
(* null argument before anything else, and an allocation that fails gives  *)
(* null: the definitions say what the others give.                         *)
(***************************************************************************)
EXTENDS Integers, Sequences, FiniteSets
Library == INSTANCE SequencesExt

CONSTANTS
  Space,   \* the characters for which isspace holds
  NoString \* the null pointer

\* The count characters from position i on, as far as the string goes.
Piece(s, i, count) == SubSeq(s, i + 1, Library!Min({i + count, Len(s)}))

At(s, t, i) == Piece(s, i, Len(t)) = t

Occurrences(s, t) == {i \in 0 .. Len(s) - Len(t) : At(s, t, i)}

Concat(s, t) == s \o t

StartsWith(s, t) == Len(t) <= Len(s) /\ At(s, t, 0)

EndsWith(s, t) == Len(t) <= Len(s) /\ At(s, t, Len(s) - Len(t))

ContainsString(s, t) == Occurrences(s, t) # {}

Reversed(s) == [i \in 1 .. Len(s) |-> s[Len(s) - i + 1]]

Substring(s, start, length) ==
  IF start >= Len(s) THEN NoString ELSE Piece(s, start, length)

Repeat(s, count) ==
  IF count = 0 THEN NoString
  ELSE [i \in 1 .. count * Len(s) |-> s[((i - 1) % Len(s)) + 1]]

Padding(s, total, ch) == [i \in 1 .. total - Len(s) |-> ch]

PadLeft(s, total, ch) == IF total = 0 THEN NoString ELSE Padding(s, total, ch) \o s

PadRight(s, total, ch) == IF total = 0 THEN NoString ELSE s \o Padding(s, total, ch)

\* Whether src is appended to dest in a buffer of max characters, the last of
\* which terminates.
Appends(dest, max, src) == Len(dest) < max /\ Len(dest) + Len(src) < max

-----------------------------------------------------------------------------
(* The loops.                                                              *)

\* Mutant of Trimmed: end is taken for the position behind the last character.
TrimmedShort(s, chars) ==
  LET start == Library!Min({i \in 0 .. Len(s) : i = Len(s) \/ s[i + 1] \notin chars})
      end == Library!Max({i \in 0 .. Len(s) - 1 : i <= start \/ s[i + 1] \notin chars})
  IN  Piece(s, start, end - start)

\* Trimming the empty string reads the character before it: no caller may.
Trimmed(s, chars) ==
  LET start == Library!Min({i \in 0 .. Len(s) : i = Len(s) \/ s[i + 1] \notin chars})
      end == Library!Max({i \in 0 .. Len(s) - 1 : i <= start \/ s[i + 1] \notin chars})
  IN  Piece(s, start, end - start + 1)

Trim(s) == Trimmed(s, Space)

Strip(s, ch) == Trimmed(s, {ch})

\* Mutant of CountOf: it goes on one character after a match.
CountOverlapping(s, t) == Cardinality(Occurrences(s, t))

\* An empty t is found for ever at the same place: no caller may ask.
CountOf(s, t) ==
  LET from[i \in 0 .. Len(s)] ==
        LET next == {j \in Occurrences(s, t) : j >= i}
        IN  IF next = {} THEN 0 ELSE 1 + from[Library!Min(next) + Len(t)]
  IN  from[0]

\* The buffer is measured by a first scan, and filled by a second.  The first is
\* the loop of maip_io_cstr_count once more, so CountOf stands for both.
Measured(s, old, new) == Len(s) + CountOf(s, old) * (Len(new) - Len(old))

Replace(s, old, new) ==
  LET from[i \in 0 .. Len(s)] ==
        IF i = Len(s) THEN << >>
        ELSE IF At(s, old, i) THEN new \o from[i + Len(old)]
        ELSE << s[i + 1] >> \o from[i + 1]
  IN  from[0]

\* The characters of s other than ch, and the pieces one after the other.
Without(s, ch) ==
  LET from[i \in 0 .. Len(s)] ==
        IF i = Len(s) THEN << >>
        ELSE IF s[i + 1] = ch THEN from[i + 1]
        ELSE << s[i + 1] >> \o from[i + 1]
  IN  from[0]

Flattened(pieces) == Library!FlattenSeq(pieces)

\* Where the piece that begins at start ends: at a delimiter, or with the string.
EndOf(s, ch, start) == Library!Min({i \in start .. Len(s) : i = Len(s) \/ s[i + 1] = ch})

\* Mutant of Split: a piece keeps the delimiter it ends at.
SplitKeeping(s, ch) ==
  LET from[start \in 0 .. Len(s)] ==
        LET end == EndOf(s, ch, start)
        IN  << Piece(s, start, end - start + 1) >>
            \o IF end = Len(s) THEN << >> ELSE from[end + 1]
  IN  from[0]

Split(s, ch) ==
  LET from[start \in 0 .. Len(s)] ==
        LET end == EndOf(s, ch, start)
        IN  << Piece(s, start, end - start) >>
            \o IF end = Len(s) THEN << >> ELSE from[end + 1]
  IN  from[0]

=============================================================================
