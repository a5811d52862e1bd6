---------------------------- MODULE CaptureProofs ---------------------------
(***************************************************************************)
(* Proofs about Capture for every number of bytes and of captures.  That a *)
(* byte stays in its place is inductive together with the types: a step    *)
(* that moves stdout has emptied the buffer.  That stdout is restored      *)
(* needs the shape of the captures going on (FramesInv): each saved what   *)
(* was stdout, the file of the one around it, and all have their own file. *)
(* That what was captured stays true needs both.                           *)
(***************************************************************************)
EXTENDS Capture, SequenceTheorems, TLAPS

Frame == [file : File \ {Terminal}, saved : File, size : Nat \ {0}]

TypeInv ==
  /\ stdout \in File
  /\ pending \in Seq(Nat)
  /\ content \in [File -> Seq(Nat)]
  /\ printedTo \in [File -> Seq(Nat)]
  /\ frames \in Seq(Frame)
  /\ printed \in Nat
  /\ made \in File

TextInv == TypeInv /\ TextStaysInItsPlace

-----------------------------------------------------------------------------
\* The descriptors are numbers, the first of them the terminal.
LEMMA FileNumbers == File = 0 .. MaxFiles /\ Terminal \in File
BY BoundsAssumption DEF File, Terminal

\* A buffer that was emptied onto stdout leaves every byte in its place,
\* wherever stdout is then.
LEMMA FlushKeepsPlaces ==
  ASSUME TextInv, content' = Flushed, pending' = << >>, printedTo' = printedTo,
         stdout' \in File
  PROVE  /\ content' \in [File -> Seq(Nat)] /\ pending' \in Seq(Nat)
         /\ TextStaysInItsPlace'
<1>1. content' \in [File -> Seq(Nat)] BY DEF TextInv, TypeInv, Flushed
<1>2. pending' \in Seq(Nat) OBVIOUS
<1>3. ASSUME NEW f \in File PROVE printedTo'[f] = content'[f]
  BY <1>3 DEF TextInv, TypeInv, Flushed, TextStaysInItsPlace
<1>4. ASSUME NEW f \in File PROVE content'[f] \o pending' = content'[f]
  BY <1>1
<1> QED BY <1>1, <1>2, <1>3, <1>4 DEF TextStaysInItsPlace

\* A byte is put in the buffer.
LEMMA PutKeepsPlaces ==
  ASSUME TextInv, Put, stdout' = stdout, content' = content
  PROVE  /\ pending' \in Seq(Nat) /\ printedTo' \in [File -> Seq(Nat)] /\ printed' \in Nat
         /\ TextStaysInItsPlace'
<1>1. printed' \in Nat /\ pending' = Append(pending, printed')
      /\ printedTo' = [printedTo EXCEPT ![stdout] = Append(@, printed')]
  BY DEF Put, TextInv, TypeInv
<1>2. pending' \in Seq(Nat) /\ printedTo' \in [File -> Seq(Nat)]
  BY <1>1 DEF TextInv, TypeInv
<1>3. ASSUME NEW f \in File, f # stdout PROVE printedTo'[f] = content'[f]
  BY <1>1, <1>3 DEF TextInv, TypeInv, TextStaysInItsPlace
<1>4. printedTo'[stdout] = content'[stdout] \o pending'
  <2>1. printedTo'[stdout] = Append(content[stdout] \o pending, printed')
    BY <1>1 DEF TextInv, TypeInv, TextStaysInItsPlace
  <2>2. ASSUME NEW s \in Seq(Nat), NEW t \in Seq(Nat), NEW n \in Nat
        PROVE  Append(s \o t, n) = s \o Append(t, n)
    <3>1. Append(s \o t, n) = (s \o t) \o << n >> BY AppendIsConcat, ConcatProperties
    <3>2. Append(t, n) = t \o << n >> BY AppendIsConcat
    <3>3. (s \o t) \o << n >> = s \o (t \o << n >>) BY ConcatAssociative
    <3> QED BY <3>1, <3>2, <3>3
  <2>3. content[stdout] \in Seq(Nat) /\ pending \in Seq(Nat) BY DEF TextInv, TypeInv
  <2> QED BY <1>1, <2>1, <2>2, <2>3
<1> QED BY <1>1, <1>2, <1>3, <1>4 DEF TextStaysInItsPlace

\* Printing, redirecting and putting back keep every byte where stdout was
\* when it was printed.
LEMMA TextStep == TextInv /\ [Next]_vars => TextInv'
<1> SUFFICES ASSUME TextInv, [Next]_vars PROVE TextInv' OBVIOUS
<1>0. TypeInv BY DEF TextInv
<1>1. CASE Output
  <2>1. Put /\ UNCHANGED << stdout, content, frames, made >> BY <1>1 DEF Output
  <2> QED BY <2>1, <1>0, PutKeepsPlaces DEF TextInv, TypeInv
<1>2. CASE Flush
  <2>1. /\ content' = Flushed /\ pending' = << >> /\ printedTo' = printedTo
        /\ UNCHANGED << stdout, frames, made, printed >>
    BY <1>2 DEF Flush
  <2>2. stdout' \in File BY <2>1, <1>0 DEF TypeInv
  <2> QED BY <2>1, <2>2, <1>0, FlushKeepsPlaces DEF TextInv, TypeInv
<1>3. ASSUME NEW size \in Size, Begin(size) PROVE TextInv'
  <2>1. /\ content' = Flushed /\ pending' = << >> /\ printedTo' = printedTo
        /\ stdout' = made' /\ made' = made + 1 /\ made < MaxFiles /\ printed' = printed
        /\ frames' = << [file |-> made', saved |-> stdout, size |-> size] >> \o frames
    BY <1>3 DEF Begin
  <2>2. made' \in File \ {Terminal} /\ stdout' \in File
    BY <2>1, <1>0, BoundsAssumption DEF TypeInv, File, Terminal
  <2>3. [file |-> made', saved |-> stdout, size |-> size] \in Frame
    BY <2>2, <1>0, SizeAssumption DEF Frame, TypeInv
  <2>4. frames' \in Seq(Frame) BY <2>1, <2>3, <1>0 DEF TypeInv
  <2> QED BY <2>1, <2>2, <2>4, <1>0, FlushKeepsPlaces DEF TextInv, TypeInv
<1>4. CASE NotRedirected
  <2>1. /\ content' = Flushed /\ pending' = << >> /\ printedTo' = printedTo
        /\ UNCHANGED << stdout, frames, printed >> /\ made' = made + 1 /\ made < MaxFiles
    BY <1>4 DEF NotRedirected
  <2>2. stdout' \in File /\ made' \in File
    BY <2>1, <1>0, BoundsAssumption DEF TypeInv, File, Terminal
  <2> QED BY <2>1, <2>2, <1>0, FlushKeepsPlaces DEF TextInv, TypeInv
<1>5. CASE End
  <2>1. /\ content' = Flushed /\ pending' = << >> /\ printedTo' = printedTo
        /\ stdout' = Head(frames).saved /\ frames' = Tail(frames) /\ frames # << >>
        /\ UNCHANGED << made, printed >>
    BY <1>5 DEF End
  <2>2. Head(frames) \in Frame /\ Tail(frames) \in Seq(Frame) BY <2>1, <1>0 DEF TypeInv
  <2>3. stdout' \in File BY <2>1, <2>2 DEF Frame
  <2> QED BY <2>1, <2>2, <2>3, <1>0, FlushKeepsPlaces DEF TextInv, TypeInv
<1>6. CASE Abort
  <2>1. Put /\ frames' = << >> /\ UNCHANGED << stdout, content, made >> BY <1>6 DEF Abort
  <2>2. frames' \in Seq(Frame) BY <2>1
  <2> QED BY <2>1, <2>2, <1>0, PutKeepsPlaces DEF TextInv, TypeInv
<1>7. CASE UNCHANGED vars BY <1>7 DEF vars, TextInv, TypeInv, TextStaysInItsPlace
<1>8. NotOpened \/ Done => UNCHANGED vars BY DEF NotOpened, Done
<1> QED BY <1>1, <1>2, <1>3, <1>4, <1>5, <1>6, <1>7, <1>8 DEF Next

\* So this holds throughout.
LEMMA TextInvariance == Spec => []TextInv
<1>1. Init => TextInv
  <2> SUFFICES ASSUME Init PROVE TextInv OBVIOUS
  <2>0. << >> \in Seq(Nat) /\ << >> \in Seq(Frame) OBVIOUS
  <2>1. TypeInv
    <3>1. stdout \in File /\ made \in File /\ printed \in Nat
      BY FileNumbers DEF Init, Terminal
    <3>2. pending \in Seq(Nat) /\ frames \in Seq(Frame) BY <2>0 DEF Init
    <3>3. content \in [File -> Seq(Nat)] /\ printedTo \in [File -> Seq(Nat)]
      BY <2>0, Zenon DEF Init
    <3> QED BY <3>1, <3>2, <3>3 DEF TypeInv
  <2>2. ASSUME NEW f \in File
        PROVE  printedTo[f] = << >> /\ content[f] = << >> /\ pending = << >>
    BY DEF Init
  <2>3. << >> \o << >> = << >> OBVIOUS
  <2>4. TextStaysInItsPlace BY <2>2, <2>3 DEF TextStaysInItsPlace
  <2> QED BY <2>1, <2>4 DEF TextInv
<1> QED BY <1>1, TextStep, PTL DEF Spec

\* However captures are nested, fail, return or are left by a jump, and
\* whenever the library empties its buffer, a byte goes where stdout was when
\* it was printed, in order.
THEOREM TextStaysInItsPlaceHolds == Spec => []TextStaysInItsPlace
<1>1. TextInv => TextStaysInItsPlace BY DEF TextInv
<1> QED BY TextInvariance, <1>1, PTL

-----------------------------------------------------------------------------
(* The captures going on                                                   *)

\* What stdout is outside of all captures, when those of lost were left.
Outside(f, lost) == f \in lost \cup {Terminal} /\ (f = Terminal <=> lost = {})

Live == {frames[n].file : n \in DOMAIN frames}

FramesInv ==
  /\ aborted \subseteq 1 .. made
  /\ \A n \in 1 .. Len(frames) : frames[n].file \in (1 .. made) \ aborted
  /\ \A m, n \in 1 .. Len(frames) : m < n => frames[n].file < frames[m].file
  /\ \A n \in 1 .. Len(frames) - 1 : frames[n].saved = frames[n + 1].file
  /\ Len(frames) = 0 => Outside(stdout, aborted)
  /\ Len(frames) # 0 => stdout = frames[1].file /\ Outside(frames[Len(frames)].saved, aborted)
  /\ opened = UNION {Both(f) : f \in aborted \cup Live}

\* What the steps below need of the types: the captures going on are frames,
\* numbered from the innermost.
LEMMA FramesTyped ==
  ASSUME TypeInv
  PROVE  /\ Len(frames) \in Nat /\ DOMAIN frames = 1 .. Len(frames)
         /\ \A n \in 1 .. Len(frames) : frames[n] \in Frame
         /\ frames = << >> <=> Len(frames) = 0
         /\ made \in Nat /\ File = 0 .. MaxFiles /\ Terminal = 0 /\ MaxFiles \in Nat
BY BoundsAssumption DEF TypeInv, File, Terminal

\* The descriptors of different captures differ.
LEMMA BothDiffer ==
  ASSUME NEW f, NEW g, f # g
  PROVE  Both(f) \cap Both(g) = {}
BY DEF Both, Temporary, Saved

\* A capture takes two descriptors nobody holds.
LEMMA FramesBegin ==
  ASSUME TypeInv, FramesInv, NEW size \in Size, Begin(size)
  PROVE  FramesInv'
<1> DEFINE new == [file |-> made', saved |-> stdout, size |-> size]
           L == Len(frames)
<1>0. /\ L \in Nat /\ made \in Nat /\ DOMAIN frames = 1 .. L
      /\ frames \in Seq(Frame) /\ Terminal = 0
  BY FramesTyped DEF TypeInv
<1>1. /\ made' = made + 1 /\ opened' = opened \cup Both(made')
      /\ frames' = << new >> \o frames /\ stdout' = made' /\ aborted' = aborted
  BY DEF Begin
<1>2. /\ Len(frames') = L + 1 /\ DOMAIN frames' = 1 .. L + 1 /\ frames'[1] = new
      /\ \A n \in 2 .. L + 1 : frames'[n] = frames[n - 1]
  BY <1>0, <1>1
<1>3. /\ new.file = made + 1 /\ new.saved = stdout BY <1>1
<1> HIDE DEF new, L
<1>4. aborted' \subseteq 1 .. made' BY <1>0, <1>1 DEF FramesInv
<1>5. \A n \in 1 .. L : frames[n].file \in (1 .. made) \ aborted BY DEF FramesInv, L
<1>6. made' \notin aborted BY <1>0, <1>1 DEF FramesInv
<1>7. \A n \in 1 .. L + 1 : frames'[n].file \in (1 .. made') \ aborted'
  <2> TAKE n \in 1 .. L + 1
  <2>1. CASE n = 1 BY <2>1, <1>0, <1>1, <1>2, <1>3, <1>6
  <2>2. CASE n # 1
    <3>1. n \in 2 .. L + 1 /\ n - 1 \in 1 .. L BY <2>2, <1>0
    <3> QED BY <3>1, <1>0, <1>1, <1>2, <1>5
  <2> QED BY <2>1, <2>2
<1>8. \A m, n \in 1 .. L + 1 : m < n => frames'[n].file < frames'[m].file
  <2> SUFFICES ASSUME NEW m \in 1 .. L + 1, NEW n \in 1 .. L + 1, m < n
               PROVE  frames'[n].file < frames'[m].file
    OBVIOUS
  <2>1. n \in 2 .. L + 1 /\ n - 1 \in 1 .. L /\ frames'[n] = frames[n - 1] BY <1>0, <1>2
  <2>2. CASE m = 1 BY <2>1, <2>2, <1>0, <1>2, <1>3, <1>5
  <2>3. CASE m # 1
    <3>1. m - 1 \in 1 .. L /\ m - 1 < n - 1 /\ frames'[m] = frames[m - 1]
      BY <2>3, <1>0, <1>2
    <3> QED BY <2>1, <3>1 DEF FramesInv, L
  <2> QED BY <2>2, <2>3
<1>9. \A n \in 1 .. L : frames'[n].saved = frames'[n + 1].file
  <2> TAKE n \in 1 .. L
  <2>1. n + 1 \in 2 .. L + 1 /\ frames'[n + 1] = frames[n] BY <1>0, <1>2
  <2>2. CASE n = 1 BY <2>1, <2>2, <1>0, <1>2, <1>3 DEF FramesInv, L
  <2>3. CASE n # 1
    <3>1. n \in 2 .. L + 1 /\ frames'[n] = frames[n - 1] /\ n - 1 \in 1 .. L - 1
      BY <2>3, <1>0, <1>2
    <3>2. frames[n - 1].saved = frames[(n - 1) + 1].file BY <3>1 DEF FramesInv, L
    <3> QED BY <2>1, <3>1, <3>2, <1>0
  <2> QED BY <2>2, <2>3
<1>10. Outside(frames'[L + 1].saved, aborted')
  <2>1. CASE L = 0 BY <2>1, <1>1, <1>2, <1>3 DEF FramesInv, Outside, L
  <2>2. CASE L # 0
    <3>1. L + 1 \in 2 .. L + 1 /\ frames'[L + 1] = frames[L] BY <2>2, <1>0, <1>2
    <3> QED BY <2>2, <3>1, <1>1 DEF FramesInv, Outside, L
  <2> QED BY <2>1, <2>2
<1>11. Live' = Live \cup {made'}
  <2>1. ASSUME NEW n \in 1 .. L PROVE frames[n].file \in Live'
    <3>1. n + 1 \in 1 .. L + 1 /\ frames'[n + 1] = frames[n] BY <1>0, <1>2
    <3> QED BY <3>1, <1>2 DEF Live
  <2>2. made' \in Live'
    <3>1. 1 \in DOMAIN frames' /\ frames'[1].file = made' BY <1>0, <1>1, <1>2, <1>3
    <3> QED BY <3>1 DEF Live
  <2>3. ASSUME NEW n \in 1 .. L + 1 PROVE frames'[n].file \in Live \cup {made'}
    <3>1. CASE n = 1 BY <3>1, <1>1, <1>2, <1>3
    <3>2. CASE n # 1
      <4>1. n - 1 \in DOMAIN frames /\ frames'[n] = frames[n - 1] BY <3>2, <1>0, <1>2
      <4> QED BY <4>1 DEF Live
    <3> QED BY <3>1, <3>2
  <2> QED BY <2>1, <2>2, <2>3, <1>0, <1>2 DEF Live
<1>12. opened' = UNION {Both(f) : f \in aborted' \cup Live'}
  BY <1>1, <1>11 DEF FramesInv
<1>13. Len(frames') # 0 /\ stdout' = frames'[1].file /\ (L + 1) - 1 = L
  BY <1>0, <1>1, <1>2, <1>3
<1> QED BY <1>2, <1>4, <1>7, <1>8, <1>9, <1>10, <1>12, <1>13 DEF FramesInv

\* The end of a capture closes the two it took and puts stdout back.
LEMMA FramesEnd ==
  ASSUME TypeInv, FramesInv, End
  PROVE  FramesInv'
<1> DEFINE L == Len(frames)
<1>0. /\ L \in Nat /\ made \in Nat /\ DOMAIN frames = 1 .. L
      /\ frames \in Seq(Frame) /\ Terminal = 0
  BY FramesTyped DEF TypeInv
<1>1. /\ made' = made /\ opened' = opened \ Both(frames[1].file)
      /\ frames' = Tail(frames) /\ stdout' = frames[1].saved /\ aborted' = aborted
      /\ L # 0
  BY <1>0, FramesTyped DEF End
<1>2. /\ Len(frames') = L - 1 /\ DOMAIN frames' = 1 .. L - 1 /\ L - 1 \in Nat
      /\ \A n \in 1 .. L - 1 : frames'[n] = frames[n + 1] /\ n + 1 \in 1 .. L
  BY <1>0, <1>1
<1>a. /\ \A n \in 1 .. L : frames[n].file \in (1 .. made) \ aborted
      /\ \A m, n \in 1 .. L : m < n => frames[n].file < frames[m].file
      /\ \A n \in 1 .. L - 1 : frames[n].saved = frames[n + 1].file
      /\ Outside(frames[L].saved, aborted)
      /\ aborted \subseteq 1 .. made
      /\ opened = UNION {Both(f) : f \in aborted \cup Live}
  BY <1>1 DEF FramesInv
<1> HIDE DEF L
<1>3. \A n \in 1 .. L - 1 : frames'[n].file \in (1 .. made') \ aborted'
  BY <1>1, <1>2, <1>a
<1>4. \A m, n \in 1 .. L - 1 : m < n => frames'[n].file < frames'[m].file
  <2> SUFFICES ASSUME NEW m \in 1 .. L - 1, NEW n \in 1 .. L - 1, m < n
               PROVE  frames'[n].file < frames'[m].file
    OBVIOUS
  <2>1. m + 1 \in 1 .. L /\ n + 1 \in 1 .. L /\ m + 1 < n + 1 BY <1>0
  <2>2. frames[n + 1].file < frames[m + 1].file BY <2>1, <1>a
  <2> QED BY <2>2, <1>2
<1>5. \A n \in 1 .. (L - 1) - 1 : frames'[n].saved = frames'[n + 1].file
  <2> TAKE n \in 1 .. (L - 1) - 1
  <2>1. n \in 1 .. L - 1 /\ n + 1 \in 1 .. L - 1 BY <1>0
  <2>2. frames'[n] = frames[n + 1] /\ frames'[n + 1] = frames[(n + 1) + 1] BY <2>1, <1>2
  <2>3. frames[n + 1].saved = frames[(n + 1) + 1].file BY <2>1, <1>a
  <2> QED BY <2>2, <2>3
<1>6. L - 1 = 0 => Outside(stdout', aborted')
  <2>1. SUFFICES ASSUME L - 1 = 0 PROVE Outside(frames[L].saved, aborted) /\ L = 1
    BY <1>1 DEF Outside
  <2> QED BY <2>1, <1>0, <1>a
<1>7. L - 1 # 0 => stdout' = frames'[1].file /\ Outside(frames'[L - 1].saved, aborted')
  <2> SUFFICES ASSUME L - 1 # 0
               PROVE  stdout' = frames'[1].file /\ Outside(frames'[L - 1].saved, aborted')
    OBVIOUS
  <2>1. 1 \in 1 .. L - 1 /\ L - 1 \in 1 .. L - 1 /\ (L - 1) + 1 = L /\ 1 + 1 = 2 BY <1>0, <1>2
  <2>2. frames'[1] = frames[2] /\ frames'[L - 1] = frames[L] BY <2>1, <1>2
  <2>3. frames[1].saved = frames[2].file BY <2>1, <1>a
  <2> QED BY <2>2, <2>3, <1>1, <1>a DEF Outside
<1>8. Live' = Live \ {frames[1].file}
  <2>1. ASSUME NEW n \in 1 .. L - 1 PROVE frames'[n].file \in Live \ {frames[1].file}
    <3>1. 1 \in 1 .. L /\ n + 1 \in 1 .. L /\ 1 < n + 1 /\ frames'[n] = frames[n + 1]
      BY <1>0, <1>2
    <3>2. frames[n + 1].file < frames[1].file BY <3>1, <1>a
    <3>3. frames[1].file \in Nat BY <3>1, <1>a, <1>0
    <3> QED BY <3>1, <3>2, <3>3, <1>0 DEF Live
  <2>2. ASSUME NEW n \in 1 .. L, frames[n].file # frames[1].file PROVE frames[n].file \in Live'
    <3>1. n - 1 \in 1 .. L - 1 /\ (n - 1) + 1 = n BY <2>2, <1>0
    <3>2. frames'[n - 1] = frames[n] BY <3>1, <1>2
    <3> QED BY <3>1, <3>2, <1>2 DEF Live
  <2>3. Live' \subseteq Live \ {frames[1].file}
    <3> SUFFICES ASSUME NEW f \in Live' PROVE f \in Live \ {frames[1].file} OBVIOUS
    <3>1. PICK n \in DOMAIN frames' : f = frames'[n].file BY DEF Live
    <3> QED BY <2>1, <3>1, <1>2
  <2>4. Live \ {frames[1].file} \subseteq Live'
    <3> SUFFICES ASSUME NEW f \in Live, f # frames[1].file PROVE f \in Live' OBVIOUS
    <3>1. PICK n \in DOMAIN frames : f = frames[n].file BY DEF Live
    <3> QED BY <2>2, <3>1, <1>0
  <2> QED BY <2>3, <2>4
<1>9. opened' = UNION {Both(f) : f \in aborted' \cup Live'}
  <2>1. frames[1].file \notin aborted /\ 1 \in 1 .. L BY <1>0, <1>1, <1>a
  <2>2. aborted' \cup Live' = (aborted \cup Live) \ {frames[1].file}
    BY <2>1, <1>1, <1>8
  <2>3. ASSUME NEW f \in aborted \cup Live, f # frames[1].file
        PROVE  Both(f) \cap Both(frames[1].file) = {}
    BY <2>3, BothDiffer
  <2> QED BY <2>2, <2>3, <1>1, <1>a
<1> QED BY <1>0, <1>1, <1>2, <1>3, <1>4, <1>5, <1>6, <1>7, <1>9, <1>a DEF FramesInv

\* The jump leaves what all captures opened and stdout where it is.
LEMMA FramesAbort ==
  ASSUME TypeInv, FramesInv, Abort
  PROVE  FramesInv'
<1>0. Len(frames) \in Nat /\ made \in Nat /\ DOMAIN frames = 1 .. Len(frames) /\ Terminal = 0
  BY FramesTyped
<1>1. /\ frames' = << >> /\ aborted' = aborted \cup Live /\ Len(frames) # 0
      /\ UNCHANGED << stdout, opened, made >>
  BY FramesTyped DEF Abort, Live
<1>2. Len(frames') = 0 /\ DOMAIN frames' = {} BY <1>1
<1>3. Live' = {} BY <1>2 DEF Live
<1>4. Live \subseteq 1 .. made BY <1>0 DEF FramesInv, Live
<1>5. stdout \in Live /\ stdout # Terminal
  <2>1. 1 \in DOMAIN frames /\ stdout = frames[1].file BY <1>0, <1>1 DEF FramesInv
  <2>2. stdout \in Live BY <2>1 DEF Live
  <2> QED BY <2>2, <1>0, <1>4
<1>6. Outside(stdout', aborted') BY <1>1, <1>5 DEF Outside
<1>7. aborted' \subseteq 1 .. made' BY <1>1, <1>4 DEF FramesInv
<1>8. opened' = UNION {Both(f) : f \in aborted' \cup Live'} BY <1>1, <1>3 DEF FramesInv
<1> QED BY <1>2, <1>6, <1>7, <1>8 DEF FramesInv

\* So each step keeps what is open and where stdout points.
LEMMA FramesStep == TypeInv /\ FramesInv /\ [Next]_vars => FramesInv'
<1> SUFFICES ASSUME TypeInv, FramesInv, [Next]_vars PROVE FramesInv' OBVIOUS
<1>1. ASSUME UNCHANGED << stdout, frames, opened, aborted >>, made' = made \/ made' = made + 1
      PROVE  FramesInv'
  <2>1. made \in Nat /\ Live' = Live BY <1>1, FramesTyped DEF Live
  <2>2. 1 .. made \subseteq 1 .. made' BY <2>1, <1>1
  <2> QED BY <2>1, <2>2, <1>1 DEF FramesInv, Outside
<1>2. Output \/ Flush \/ NotOpened \/ NotRedirected \/ Done \/ UNCHANGED vars =>
        UNCHANGED << stdout, frames, opened, aborted >> /\ (made' = made \/ made' = made + 1)
  BY DEF Output, Flush, NotOpened, NotRedirected, Done, vars
<1> QED BY <1>1, <1>2, FramesBegin, FramesEnd, FramesAbort DEF Next

\* To begin with there are none, and nothing is open.
LEMMA FramesInit == Init => FramesInv
<1> SUFFICES ASSUME Init PROVE FramesInv OBVIOUS
<1>1. /\ frames = << >> /\ Len(frames) = 0 /\ DOMAIN frames = {}
      /\ aborted = {} /\ opened = {} /\ stdout = Terminal
  BY DEF Init
<1>2. Live = {} BY <1>1 DEF Live
<1> QED BY <1>1, <1>2 DEF FramesInv, Outside

\* However captures are nested and whichever of them fail, return or are left
\* by a jump, what is open is what the captures going on, and those that were
\* left, opened; and stdout is the terminal exactly when there are neither.
THEOREM StdoutIsRestoredHolds == Spec => []StdoutIsRestored
<1>1. Init => FramesInv BY FramesInit
<1>2. TextInv /\ FramesInv /\ [Next]_vars => FramesInv' BY FramesStep DEF TextInv
<1>3. TextInv /\ FramesInv => StdoutIsRestored
  <2> SUFFICES ASSUME TypeInv, FramesInv PROVE StdoutIsRestored BY DEF TextInv
  <2>0. /\ Len(frames) \in Nat /\ made \in Nat /\ DOMAIN frames = 1 .. Len(frames)
        /\ Terminal = 0 /\ (frames = << >> <=> Len(frames) = 0)
    BY FramesTyped
  <2>1. Len(frames) # 0 => stdout # Terminal
    <3> SUFFICES ASSUME Len(frames) # 0 PROVE stdout # Terminal OBVIOUS
    <3>1. 1 \in 1 .. Len(frames) /\ stdout = frames[1].file BY <2>0 DEF FramesInv
    <3>2. frames[1].file \in 1 .. made BY <3>1 DEF FramesInv
    <3> QED BY <3>1, <3>2, <2>0
  <2>2. Len(frames) = 0 => Outside(stdout, aborted) BY DEF FramesInv
  <2>3. opened = UNION {Both(f) : f \in aborted \cup {frames[n].file : n \in DOMAIN frames}}
    BY DEF FramesInv, Live
  <2> QED BY <2>0, <2>1, <2>2, <2>3 DEF StdoutIsRestored, Outside
<1> QED BY TextInvariance, <1>1, <1>2, <1>3, PTL DEF Spec

-----------------------------------------------------------------------------
(***************************************************************************)
(* What a capture returns.  The text stays true afterwards because nobody  *)
(* prints to its file any more: it is neither the file of a capture that   *)
(* goes on nor of one that was left, and the numbers of files only grow.   *)
(***************************************************************************)

\* The files stdout may still be sent to.
Used == aborted \cup Live

CapturedInv ==
  captured.file # Terminal =>
    captured.file \in (1 .. made) \ Used /\ CapturedIsPrinted

\* stdout is the terminal or a file that is in use.
LEMMA StdoutIsUsed ==
  ASSUME TypeInv, FramesInv
  PROVE  stdout \in Used \cup {Terminal}
<1>1. CASE Len(frames) = 0 BY <1>1 DEF FramesInv, Outside, Used
<1>2. CASE Len(frames) # 0
  <2>1. 1 \in DOMAIN frames /\ stdout = frames[1].file BY <1>2, FramesTyped DEF FramesInv
  <2> QED BY <2>1 DEF Used, Live
<1> QED BY <1>1, <1>2

\* A step that sends nothing to the file of the last capture, and does not
\* use it again, leaves what was captured true.
LEMMA CapturedKeeps ==
  ASSUME TypeInv, CapturedInv, UNCHANGED captured, made \in Nat, made' \in Nat, made <= made',
         \A f \in 1 .. made : f \notin Used => f \notin Used' /\ printedTo'[f] = printedTo[f]
  PROVE  CapturedInv'
<1>1. 1 .. made \subseteq 1 .. made' OBVIOUS
<1> QED BY <1>1 DEF CapturedInv, CapturedIsPrinted, Terminal

\* Printing goes to a file that is in use.
LEMMA PutElsewhere ==
  ASSUME TypeInv, FramesInv, Put, NEW f \in 1 .. made, f \notin Used
  PROVE  printedTo'[f] = printedTo[f]
<1>1. f # stdout /\ f \in File
  BY StdoutIsUsed, FramesTyped, BoundsAssumption DEF TypeInv, Terminal
<1> QED BY <1>1 DEF Put, TypeInv

\* When a capture returns, its file has received what was printed meanwhile,
\* and is not used again.
LEMMA CapturedEnd ==
  ASSUME TypeInv, FramesInv, FramesInv', TypeInv', TextStaysInItsPlace', End
  PROVE  CapturedInv'
<1> DEFINE L == Len(frames)
           f == frames[1].file
<1>0. /\ L \in Nat \ {0} /\ made \in Nat /\ DOMAIN frames = 1 .. L /\ frames \in Seq(Frame)
      /\ Terminal = 0 /\ f \in File
  <2>1. /\ L \in Nat /\ made \in Nat /\ DOMAIN frames = 1 .. L /\ frames \in Seq(Frame)
        /\ Terminal = 0 /\ L # 0
    BY FramesTyped DEF TypeInv, End
  <2>2. frames[1] \in Frame BY <2>1
  <2> QED BY <2>1, <2>2 DEF Frame
<1>1. /\ made' = made /\ frames' = Tail(frames) /\ aborted' = aborted
      /\ captured' = [file |-> f, size |-> frames[1].size,
                      text |-> Read(content'[f], frames[1].size)]
      /\ printedTo' = printedTo
  BY <1>0 DEF End
<1>2. f \in 1 .. made /\ f \notin aborted BY <1>0 DEF FramesInv
<1>3. f \notin Live'
  <2> SUFFICES ASSUME NEW n \in DOMAIN frames', frames'[n].file = f PROVE FALSE
    BY DEF Live
  <2>1. n \in 1 .. L - 1 /\ frames'[n] = frames[n + 1] BY <1>0, <1>1
  <2>2. frames[n + 1].file < f
    <3>1. 1 \in 1 .. L /\ n + 1 \in 1 .. L /\ 1 < n + 1 BY <2>1, <1>0
    <3> QED BY <3>1 DEF FramesInv
  <2> QED BY <2>1, <2>2, <1>2, <1>0
<1>4. f # stdout'
  <2>1. stdout' \in aborted' \cup Live' \cup {Terminal}
    <3>1. CASE Len(frames') = 0 BY <3>1 DEF FramesInv, Outside
    <3>2. CASE Len(frames') # 0
      <4>1. 1 \in DOMAIN frames' /\ stdout' = frames'[1].file
        BY <3>2, <1>0, <1>1 DEF FramesInv
      <4> QED BY <4>1 DEF Live
    <3> QED BY <3>1, <3>2
  <2> QED BY <2>1, <1>0, <1>1, <1>2, <1>3 DEF Terminal
<1>5. printedTo'[f] = content'[f] BY <1>0, <1>4 DEF TextStaysInItsPlace
<1>6. captured'.text = SubSeq(printedTo'[f], 1, Least(frames[1].size - 1, Len(printedTo'[f])))
  BY <1>1, <1>5 DEF Read
<1>7. captured'.file = f /\ captured'.size = frames[1].size BY <1>1
<1> HIDE DEF f, L
<1> QED BY <1>1, <1>2, <1>3, <1>6, <1>7 DEF CapturedInv, CapturedIsPrinted, Used

\* So the text of the last capture stays what its function printed.
LEMMA CapturedStep ==
  TextInv /\ TextInv' /\ FramesInv /\ FramesInv' /\ CapturedInv /\ [Next]_vars => CapturedInv'
<1> SUFFICES ASSUME TextInv, TextInv', FramesInv, FramesInv', CapturedInv, [Next]_vars
             PROVE  CapturedInv'
  OBVIOUS
<1>0. /\ TypeInv /\ TypeInv' /\ TextStaysInItsPlace' /\ made \in Nat /\ made' \in Nat
      /\ DOMAIN frames = 1 .. Len(frames) /\ Len(frames) \in Nat
  <2>1. TypeInv /\ TypeInv' /\ TextStaysInItsPlace' BY DEF TextInv
  <2>2. made \in Nat /\ made' \in Nat
    BY <2>1, BoundsAssumption DEF TypeInv, File, Terminal
  <2> QED BY <2>1, <2>2, FramesTyped
<1>1. CASE Output
  <2>1. Put /\ UNCHANGED << captured, made, frames, aborted >> BY <1>1 DEF Output
  <2>2. Used' = Used BY <2>1 DEF Used, Live
  <2> QED BY <2>1, <2>2, <1>0, PutElsewhere, CapturedKeeps
<1>2. CASE Abort
  <2>1. /\ Put /\ UNCHANGED << captured, made >> /\ frames' = << >>
        /\ aborted' = aborted \cup Live
    BY <1>2 DEF Abort, Live
  <2>2. Used' = Used
    <3>1. Live' = {} BY <2>1 DEF Live
    <3> QED BY <2>1, <3>1 DEF Used
  <2> QED BY <2>1, <2>2, <1>0, PutElsewhere, CapturedKeeps
<1>3. ASSUME NEW size \in Size, Begin(size) PROVE CapturedInv'
  <2>1. /\ made' = made + 1 /\ UNCHANGED << captured, printedTo, aborted >>
        /\ frames' = << [file |-> made', saved |-> stdout, size |-> size] >> \o frames
    BY <1>3 DEF Begin
  <2>2. ASSUME NEW f \in 1 .. made, f \notin Used PROVE f \notin Used'
    <3> SUFFICES ASSUME NEW n \in DOMAIN frames', frames'[n].file = f PROVE FALSE
      BY <2>1, <2>2 DEF Used, Live
    <3>0. frames \in Seq(Frame) BY <1>0 DEF TypeInv
    <3>1. CASE n = 1
      <4>1. frames'[n].file = made + 1 BY <3>1, <2>1, <3>0
      <4> QED BY <4>1, <1>0
    <3>2. CASE n # 1
      <4>1. n - 1 \in DOMAIN frames /\ frames'[n] = frames[n - 1] BY <3>2, <2>1, <3>0, <1>0
      <4> QED BY <4>1, <2>2 DEF Used, Live
    <3> QED BY <3>1, <3>2
  <2> QED BY <2>1, <2>2, <1>0, CapturedKeeps
<1>4. CASE End BY <1>0, <1>4, CapturedEnd
<1>5. CASE Flush \/ NotRedirected \/ NotOpened \/ Done \/ UNCHANGED vars
  <2>1. UNCHANGED << captured, printedTo, aborted, frames >> /\ (made' = made \/ made' = made + 1)
    BY <1>5 DEF Flush, NotRedirected, NotOpened, Done, vars
  <2>2. Used' = Used BY <2>1 DEF Used, Live
  <2> QED BY <2>1, <2>2, <1>0, CapturedKeeps
<1> QED BY <1>1, <1>2, <1>3, <1>4, <1>5 DEF Next

\* What a capture returned is, at every later moment too, what was printed to
\* its file, up to the size of the buffer less one: nothing printed before,
\* inside a nested capture or after it gets in.
THEOREM CapturedIsPrintedHolds == Spec => []CapturedIsPrinted
<1>1. Init => FramesInv /\ CapturedInv BY FramesInit DEF Init, CapturedInv
<1>2. TextInv /\ FramesInv /\ [Next]_vars => FramesInv' BY FramesStep DEF TextInv
<1>3. CapturedInv => CapturedIsPrinted BY DEF CapturedInv, CapturedIsPrinted
<1> QED BY TextInvariance, <1>1, <1>2, CapturedStep, <1>3, PTL DEF Spec

=============================================================================
