-------------------------- MODULE ListeningProofs --------------------------
(***************************************************************************)
(* Theorems about Listening, for any thresholds of the detectors and any   *)
(* languages, voices, names and streaks.                                   *)
(***************************************************************************)
EXTENDS Listening, SequenceTheorems, WellFoundedInduction, TLAPS

\* The steps of the two components; every step of the call is one of each, or leaves
\* the component alone.
HearingStep == FrameStep \/ SpeakStep
LanguageStep ==
  \/ state = "greeting" /\ AskFirst
  \/ \E u \in Utterance : Transcribe(u)
  \/ state = "thinking" /\ (AskAgain(transcript) \/ Settle(transcript))
  \/ Follow(transcript) \/ SwitchAsAsked(transcript) \/ Drift(transcript)

LEMMA StepsOfEach ==
  ASSUME [Next]_vars
  PROVE  /\ HearingStep \/ UNCHANGED hearing
         /\ LanguageStep \/ UNCHANGED language
<1>1. CASE UNCHANGED vars
  BY <1>1 DEF vars
<1>2. CASE TurnStep
  <2>1. CASE Open
    BY <2>1 DEF Open, Greet, HearingStep, SpeakStep, LanguageStep
  <2>2. CASE Recognise
    BY <2>2 DEF Recognise, LanguageStep
  <2>3. CASE NoWords
    BY <2>3 DEF NoWords, HearingStep, SpeakStep
  <2>4. CASE SttFails
    BY <2>4 DEF SttFails, HearingStep, SpeakStep
  <2>5. CASE Choose
    BY <2>5 DEF Choose, Answer, HearingStep, SpeakStep, LanguageStep
  <2>6. CASE Confirm
    BY <2>6 DEF Confirm, HearingStep, SpeakStep, LanguageStep
  <2>7. CASE Question
    BY <2>7 DEF Question, HearingStep, SpeakStep, LanguageStep
  <2> QED BY <1>2, <2>1, <2>2, <2>3, <2>4, <2>5, <2>6, <2>7 DEF TurnStep
<1>3. CASE FrameStep /\ UNCHANGED language
  BY <1>3 DEF HearingStep
<1>4. CASE (PromptIdle \/ ChunkSent \/ LineOver) /\ UNCHANGED language
  BY <1>4 DEF HearingStep, SpeakStep
<1> QED BY <1>1, <1>2, <1>3, <1>4 DEF Next

-----------------------------------------------------------------------------
(* What is heard. *)

\* The detector is within an utterance that is not over, or collects the frames
\* before one.
Detecting ==
  /\ detector.voiced <= detector.buffer
  /\ detector.speaking =>
       detector.buffer < MaxFrames /\ detector.silence < SilenceFrames

\* A line plays just while the call is speaking.
Lined ==
  /\ state = "speaking" <=> line = "playing"
  /\ line = "cut" => state = "listening"

\* Frames that went by unheard find the detector empty when the call listens again.
Neighbours ==
  /\ ~broken
  /\ state \in {"greeting", "thinking"} => ~Holds(detector)
  /\ state = "listening" /\ gap => ~Holds(detector) /\ line # "cut"

\* What the interruption counts was said over the line that plays.
Overheard ==
  line = "playing" => barge <= loud /\ (~audible => barge = 0)

HearingInv == HearingTypeOK /\ Detecting /\ Lined /\ Neighbours /\ Overheard

LEMMA Thresholds ==
  /\ SilenceFrames \in Nat /\ SilenceFrames > 0
  /\ BargeFrames \in Nat /\ BargeFrames > 0
  /\ MaxFrames \in Nat /\ PreRollFrames \in Nat /\ PromptAfter \in Nat
  /\ PreRollFrames + 1 < MaxFrames
BY FrameAssumption

LEMMA DeafDetector ==
  /\ Deaf \in Detector /\ Deaf.voiced <= Deaf.buffer /\ ~Deaf.speaking /\ ~Holds(Deaf)
BY Thresholds DEF Deaf, Detector, Holds

\* The detector after a frame, whatever it was before.
LEMMA PushKeeps ==
  ASSUME NEW d \in Detector, NEW f \in Frame,
         d.voiced <= d.buffer,
         d.speaking => d.buffer < MaxFrames /\ d.silence < SilenceFrames
  PROVE  /\ Push(d, f) \in Detector
         /\ Push(d, f).voiced <= Push(d, f).buffer
         /\ Push(d, f).speaking =>
              Push(d, f).buffer < MaxFrames /\ Push(d, f).silence < SilenceFrames
         /\ Ended(d, f) => ~Holds(Push(d, f))
<1> USE Thresholds
<1>0. /\ d.preRoll \in 0 .. PreRollFrames /\ d.buffer \in 0 .. MaxFrames
      /\ d.voiced \in 0 .. MaxFrames /\ d.silence \in 0 .. SilenceFrames
      /\ d.speaking \in BOOLEAN /\ f.voiced \in BOOLEAN
  BY DEF Detector, Frame
<1>1. CASE Over(d, f)
  BY <1>1, DeafDetector DEF Push
<1>2. CASE ~Over(d, f) /\ Onset(d, f)
  <2>1. Heard(d, f) = [speaking |-> TRUE, preRoll |-> 0, buffer |-> d.preRoll + 1,
                       voiced |-> 1, silence |-> 0]
    BY <1>2 DEF Heard, Deaf
  <2>2. /\ d.preRoll + 1 \in 0 .. MaxFrames /\ d.preRoll + 1 < MaxFrames /\ 1 \in 0 .. MaxFrames
        /\ 1 <= d.preRoll + 1
    BY <1>0
  <2>3. Heard(d, f) \in Detector
    BY <2>1, <2>2 DEF Detector
  <2> QED BY <1>2, <2>1, <2>2, <2>3 DEF Push, Ended
<1>3. CASE ~Over(d, f) /\ ~d.speaking /\ ~f.voiced
  <2>1. Heard(d, f) = [d EXCEPT !.preRoll = Least(@ + 1, PreRollFrames)]
    BY <1>3 DEF Heard, Onset
  <2>2. Least(d.preRoll + 1, PreRollFrames) \in 0 .. PreRollFrames
    BY <1>0 DEF Least
  <2>3. Heard(d, f) \in Detector /\ Heard(d, f).buffer = d.buffer
        /\ Heard(d, f).voiced = d.voiced /\ Heard(d, f).speaking = d.speaking
    BY <2>1, <2>2 DEF Detector
  <2> QED BY <1>3, <2>3 DEF Push, Ended
<1>4. CASE ~Over(d, f) /\ d.speaking
  <2>1. Heard(d, f) = [d EXCEPT !.buffer = @ + 1,
                                !.voiced = IF f.voiced THEN @ + 1 ELSE @,
                                !.silence = IF f.voiced THEN 0 ELSE @ + 1]
    BY <1>4 DEF Heard, Onset
  <2>2. ~Settled(Heard(d, f)) /\ ~TooLong(Heard(d, f))
    BY <1>4 DEF Over
  <2>3. /\ Heard(d, f) \in [speaking : BOOLEAN, preRoll : 0 .. PreRollFrames, buffer : Nat,
                             voiced : Nat, silence : Nat]
        /\ Heard(d, f).buffer = d.buffer + 1 /\ Heard(d, f).voiced <= d.voiced + 1
    <3> DEFINE v == IF f.voiced THEN d.voiced + 1 ELSE d.voiced
               q == IF f.voiced THEN 0 ELSE d.silence + 1
    <3>1. v \in Nat /\ v <= d.voiced + 1 /\ q \in Nat /\ d.buffer + 1 \in Nat
      BY <1>0
    <3>2. Heard(d, f) = [speaking |-> d.speaking, preRoll |-> d.preRoll,
                         buffer |-> d.buffer + 1, voiced |-> v, silence |-> q]
      BY <2>1 DEF Detector
    <3> HIDE DEF v, q
    <3> QED BY <1>0, <3>1, <3>2
  <2>4. Heard(d, f).silence < SilenceFrames /\ Heard(d, f).buffer < MaxFrames
    BY <2>2, <2>3 DEF Settled, TooLong
  <2>5. Heard(d, f) \in Detector
    BY <1>0, <2>3, <2>4 DEF Detector
  <2> QED BY <1>0, <1>4, <2>3, <2>4, <2>5 DEF Push, Ended
<1> QED BY <1>0, <1>1, <1>2, <1>3, <1>4 DEF Onset

LEMMA TicksType == idle \in 0 .. PromptAfter + 1 => Ticks \in 0 .. PromptAfter + 1
BY Thresholds DEF Ticks, Least

LEMMA HearingFrame ==
  ASSUME HearingInv, FrameStep
  PROVE  HearingInv'
<1> USE Thresholds DEF HearingInv
<1>1. PICK f \in Frame : Listen(f) \/ TalkedOver(f) \/ BargeIn(f) \/ Unheard(f)
  BY DEF FrameStep
<1>2. Ticks \in 0 .. PromptAfter + 1 /\ f.strict \in BOOLEAN
  BY TicksType DEF HearingTypeOK, Frame
<1>3. CASE Listen(f)
  <2>1. /\ detector' \in Detector
        /\ Detecting'
        /\ Ended(detector, f) => ~Holds(detector')
    BY <1>3, PushKeeps DEF Listen, HearingTypeOK, Detecting
  <2>2. line # "playing"
    BY <1>3 DEF Listen, Lined
  <2>3. HearingTypeOK'
    <3>1. state' \in {"greeting", "listening", "thinking", "speaking"}
      BY <1>3 DEF Listen
    <3>2. idle' \in 0 .. PromptAfter + 1
      BY <1>2, <1>3 DEF Listen
    <3>3. prompted' \in BOOLEAN /\ gap' \in BOOLEAN /\ broken' \in BOOLEAN
      BY <1>3 DEF Listen
    <3> QED BY <1>3, <2>1, <3>1, <3>2, <3>3 DEF Listen, HearingTypeOK
  <2>4. Lined' /\ Overheard'
    BY <1>3, <2>2 DEF Listen, Lined, Overheard
  <2>5. Neighbours'
    BY <1>3, <2>1 DEF Listen, Neighbours
  <2> QED BY <2>1, <2>3, <2>4, <2>5
<1>4. CASE TalkedOver(f)
  <2>1. Run(f) \in 0 .. BargeFrames - 1 \/ ~audible
    BY <1>2, <1>4 DEF TalkedOver, Run, Sustained, HearingTypeOK
  <2>2. HearingTypeOK'
    BY <1>2, <1>4, <2>1 DEF TalkedOver, HearingTypeOK, Least
  <2>3. Overheard'
    BY <1>2, <1>4, <2>1 DEF TalkedOver, Overheard, Run, Sustained, Least, HearingTypeOK
  <2> QED BY <1>4, <2>2, <2>3 DEF TalkedOver, Detecting, Lined, Neighbours
<1>5. CASE BargeIn(f)
  <2>1. detector' \in Detector /\ Detecting'
    BY <1>5, PushKeeps, DeafDetector DEF BargeIn, Detecting
  <2>2. HearingTypeOK'
    <3>1. barge' \in 0 .. BargeFrames - 1 /\ loud' \in 0 .. BargeFrames
      BY <1>2, <1>5 DEF BargeIn, HearingTypeOK, Run, Least
    <3>2. prompted' \in BOOLEAN /\ idle' \in 0 .. PromptAfter + 1
      BY <1>5 DEF BargeIn
    <3> QED BY <1>5, <2>1, <3>1, <3>2 DEF BargeIn, HearingTypeOK
  <2> QED BY <1>5, <2>1, <2>2 DEF BargeIn, Lined, Neighbours, Overheard
<1>6. CASE Unheard(f)
  <2>1. HearingTypeOK'
    BY <1>2, <1>6 DEF Unheard, HearingTypeOK
  <2> QED BY <1>6, <2>1 DEF Unheard, Detecting, Lined, Neighbours, Overheard
<1> QED BY <1>1, <1>3, <1>4, <1>5, <1>6

LEMMA HearingSpeak ==
  ASSUME HearingInv, SpeakStep
  PROVE  HearingInv'
<1> USE Thresholds DEF HearingInv
<1>1. ASSUME Speak, prompted' \in BOOLEAN PROVE HearingInv'
  <2>1. HearingTypeOK'
    <3>1. 0 \in 0 .. BargeFrames - 1 /\ 0 \in 0 .. BargeFrames
      OBVIOUS
    <3> QED BY <1>1, <3>1 DEF Speak, HearingTypeOK
  <2> QED BY <1>1, <2>1 DEF Speak, Detecting, Lined, Neighbours, Overheard
<1>2. CASE Greet \/ Answer \/ PromptIdle
  <2>1. Speak
    BY <1>2 DEF Greet, Answer, PromptIdle
  <2>2. prompted' \in BOOLEAN
    BY <1>2 DEF Greet, Answer, PromptIdle, HearingTypeOK
  <2> QED BY <1>1, <2>1, <2>2
<1>3. CASE Resume
  BY <1>3 DEF Resume, HearingTypeOK, Detecting, Lined, Neighbours, Overheard
<1>4. CASE ChunkSent
  BY <1>4 DEF ChunkSent, HearingTypeOK, Detecting, Lined, Neighbours, Overheard
<1>5. CASE LineOver
  <2>1. detector' \in Detector /\ Detecting'
    BY <1>5, DeafDetector DEF LineOver, HearingTypeOK, Detecting
  <2>2. idle' \in 0 .. PromptAfter + 1 /\ broken' \in BOOLEAN
    BY <1>5 DEF LineOver
  <2>3. HearingTypeOK'
    BY <1>5, <2>1, <2>2 DEF LineOver, HearingTypeOK
  <2>4. Neighbours'
    BY <1>5, DeafDetector DEF LineOver, HearingTypeOK, Lined, Neighbours
  <2> QED BY <1>5, <2>1, <2>3, <2>4 DEF LineOver, Lined, Overheard
<1> QED BY <1>2, <1>3, <1>4, <1>5 DEF SpeakStep

LEMMA HearingAlways == Spec => []HearingInv
<1>1. Init => HearingInv
  <2> SUFFICES ASSUME Init PROVE HearingInv
    OBVIOUS
  <2>1. 0 \in 0 .. BargeFrames - 1 /\ 0 \in 0 .. BargeFrames /\ 0 \in 0 .. PromptAfter + 1
    BY Thresholds
  <2>2. HearingTypeOK
    BY <2>1, DeafDetector DEF Init, HearingInit, HearingTypeOK
  <2>3. Detecting /\ Neighbours
    BY DeafDetector DEF Init, HearingInit, Detecting, Neighbours
  <2> QED BY <2>2, <2>3 DEF Init, HearingInit, HearingInv, Lined, Overheard
<1>2. HearingInv /\ [Next]_vars => HearingInv'
  <2>1. HearingInv /\ UNCHANGED hearing => HearingInv'
    BY DEF hearing, HearingInv, HearingTypeOK, Detecting, Lined, Neighbours, Overheard
  <2> QED BY <2>1, StepsOfEach, HearingFrame, HearingSpeak DEF HearingStep
<1> QED BY <1>1, <1>2, PTL DEF Spec

\* Whatever the thresholds, no utterance is made of frames from two sides of a line
\* or of a turn.
THEOREM UtterancesAreWhole == Spec => []WholeUtterances
<1>1. HearingInv => WholeUtterances
  BY DEF HearingInv, Neighbours, WholeUtterances
<1> QED BY <1>1, HearingAlways, PTL

\* Only a whole threshold of speech over a reply cuts it off.
THEOREM InterruptionsAreSustained == Spec => BargeInSustained
<1>1. HearingInv /\ [Next]_vars =>
        [line = "playing" /\ line' = "cut" => loud' = BargeFrames]_hearing
  <2> SUFFICES ASSUME HearingInv, [Next]_vars, line = "playing", line' = "cut"
               PROVE  loud' = BargeFrames
    OBVIOUS
  <2>1. HearingStep
    BY StepsOfEach DEF hearing
  <2>2. FrameStep
    BY <2>1 DEF HearingStep, SpeakStep, Greet, Answer, PromptIdle, Speak, Resume, ChunkSent, LineOver
  <2>3. PICK f \in Frame : BargeIn(f)
    BY <2>2 DEF FrameStep, Listen, TalkedOver, Unheard
  <2>4. barge \in Nat /\ loud \in 0 .. BargeFrames /\ barge + 1 >= BargeFrames /\ barge <= loud
    BY <2>3, Thresholds DEF BargeIn, Sustained, HearingInv, HearingTypeOK, Overheard
  <2> QED BY <2>3, <2>4, Thresholds DEF BargeIn, Least
<1> QED BY <1>1, HearingAlways, PTL DEF Spec, BargeInSustained

-----------------------------------------------------------------------------
(* Which language is spoken. *)

\* The last k of the turns that count were in l.
Row(l, k, s) ==
  k = 0 \/ (Len(s) >= k /\ \A i \in 1 .. k : s[Len(s) + 1 - i] = l)

\* A streak the tracker keeps is one of the turns that count; nothing is left of the
\* streak that moved the language for the last time.
Counted ==
  /\ ~tracker.locked =>
       /\ ~tracker.provisional
       /\ tracker.streak < SwitchAfter
       /\ Row(tracker.candidate, tracker.streak, said)
  /\ tracker.locked =>
       /\ tracker.driftStreak < DriftAfter
       /\ Row(tracker.driftCandidate, tracker.driftStreak, said)
       /\ tracker.drifts >= MaxDrifts => tracker.driftStreak = 0

\* The tracker counts the moves nobody asked for, and stops in time.
Budgeted == drifted <= tracker.drifts /\ tracker.drifts <= MaxDrifts

LanguageInv == LanguageTypeOK /\ VoiceSpeaks /\ Budgeted /\ Counted

LEMMA Streaks ==
  /\ SwitchAfter \in Nat /\ SwitchAfter > 0
  /\ DriftAfter \in Nat /\ DriftAfter > 0
  /\ MaxDrifts \in Nat /\ MaxDrifts > 0
  /\ MaxAttempts \in Nat
  /\ Kept \in Nat /\ SwitchAfter <= Kept /\ DriftAfter <= Kept
BY LanguageAssumption DEF Kept

\* A set of naturals has a least element.
LEMMA LeastNatural ==
  ASSUME NEW T \in SUBSET Nat, T # {}
  PROVE  \E x \in T : \A y \in T : x <= y
<1> DEFINE R == OpToRel(<, Nat)
<1>1. IsWellFoundedOn(R, Nat)
  BY NatLessThanWellFounded, Zenon
<1>2. PICK x \in T : \A y \in T : <<y, x>> \notin R
  <2> HIDE DEF R
  <2> QED BY <1>1, WFMin, Zenon
<1>3. \A y \in T : ~(y < x)
  BY <1>2, Zenon DEF OpToRel
<1> QED BY <1>3

\* The language that is taken for the one named is one of those allowed.
LEMMA FirstNamedAllowed ==
  ASSUME NEW names, NEW allowed
  PROVE  FirstNamed(names, allowed) \in (Languages \cap allowed) \cup {None}
<1> DEFINE hits == {i \in DOMAIN Order : Order[i] \in names /\ Order[i] \in allowed}
           First(i) == \A j \in hits : i <= j
<1>1. CASE hits = {}
  BY <1>1 DEF FirstNamed
<1>2. CASE hits # {}
  <2>1. Order \in Seq(Languages)
    BY LanguageAssumption
  <2>2. DOMAIN Order = 1 .. Len(Order) /\ Len(Order) \in Nat
    BY <2>1, LenProperties
  <2>3. hits \in SUBSET Nat
    BY <2>2
  <2>4. \E i \in hits : First(i)
    <3> HIDE DEF hits
    <3> QED BY <1>2, <2>3, LeastNatural
  <2>5. FirstNamed(names, allowed) = Order[CHOOSE i \in hits : First(i)]
    BY <1>2 DEF FirstNamed
  <2>6. (CHOOSE i \in hits : First(i)) \in hits
    <3> HIDE DEF First
    <3> QED BY <2>4
  <2>7. PICK i \in hits : FirstNamed(names, allowed) = Order[i]
    BY <2>5, <2>6
  <2>8. Order[i] \in Languages /\ Order[i] \in allowed
    BY <2>1, <2>2, <2>7, ElementOfSeq
  <2> QED BY <2>7, <2>8
<1> QED BY <1>1, <1>2

LEMMA ChoiceAllowed ==
  ASSUME NEW u \in Transcript
  PROVE  /\ DetectChoice(u, Allowed) \in Spoken
         /\ Allowed # {} => DetectChoice(u, Allowed) \in Allowed \cup {None}
<1> DEFINE within == IF Allowed = {} THEN Languages ELSE Allowed
<1>1. FirstNamed(u.names, within) \in (Languages \cap within) \cup {None}
  BY FirstNamedAllowed
<1>2. u.spoken \in Spoken
  BY DEF Transcript, Spoken
<1>3. DetectChoice(u, Allowed) \in {FirstNamed(u.names, within), None}
                                     \cup ({u.spoken} \cap within)
  BY DEF DetectChoice
<1> QED BY <1>1, <1>2, <1>3 DEF Spoken

LEMMA RequestAllowed ==
  ASSUME NEW u
  PROVE  Requested(u) \in (Languages \cap Allowed) \cup {None}
BY FirstNamedAllowed DEF Requested

\* A turn that counts makes a row one longer, unless it moves the language; one that
\* does not leaves it as it is; and the rows that matter survive the trimming.
LEMMA RowGrows ==
  ASSUME NEW s \in Seq(Spoken), NEW l \in Spoken, NEW k \in Nat, Row(l, k, s)
  PROVE  Row(l, k + 1, Append(s, l))
<1>1. /\ Append(s, l) \in Seq(Spoken) /\ Len(Append(s, l)) = Len(s) + 1 /\ Len(s) \in Nat
      /\ \A i \in 1 .. Len(s) : Append(s, l)[i] = s[i]
      /\ Append(s, l)[Len(s) + 1] = l
  BY AppendProperties, LenProperties
<1>2. ASSUME NEW i \in 1 .. k + 1 PROVE Append(s, l)[Len(Append(s, l)) + 1 - i] = l
  <2>1. CASE i = 1
    BY <1>1, <2>1
  <2>2. CASE i > 1
    <3>1. i - 1 \in 1 .. k /\ Len(s) >= k /\ Len(s) + 1 - (i - 1) \in 1 .. Len(s)
      BY <1>1, <2>2 DEF Row
    <3>2. s[Len(s) + 1 - (i - 1)] = l
      <4>1. \A m \in 1 .. k : s[Len(s) + 1 - m] = l
        BY <3>1 DEF Row
      <4> QED BY <3>1, <4>1, Zenon
    <3>3. Len(Append(s, l)) + 1 - i = Len(s) + 1 - (i - 1)
      BY <1>1
    <3> QED BY <1>1, <3>1, <3>2, <3>3
  <2>3. i = 1 \/ i > 1
    OBVIOUS
  <2> QED BY <2>1, <2>2, <2>3
<1>3. Len(Append(s, l)) >= k + 1
  BY <1>1 DEF Row
<1> QED BY <1>2, <1>3 DEF Row

LEMMA RowTrimmed ==
  ASSUME NEW s \in Seq(Spoken), NEW l, NEW k \in Nat, Row(l, k, s), k <= Kept
  PROVE  LET t == IF Len(s) > Kept THEN Tail(s) ELSE s
         IN  t \in Seq(Spoken) /\ Row(l, k, t)
<1>1. CASE Len(s) > Kept
  <2>1. s # <<>> /\ Len(s) \in Nat
    BY <1>1, Streaks, LenProperties
  <2>2. /\ Tail(s) \in Seq(Spoken) /\ Len(Tail(s)) = Len(s) - 1
        /\ \A i \in 1 .. Len(Tail(s)) : Tail(s)[i] = s[i + 1]
    BY <2>1, HeadTailProperties
  <2>3. ASSUME NEW i \in 1 .. k, k # 0 PROVE Tail(s)[Len(Tail(s)) + 1 - i] = l
    <3>1. Len(Tail(s)) + 1 - i \in 1 .. Len(Tail(s))
      BY <1>1, <2>1, <2>2, Streaks
    <3>2. s[Len(s) + 1 - i] = l
      BY <2>3 DEF Row
    <3>3. (Len(Tail(s)) + 1 - i) + 1 = Len(s) + 1 - i
      BY <2>1, <2>2
    <3> QED BY <2>2, <3>1, <3>2, <3>3
  <2> QED BY <1>1, <2>1, <2>2, <2>3, Streaks DEF Row
<1>2. CASE ~(Len(s) > Kept)
  BY <1>2
<1> QED BY <1>1, <1>2

LEMMA Remembered ==
  ASSUME NEW u \in Transcript, said \in Seq(Spoken)
  PROVE  /\ Remember(u) \in Seq(Spoken)
         /\ ~Counts(u) => \A l \in Spoken, k \in Nat : k <= Kept /\ Row(l, k, said) => Row(l, k, Remember(u))
         /\ Counts(u) => \A k \in Nat :
              k + 1 <= Kept /\ Row(u.spoken, k, said) => Row(u.spoken, k + 1, Remember(u))
<1>0. u.spoken \in Spoken
  BY DEF Transcript, Spoken
<1>1. Append(said, u.spoken) \in Seq(Spoken)
  BY <1>0, AppendProperties
<1>2. Remember(u) \in Seq(Spoken)
  <2>1. Row(None, 0, Append(said, u.spoken)) /\ Row(None, 0, said) /\ 0 <= Kept
    BY Streaks DEF Row
  <2>2. ASSUME NEW s \in Seq(Spoken), Row(None, 0, s)
        PROVE (IF Len(s) > Kept THEN Tail(s) ELSE s) \in Seq(Spoken)
    BY <2>1, <2>2, RowTrimmed
  <2> QED BY <1>1, <2>1, <2>2 DEF Remember
<1>3. ASSUME ~Counts(u), NEW l \in Spoken, NEW k \in Nat, k <= Kept, Row(l, k, said)
      PROVE  Row(l, k, Remember(u))
  BY <1>3, RowTrimmed DEF Remember
<1>4. ASSUME Counts(u), NEW k \in Nat, k + 1 <= Kept, Row(u.spoken, k, said)
      PROVE  Row(u.spoken, k + 1, Remember(u))
  <2>1. Row(u.spoken, k + 1, Append(said, u.spoken))
    BY <1>0, <1>4, RowGrows
  <2>2. Row(u.spoken, k + 1, IF Len(Append(said, u.spoken)) > Kept
                             THEN Tail(Append(said, u.spoken)) ELSE Append(said, u.spoken))
    <3> DEFINE all == Append(said, u.spoken)
    <3>1. all \in Seq(Spoken) /\ k + 1 \in Nat /\ Row(u.spoken, k + 1, all)
      BY <1>1, <2>1
    <3> HIDE DEF all
    <3>2. Row(u.spoken, k + 1, IF Len(all) > Kept THEN Tail(all) ELSE all)
      BY <1>4, <3>1, RowTrimmed
    <3> QED BY <3>2 DEF all
  <2> QED BY <1>4, <2>2 DEF Remember
<1> QED BY <1>2, <1>3, <1>4

-----------------------------------------------------------------------------
\* What the tracker's fields are.
LEMMA TrackerFields ==
  ASSUME tracker \in Tracker
  PROVE  /\ tracker.current \in Languages
         /\ tracker.locked \in BOOLEAN /\ tracker.provisional \in BOOLEAN
         /\ tracker.candidate \in Spoken /\ tracker.streak \in Nat
         /\ tracker.driftCandidate \in Spoken /\ tracker.driftStreak \in Nat
         /\ tracker.drifts \in Nat
BY DEF Tracker

\* A lock leaves no streak behind, and the count of drifts as it was.
LEMMA LockKeeps ==
  ASSUME NEW t \in Tracker, NEW l \in Languages, NEW settled \in BOOLEAN
  PROVE  LET n == Lock(t, l, settled)
         IN  /\ n \in Tracker
             /\ n.current = l /\ n.locked /\ n.provisional = settled
             /\ n.driftStreak = 0 /\ n.drifts = t.drifts
<1>1. None \in Spoken /\ 0 \in Nat
  BY DEF Spoken
<1> QED BY <1>1 DEF Lock, Tracker

\* How observe counts, of a language that is not locked: it stays, or moves to one
\* that has a voice after a streak.
LEMMA ObserveKeeps ==
  ASSUME tracker \in Tracker, NEW l \in Spoken
  PROVE  LET n == Observe(tracker, l)
             run == IF l = tracker.candidate THEN tracker.streak + 1 ELSE 1
         IN  /\ n \in Tracker
             /\ n.locked = tracker.locked /\ n.provisional = tracker.provisional
             /\ n.drifts = tracker.drifts
             /\ \/ /\ l \in {None, tracker.current}
                   /\ n.current = tracker.current /\ n.streak = 0
                \/ /\ l \notin {None, tracker.current} \cup Voices
                   /\ n = tracker
                \/ /\ l \in Voices \ {None, tracker.current} /\ run >= SwitchAfter
                   /\ n.current = l /\ n.streak = 0
                \/ /\ l \in Voices \ {None, tracker.current} /\ run < SwitchAfter
                   /\ n.current = tracker.current
                   /\ n.candidate = l /\ n.streak = run
<1> DEFINE run == IF l = tracker.candidate THEN tracker.streak + 1 ELSE 1
<1>0. None \in Spoken /\ 0 \in Nat /\ run \in Nat
  BY TrackerFields DEF Spoken
<1>1. CASE l \in {None, tracker.current}
  BY <1>0, <1>1, TrackerFields DEF Observe, Tracker
<1>2. CASE l \notin {None, tracker.current} /\ l \notin Voices
  BY <1>2 DEF Observe
<1>3. CASE l \notin {None, tracker.current} /\ l \in Voices /\ run >= SwitchAfter
  <2>1. Observe(tracker, l) = [tracker EXCEPT !.current = l, !.candidate = None, !.streak = 0]
    BY <1>3 DEF Observe
  <2>2. l \in Languages
    BY <1>3, LanguageAssumption
  <2> QED BY <1>0, <1>3, <2>1, <2>2, TrackerFields DEF Tracker
<1>4. CASE l \notin {None, tracker.current} /\ l \in Voices /\ ~(run >= SwitchAfter)
  <2>1. Observe(tracker, l) = [tracker EXCEPT !.candidate = l, !.streak = run]
    BY <1>4 DEF Observe
  <2>2. run < SwitchAfter
    BY <1>0, <1>4, Streaks
  <2> HIDE DEF run
  <2>3. Observe(tracker, l) \in Tracker /\ Observe(tracker, l).streak = run
    BY <1>0, <2>1, TrackerFields DEF Tracker
  <2> QED BY <1>4, <2>1, <2>2, <2>3, TrackerFields DEF Tracker, run
<1> QED BY <1>1, <1>2, <1>3, <1>4

LEMMA DriftKeeps ==
  ASSUME tracker \in Tracker, NEW l \in Spoken
  PROVE  LET n == ObserveDrift(tracker, l)
             run == IF l = tracker.driftCandidate THEN tracker.driftStreak + 1 ELSE 1
             needed == IF tracker.provisional THEN 1 ELSE DriftAfter
         IN  /\ n \in Tracker
             /\ n.locked = tracker.locked
             /\ \/ /\ l \in {None, tracker.current}
                   /\ n.current = tracker.current /\ n.drifts = tracker.drifts
                   /\ n.driftStreak = 0
                \/ /\ l \notin {None, tracker.current} \cup Voices
                   /\ n = tracker
                \/ /\ l \in Voices \ {None, tracker.current} /\ tracker.drifts >= MaxDrifts
                   /\ n = tracker
                \/ /\ l \in Voices \ {None, tracker.current} /\ tracker.drifts < MaxDrifts
                   /\ run < needed
                   /\ n.current = tracker.current /\ n.drifts = tracker.drifts
                   /\ n.driftCandidate = l /\ n.driftStreak = run
                \/ /\ l \in Voices \ {None, tracker.current} /\ tracker.drifts < MaxDrifts
                   /\ run >= needed
                   /\ n.current = l /\ n.drifts = tracker.drifts + 1
<1> DEFINE run == IF l = tracker.driftCandidate THEN tracker.driftStreak + 1 ELSE 1
           needed == IF tracker.provisional THEN 1 ELSE DriftAfter
<1>0. None \in Spoken /\ 0 \in Nat /\ run \in Nat /\ needed \in Nat
  BY TrackerFields, Streaks DEF Spoken
<1>1. CASE l \in {None, tracker.current}
  BY <1>0, <1>1, TrackerFields DEF ObserveDrift, Tracker
<1>2. CASE l \notin {None, tracker.current} /\ l \notin Voices
  BY <1>2 DEF ObserveDrift
<1>3. CASE l \notin {None, tracker.current} /\ l \in Voices /\ tracker.drifts >= MaxDrifts
  BY <1>3 DEF ObserveDrift
<1>4. CASE /\ l \notin {None, tracker.current} /\ l \in Voices /\ ~(tracker.drifts >= MaxDrifts)
           /\ run < needed
  <2>1. ObserveDrift(tracker, l) = [tracker EXCEPT !.driftCandidate = l, !.driftStreak = run]
    BY <1>4 DEF ObserveDrift
  <2>2. tracker.drifts < MaxDrifts
    BY <1>4, TrackerFields, Streaks
  <2> HIDE DEF run, needed
  <2>3. ObserveDrift(tracker, l) \in Tracker /\ ObserveDrift(tracker, l).driftStreak = run
    BY <1>0, <2>1, TrackerFields DEF Tracker
  <2> QED BY <1>4, <2>1, <2>2, <2>3, TrackerFields DEF Tracker, run, needed
<1>5. CASE /\ l \notin {None, tracker.current} /\ l \in Voices /\ ~(tracker.drifts >= MaxDrifts)
           /\ ~(run < needed)
  <2>1. ObserveDrift(tracker, l) =
          [tracker EXCEPT !.drifts = @ + 1, !.current = l, !.provisional = FALSE,
                          !.driftCandidate = None, !.driftStreak = 0]
    BY <1>5 DEF ObserveDrift
  <2>2. tracker.drifts < MaxDrifts /\ run >= needed /\ l \in Languages
    BY <1>0, <1>5, TrackerFields, Streaks, LanguageAssumption
  <2> HIDE DEF run, needed
  <2>3. ObserveDrift(tracker, l) =
          [current |-> l, locked |-> tracker.locked, provisional |-> FALSE,
           candidate |-> tracker.candidate, streak |-> tracker.streak,
           driftCandidate |-> None, driftStreak |-> 0, drifts |-> tracker.drifts + 1]
    BY <2>1 DEF Tracker
  <2>4. ObserveDrift(tracker, l) \in Tracker
    <3>1. tracker.drifts + 1 \in Nat /\ FALSE \in BOOLEAN
      BY TrackerFields
    <3> QED BY <1>0, <2>2, <2>3, <3>1, TrackerFields DEF Tracker
  <2>5. /\ ObserveDrift(tracker, l).locked = tracker.locked
        /\ ObserveDrift(tracker, l).current = l
        /\ ObserveDrift(tracker, l).drifts = tracker.drifts + 1
    BY <2>3
  <2> QED BY <1>5, <2>2, <2>4, <2>5 DEF run, needed
<1> QED BY <1>1, <1>2, <1>3, <1>4, <1>5

-----------------------------------------------------------------------------
\* A step of the language as Outvoted has it.
Voted ==
  \/ tracker'.current = tracker.current
  \/ awaiting
  \/ tracker.locked /\ tracker'.current = Requested(transcript)
  \/ /\ tracker.locked => transcript.clear
     /\ InARow(tracker'.current, Append(said, transcript.spoken))

LEMMA VoicesOf ==
  /\ Voices \subseteq Languages /\ Allowed \subseteq Voices
  /\ None \notin Languages /\ English \in Languages /\ Default \in Languages
  /\ Voices # {} => Default \in Voices
BY LanguageAssumption DEF Allowed

\* A row as long as the streak that is needed outvotes the language.
LEMMA RowOutvotes ==
  ASSUME NEW l \in Spoken, NEW k \in Nat, said \in Seq(Spoken), transcript.spoken = l,
         Row(l, k, said), k + 1 >= Needed, Needed \in Nat, Needed > 0
  PROVE  InARow(l, Append(said, transcript.spoken))
<1>1. Row(l, k + 1, Append(said, l))
  BY RowGrows
<1>2. Append(said, l) \in Seq(Spoken) /\ Len(Append(said, l)) \in Nat
  BY AppendProperties, LenProperties
<1>3. ASSUME NEW i \in 1 .. Needed
      PROVE  Append(said, l)[Len(Append(said, l)) + 1 - i] = l
  BY <1>1 DEF Row
<1> QED BY <1>1, <1>2, <1>3 DEF InARow, Row

LEMMA FollowKeeps ==
  ASSUME LanguageInv, Follow(transcript)
  PROVE  LanguageInv' /\ Voted
<1> DEFINE u == transcript
           l == transcript.spoken
           run == IF l = tracker.candidate THEN tracker.streak + 1 ELSE 1
<1>0. /\ u \in Transcript /\ l \in Spoken /\ tracker \in Tracker /\ said \in Seq(Spoken)
      /\ drifted \in Nat
  BY DEF LanguageInv, LanguageTypeOK, Transcript, Spoken
<1>1. /\ ~tracker.locked /\ ~awaiting
      /\ tracker' = Observe(tracker, l)
      /\ UNCHANGED <<awaiting, attempts, instructed>> /\ transcript' = Nothing
      /\ History(u)
  BY DEF Follow
<1>2. /\ tracker' \in Tracker /\ tracker'.locked = tracker.locked
      /\ tracker'.provisional = tracker.provisional /\ tracker'.drifts = tracker.drifts
  BY <1>0, <1>1, ObserveKeeps
<1>3. ~Moves(u) /\ (Moved <=> tracker'.current # tracker.current)
  BY <1>1, <1>2 DEF Moves, Moved
<1>4. drifted' = drifted
  BY <1>1 DEF History
<1>5. said' = IF tracker'.current # tracker.current THEN <<>> ELSE Remember(u)
  BY <1>1, <1>3 DEF History
<1>6. /\ tracker.streak \in Nat /\ tracker.streak < SwitchAfter
      /\ Row(tracker.candidate, tracker.streak, said) /\ ~tracker.provisional
  BY <1>1, TrackerFields DEF LanguageInv, LanguageTypeOK, Counted
<1>7. LanguageTypeOK'
  <2>1. said' \in Seq(Spoken)
    BY <1>0, <1>5, Remembered, EmptySeq
  <2>2. Nothing \in Transcript
    BY DEF Nothing, Transcript
  <2> QED BY <1>1, <1>2, <1>4, <2>1, <2>2 DEF LanguageInv, LanguageTypeOK
<1>8. /\ tracker'.current = tracker.current \/ tracker'.current \in Voices
      /\ tracker'.streak < SwitchAfter /\ Row(tracker'.candidate, tracker'.streak, said')
      /\ Voted
  <2>1. CASE l \in {None, tracker.current} /\ tracker'.current = tracker.current /\ tracker'.streak = 0
    BY <2>1, Streaks DEF Row, Voted
  <2>2. CASE l \notin {None, tracker.current} \cup Voices /\ tracker' = tracker
    <3>1. ~Counts(u)
      BY <1>1, <2>2 DEF Counts
    <3>2. tracker.streak <= Kept /\ tracker.candidate \in Spoken
      BY <1>0, <1>6, Streaks, TrackerFields
    <3>3. Row(tracker.candidate, tracker.streak, Remember(u))
      BY <1>0, <1>6, <3>1, <3>2, Remembered
    <3> QED BY <1>5, <1>6, <2>2, <3>3 DEF Voted
  <2>3. CASE /\ l \in Voices \ {None, tracker.current} /\ run >= SwitchAfter
             /\ tracker'.current = l /\ tracker'.streak = 0
    <3>1. PICK k \in Nat : run = k + 1 /\ Row(l, k, said)
      <4>1. Row(l, 0, said)
        BY DEF Row
      <4> QED BY <1>6, <4>1
    <3>2. Needed = SwitchAfter
      BY <1>1, <1>6 DEF Needed
    <3>3. InARow(l, Append(said, transcript.spoken))
      <4> HIDE DEF run
      <4>1. k + 1 >= Needed /\ Needed \in Nat /\ Needed > 0
        BY <2>3, <3>1, <3>2, Streaks
      <4>2. transcript.spoken = l
        OBVIOUS
      <4> HIDE DEF l
      <4> QED BY <1>0, <3>1, <4>1, <4>2, RowOutvotes
    <3> QED BY <1>1, <2>3, <3>3, Streaks DEF Voted, Row
  <2>4. CASE /\ l \in Voices \ {None, tracker.current} /\ run < SwitchAfter
             /\ tracker'.current = tracker.current
             /\ tracker'.candidate = l /\ tracker'.streak = run
    <3>1. PICK k \in Nat : run = k + 1 /\ Row(l, k, said)
      <4>1. Row(l, 0, said)
        BY DEF Row
      <4> QED BY <1>6, <4>1
    <3>2. Counts(u)
      BY <1>1, <2>4 DEF Counts
    <3>3. k + 1 <= Kept
      BY <2>4, <3>1, Streaks
    <3>4. Row(l, k + 1, Remember(u))
      BY <1>0, <3>1, <3>2, <3>3, Remembered
    <3> QED BY <1>5, <2>4, <3>1, <3>4 DEF Voted
  <2> QED BY <1>0, <1>1, <2>1, <2>2, <2>3, <2>4, ObserveKeeps
<1>9. VoiceSpeaks' /\ Budgeted'
  BY <1>1, <1>2, <1>4, <1>8 DEF LanguageInv, VoiceSpeaks, Budgeted
<1>10. Counted'
  BY <1>1, <1>2, <1>6, <1>8 DEF Counted
<1> QED BY <1>7, <1>8, <1>9, <1>10 DEF LanguageInv

LEMMA DriftStep ==
  ASSUME LanguageInv, Drift(transcript)
  PROVE  LanguageInv' /\ Voted
<1> DEFINE u == transcript
           l == transcript.spoken
           heard == Allowed # {} /\ u.clear
           next == IF heard THEN ObserveDrift(tracker, l) ELSE tracker
           run == IF l = tracker.driftCandidate THEN tracker.driftStreak + 1 ELSE 1
           needed == IF tracker.provisional THEN 1 ELSE DriftAfter
<1>0. /\ u \in Transcript /\ l \in Spoken /\ tracker \in Tracker /\ said \in Seq(Spoken)
      /\ drifted \in Nat /\ Nothing \in Transcript
  BY DEF LanguageInv, LanguageTypeOK, Transcript, Spoken, Nothing
<1>1. /\ tracker.locked /\ ~awaiting /\ ~Moves(u)
      /\ UNCHANGED <<awaiting, attempts>> /\ transcript' = Nothing
      /\ History(u)
      /\ \/ next.current = tracker.current /\ tracker' = next /\ UNCHANGED instructed
         \/ /\ next.current # tracker.current
            /\ tracker' = Lock(next, next.current, FALSE) /\ instructed' = next.current
  BY DEF Drift
<1>2. /\ tracker.driftStreak \in Nat /\ tracker.driftStreak < DriftAfter
      /\ Row(tracker.driftCandidate, tracker.driftStreak, said)
      /\ tracker.drifts >= MaxDrifts => tracker.driftStreak = 0
      /\ tracker.drifts \in Nat /\ tracker.drifts <= MaxDrifts /\ drifted <= tracker.drifts
      /\ tracker.current \in Languages /\ tracker.driftCandidate \in Spoken
  BY <1>0, <1>1, TrackerFields DEF LanguageInv, Counted, Budgeted
<1>3. CASE /\ heard /\ l \in Voices \ {None, tracker.current} /\ tracker.drifts < MaxDrifts
           /\ run >= needed
           /\ next \in Tracker /\ next.current = l /\ next.drifts = tracker.drifts + 1
  <2>1. l \in Languages /\ FALSE \in BOOLEAN
    BY <1>3, VoicesOf
  <2>2. tracker' = Lock(next, l, FALSE) /\ instructed' = l
    BY <1>1, <1>3
  <2>3. /\ tracker' \in Tracker /\ tracker'.current = l /\ tracker'.locked
        /\ tracker'.driftStreak = 0 /\ tracker'.drifts = tracker.drifts + 1
    <3> HIDE DEF next, l
    <3> QED BY <1>3, <2>1, <2>2, LockKeeps
  <2>4. said' = <<>> /\ drifted' = drifted + 1
    BY <1>1, <1>3, <2>3 DEF History, Moved
  <2>5. LanguageTypeOK'
    <3>1. instructed' \in Spoken /\ drifted' \in Nat /\ said' \in Seq(Spoken)
      BY <1>0, <2>1, <2>2, <2>4, EmptySeq DEF Spoken
    <3>2. awaiting' \in BOOLEAN /\ attempts' \in 0 .. MaxAttempts + 1
      BY <1>1 DEF LanguageInv, LanguageTypeOK
    <3>3. tracker' \in Tracker /\ transcript' \in Transcript
      BY <1>0, <1>1, <2>3
    <3> QED BY <3>1, <3>2, <3>3 DEF LanguageTypeOK
  <2>6a. VoiceSpeaks'
    <3>1. tracker'.current \in Voices /\ instructed' = tracker'.current
      BY <1>3, <2>2, <2>3
    <3> QED BY <3>1 DEF VoiceSpeaks
  <2>6b. Budgeted'
    <3> HIDE DEF next, run, l
    <3>1. tracker'.drifts = tracker.drifts + 1 /\ drifted' = drifted + 1
      BY <2>3, <2>4
    <3>2. tracker.drifts < MaxDrifts
      BY <1>3
    <3> QED BY <1>0, <1>2, <3>1, <3>2, Streaks DEF Budgeted
  <2>7. Counted'
    BY <2>3, Streaks DEF Counted, Row
  <2>8. PICK k \in Nat : run = k + 1 /\ Row(l, k, said)
    <3>1. Row(l, 0, said)
      BY DEF Row
    <3> QED BY <1>2, <3>1
  <2>9. InARow(l, Append(said, transcript.spoken))
    <3>1. Needed = needed
      BY <1>1 DEF Needed
    <3>2. k + 1 >= Needed /\ Needed \in Nat /\ Needed > 0
      <4>1. needed \in Nat /\ needed > 0
        BY Streaks
      <4> HIDE DEF run, needed
      <4> QED BY <1>3, <2>8, <3>1, <4>1
    <3>3. transcript.spoken = l
      OBVIOUS
    <3> HIDE DEF l
    <3> QED BY <1>0, <2>8, <3>2, <3>3, RowOutvotes
  <2> QED BY <1>1, <2>3, <2>5, <2>6a, <2>6b, <2>7, <2>9 DEF LanguageInv, Voted
<1>4. ASSUME next \in Tracker, next.current = tracker.current, next.drifts = tracker.drifts,
             next.locked, next.driftStreak < DriftAfter,
             next.drifts >= MaxDrifts => next.driftStreak = 0,
             Row(next.driftCandidate, next.driftStreak, Remember(u))
      PROVE  LanguageInv' /\ Voted
  <2>1. tracker' = next /\ instructed' = instructed
    BY <1>1, <1>4
  <2>2. ~Moved
    BY <1>1, <1>4, <2>1 DEF Moved
  <2>3. said' = Remember(u) /\ drifted' = drifted
    BY <1>1, <1>4, <2>1, <2>2 DEF History
  <2>4. LanguageTypeOK'
    BY <1>0, <1>1, <1>4, <2>1, <2>3, Remembered DEF LanguageInv, LanguageTypeOK
  <2>5. VoiceSpeaks' /\ Budgeted' /\ Counted' /\ Voted
    BY <1>1, <1>2, <1>4, <2>1, <2>3 DEF LanguageInv, VoiceSpeaks, Budgeted, Counted, Voted
  <2> QED BY <2>4, <2>5 DEF LanguageInv
<1>5. ASSUME next = tracker, ~Counts(u) \/ tracker.driftStreak = 0
      PROVE  LanguageInv' /\ Voted
  <2>1. tracker.driftStreak <= Kept
    BY <1>2, Streaks
  <2>2. Row(tracker.driftCandidate, tracker.driftStreak, Remember(u))
    <3>1. CASE ~Counts(u)
      BY <1>0, <1>2, <2>1, <3>1, Remembered
    <3>2. CASE tracker.driftStreak = 0
      BY <3>2 DEF Row
    <3> QED BY <1>5, <3>1, <3>2
  <2> HIDE DEF next
  <2> QED BY <1>0, <1>1, <1>2, <1>4, <1>5, <2>2
<1>6. CASE ~heard
  <2>1. ~Counts(u)
    BY <1>1, <1>6 DEF Counts
  <2> QED BY <1>5, <1>6, <2>1
<1>7. CASE heard
  <2>0. next = ObserveDrift(tracker, l)
    BY <1>7
  <2>1. CASE /\ l \in {None, tracker.current}
             /\ next \in Tracker /\ next.locked = tracker.locked
             /\ next.current = tracker.current /\ next.drifts = tracker.drifts
             /\ next.driftStreak = 0
    <3>1. Row(next.driftCandidate, next.driftStreak, Remember(u))
      BY <2>1 DEF Row
    <3> HIDE DEF next
    <3> QED BY <1>1, <1>4, <2>1, <3>1, Streaks
  <2>2. CASE l \notin {None, tracker.current} \cup Voices /\ next = tracker
    <3>1. ~Counts(u)
      BY <1>1, <2>2 DEF Counts
    <3> QED BY <1>5, <2>2, <3>1
  <2>3. CASE tracker.drifts >= MaxDrifts /\ next = tracker
    BY <1>2, <1>5, <2>3
  <2>4. CASE /\ l \in Voices \ {None, tracker.current} /\ tracker.drifts < MaxDrifts
             /\ run < needed
             /\ next \in Tracker /\ next.locked = tracker.locked
             /\ next.current = tracker.current /\ next.drifts = tracker.drifts
             /\ next.driftCandidate = l /\ next.driftStreak = run
    <3>1. PICK k \in Nat : run = k + 1 /\ Row(l, k, said)
      <4>1. Row(l, 0, said)
        BY DEF Row
      <4> QED BY <1>2, <4>1
    <3>2. Counts(u)
      BY <1>1, <1>7, <2>4 DEF Counts
    <3>3. run < DriftAfter /\ k + 1 <= Kept /\ ~(tracker.drifts >= MaxDrifts)
      BY <1>2, <2>4, <3>1, Streaks
    <3>4. Row(l, k + 1, Remember(u))
      BY <1>0, <3>1, <3>2, <3>3, Remembered
    <3> HIDE DEF next, run
    <3> QED BY <1>1, <1>4, <2>4, <3>1, <3>3, <3>4
  <2> QED BY <1>0, <1>3, <1>7, <2>0, <2>1, <2>2, <2>3, <2>4, DriftKeeps
<1> QED BY <1>6, <1>7

\* What is chosen or asked for has a voice, and nothing is counted any more.
LEMMA FixKeeps ==
  ASSUME LanguageInv, NEW l \in Languages, NEW settled \in BOOLEAN,
         Allowed # {} => l \in Voices, Fix(l, settled)
  PROVE  /\ tracker' \in Tracker /\ tracker'.current = l /\ instructed' = l
         /\ VoiceSpeaks' /\ Counted' /\ tracker'.drifts = tracker.drifts
<1>1. /\ tracker' \in Tracker /\ tracker'.current = l /\ tracker'.locked
      /\ tracker'.driftStreak = 0 /\ tracker'.drifts = tracker.drifts
  BY LockKeeps DEF LanguageInv, LanguageTypeOK, Fix
<1>2. instructed' = l
  BY DEF Fix
<1> QED BY <1>1, <1>2, Streaks DEF VoiceSpeaks, Counted, Row

LEMMA SettleStep ==
  ASSUME LanguageInv, attempts <= MaxAttempts, Settle(transcript)
  PROVE  LanguageInv' /\ Voted
<1> DEFINE choice == DetectChoice(transcript, Allowed)
           fallback == IF Allowed = {} \/ English \in Allowed THEN English ELSE tracker.current
           l == IF choice = None THEN fallback ELSE choice
<1>1. /\ awaiting /\ awaiting' = FALSE /\ said' = <<>> /\ transcript' = Nothing
      /\ drifted' = drifted
      /\ choice # None \/ attempts >= MaxAttempts
      /\ attempts' = IF choice = None THEN attempts + 1 ELSE attempts
      /\ Fix(l, choice = None)
  BY DEF Settle
<1>2. transcript \in Transcript /\ tracker \in Tracker /\ Nothing \in Transcript
  BY DEF LanguageInv, LanguageTypeOK, Nothing, Transcript, Spoken
<1>3. l \in Languages /\ (Allowed # {} => l \in Voices)
  <2>1. /\ choice \in Spoken /\ tracker.current \in Languages
        /\ Allowed # {} => choice \in Allowed \cup {None}
        /\ Allowed # {} => tracker.current \in Voices
    BY <1>2, ChoiceAllowed, TrackerFields DEF LanguageInv, VoiceSpeaks
  <2>2. l = IF choice = None THEN fallback ELSE choice
    OBVIOUS
  <2> HIDE DEF choice, l
  <2>3. CASE choice = None
    <3>1. l \in {English, tracker.current} /\ (Allowed # {} => l \in Allowed \cup {tracker.current})
      BY <2>2, <2>3
    <3> QED BY <2>1, <3>1, VoicesOf
  <2>4. CASE choice # None
    BY <2>1, <2>2, <2>4, VoicesOf DEF Spoken
  <2> QED BY <2>3, <2>4
<1>4. /\ tracker' \in Tracker /\ instructed' = l
      /\ VoiceSpeaks' /\ Counted' /\ tracker'.drifts = tracker.drifts
  <2>1. (choice = None) \in BOOLEAN
    OBVIOUS
  <2> HIDE DEF l, choice
  <2> QED BY <1>1, <1>3, <2>1, FixKeeps
<1>5. attempts' \in 0 .. MaxAttempts + 1
  <2> HIDE DEF choice
  <2>1. attempts \in 0 .. MaxAttempts + 1
    BY DEF LanguageInv, LanguageTypeOK
  <2> QED BY <1>1, <2>1, Streaks
<1>6. LanguageTypeOK' /\ Budgeted'
  <2> HIDE DEF l, choice
  <2> QED BY <1>1, <1>2, <1>3, <1>4, <1>5, EmptySeq
          DEF LanguageInv, LanguageTypeOK, Budgeted, Spoken
<1> QED BY <1>1, <1>4, <1>6 DEF LanguageInv, Voted

LEMMA AskStep ==
  ASSUME LanguageInv, AskAgain(transcript)
  PROVE  LanguageInv' /\ Voted
<1>1. Nothing \in Transcript
  BY DEF Nothing, Transcript, Spoken
<1>2. attempts' \in 0 .. MaxAttempts + 1
  <2>1. attempts \in 0 .. MaxAttempts + 1 /\ attempts < MaxAttempts /\ attempts' = attempts + 1
    BY DEF AskAgain, LanguageInv, LanguageTypeOK
  <2> QED BY <2>1, Streaks
<1>3. /\ UNCHANGED <<tracker, awaiting, instructed, said, drifted>>
      /\ transcript' = Nothing
  BY DEF AskAgain
<1> QED BY <1>1, <1>2, <1>3
        DEF LanguageInv, LanguageTypeOK, VoiceSpeaks, Budgeted, Counted, Voted

LEMMA SwitchStep ==
  ASSUME LanguageInv, SwitchAsAsked(transcript)
  PROVE  LanguageInv' /\ Voted
<1> DEFINE l == Requested(transcript)
<1>1. /\ tracker.locked /\ l \notin {None, tracker.current}
      /\ Fix(l, FALSE) /\ History(transcript) /\ transcript' = Nothing
      /\ UNCHANGED <<awaiting, attempts>>
  BY DEF SwitchAsAsked, Moves
<1>2. l \in Languages /\ l \in Voices
  BY <1>1, RequestAllowed, VoicesOf
<1>3. /\ tracker' \in Tracker /\ tracker'.current = l /\ instructed' = l
      /\ VoiceSpeaks' /\ Counted' /\ tracker'.drifts = tracker.drifts
  <2> HIDE DEF l
  <2> QED BY <1>1, <1>2, FixKeeps
<1>4. said' = <<>> /\ drifted' = drifted
  BY <1>1 DEF History, Moves
<1>5. LanguageTypeOK' /\ Budgeted'
  <2>1. Nothing \in Transcript
    BY DEF Nothing, Transcript, Spoken
  <2>2. instructed' \in Spoken
    BY <1>2, <1>3 DEF Spoken
  <2> HIDE DEF l
  <2> QED BY <1>1, <1>3, <1>4, <2>1, <2>2, EmptySeq DEF LanguageInv, LanguageTypeOK, Budgeted
<1> QED BY <1>1, <1>3, <1>5 DEF LanguageInv, Voted

\* The question which language the caller prefers is asked first, and again until the
\* attempts are used up.
Asking ==
  /\ state = "greeting" => attempts = 0
  /\ awaiting => attempts <= MaxAttempts

LEMMA AskingKeeps ==
  ASSUME LanguageInv, Asking, [Next]_vars
  PROVE  Asking'
<1>1. state' = "greeting" => state = "greeting"
  <2>1. CASE UNCHANGED hearing
    BY <2>1 DEF hearing
  <2>2. CASE SpeakStep
    BY <2>2 DEF SpeakStep, Greet, Answer, PromptIdle, Speak, Resume, ChunkSent, LineOver
  <2>3. CASE FrameStep
    BY <2>3 DEF FrameStep, Listen, TalkedOver, BargeIn, Unheard
  <2> QED BY <2>1, <2>2, <2>3, StepsOfEach DEF HearingStep
<1>2. CASE UNCHANGED language
  BY <1>1, <1>2 DEF Asking, language
<1>3. CASE state = "greeting" /\ AskFirst
  BY <1>1, <1>3, Streaks DEF Asking, AskFirst
<1>4. CASE \E u \in Utterance : Transcribe(u)
  BY <1>1, <1>4 DEF Asking, Transcribe
<1>5. CASE state = "thinking" /\ AskAgain(transcript)
  <2>1. attempts \in 0 .. MaxAttempts + 1 /\ attempts < MaxAttempts /\ attempts' = attempts + 1
    BY <1>5 DEF AskAgain, LanguageInv, LanguageTypeOK
  <2> QED BY <1>1, <1>5, <2>1, Streaks DEF Asking
<1>6. CASE state = "thinking" /\ Settle(transcript)
  BY <1>1, <1>6 DEF Asking, Settle
<1>7. CASE Follow(transcript) \/ SwitchAsAsked(transcript) \/ Drift(transcript)
  <2>1. UNCHANGED <<awaiting, attempts>>
    BY <1>7 DEF Follow, SwitchAsAsked, Drift
  <2> QED BY <1>1, <2>1 DEF Asking
<1> QED BY <1>2, <1>3, <1>4, <1>5, <1>6, <1>7, StepsOfEach DEF LanguageStep

LEMMA LanguageKeeps ==
  ASSUME LanguageInv, Asking, [Next]_vars
  PROVE  LanguageInv' /\ (Voted \/ UNCHANGED language)
<1>1. CASE UNCHANGED language
  BY <1>1 DEF language, LanguageInv, LanguageTypeOK, VoiceSpeaks, Budgeted, Counted
<1>2. CASE AskFirst
  BY <1>2 DEF AskFirst, LanguageInv, LanguageTypeOK, VoiceSpeaks, Budgeted, Counted, Voted
<1>3. CASE \E u \in Utterance : Transcribe(u)
  <2>1. PICK u \in Utterance : Transcribe(u)
    BY <1>3
  <2>2. transcript' \in Transcript
    BY <2>1 DEF Transcribe, Utterance
  <2> QED BY <2>1, <2>2
          DEF Transcribe, LanguageInv, LanguageTypeOK, VoiceSpeaks, Budgeted, Counted, Voted
<1>4. CASE AskAgain(transcript)
  BY <1>4, AskStep
<1>5. CASE Settle(transcript)
  <2>1. attempts <= MaxAttempts
    BY <1>5 DEF Settle, Asking
  <2> QED BY <1>5, <2>1, SettleStep
<1>6. CASE Follow(transcript)
  BY <1>6, FollowKeeps
<1>7. CASE SwitchAsAsked(transcript)
  BY <1>7, SwitchStep
<1>8. CASE Drift(transcript)
  BY <1>8, DriftStep
<1> QED BY <1>1, <1>2, <1>3, <1>4, <1>5, <1>6, <1>7, <1>8, StepsOfEach DEF LanguageStep

LEMMA LanguageAlways == Spec => [](LanguageInv /\ Asking)
<1>1. Init => LanguageInv /\ Asking
  <2> SUFFICES ASSUME Init PROVE LanguageInv /\ Asking
    OBVIOUS
  <2>1. Default \in Languages /\ None \in Spoken /\ 0 \in Nat /\ Nothing \in Transcript
    BY VoicesOf DEF Spoken, Nothing, Transcript
  <2>2. tracker \in Tracker /\ tracker.current = Default /\ ~tracker.locked
        /\ ~tracker.provisional /\ tracker.streak = 0 /\ tracker.drifts = 0
    BY <2>1 DEF Init, LanguageInit, Tracker
  <2>3. LanguageTypeOK
    <3>1. attempts \in 0 .. MaxAttempts + 1 /\ awaiting \in BOOLEAN /\ drifted \in Nat
      <4>1. attempts = 0 /\ awaiting = FALSE /\ drifted = 0
        BY DEF Init, LanguageInit
      <4>2. 0 \in 0 .. MaxAttempts + 1
        BY Streaks
      <4> QED BY <4>1, <4>2
    <3>2. instructed \in Spoken /\ transcript \in Transcript /\ said \in Seq(Spoken)
      BY <2>1, EmptySeq DEF Init, LanguageInit
    <3> QED BY <2>2, <3>1, <3>2 DEF LanguageTypeOK
  <2>4. VoiceSpeaks /\ Budgeted /\ Counted /\ Asking
    BY <2>2, VoicesOf, Streaks
       DEF Init, LanguageInit, VoiceSpeaks, Budgeted, Counted, Row, Asking
  <2> QED BY <2>3, <2>4 DEF LanguageInv
<1>2. LanguageInv /\ Asking /\ [Next]_vars => (LanguageInv /\ Asking)'
  BY LanguageKeeps, AskingKeeps
<1> QED BY <1>1, <1>2, PTL DEF Spec

\* The variables of a call's listening and of its language stay what they are typed to be.
THEOREM Typed == Spec => []TypeOK
<1>1. HearingInv /\ LanguageInv => TypeOK
  BY DEF HearingInv, LanguageInv, TypeOK
<1> QED BY <1>1, HearingAlways, LanguageAlways, PTL

\* The one way into a language without a voice is the answer to the opening question,
\* where no voice of the profile has a confirmation line; and the agent is told to
\* answer in the language it speaks.
THEOREM AlwaysAVoice == Spec => []VoiceSpeaks
<1>1. LanguageInv => VoiceSpeaks
  BY DEF LanguageInv
<1> QED BY <1>1, LanguageAlways, PTL

\* Over a whole call, a settled language is overturned unasked MaxDrifts times at most.
THEOREM GuessesAreFew == Spec => []DriftsBounded
<1>1. LanguageInv => DriftsBounded
  BY Streaks, TrackerFields DEF LanguageInv, LanguageTypeOK, Budgeted, DriftsBounded
<1> QED BY <1>1, LanguageAlways, PTL

\* Unasked, the language only moves for as many turns in a row as it takes.
THEOREM MovesAreOutvoted == Spec => Outvoted
<1>1. LanguageInv /\ Asking /\ [Next]_vars =>
        [ \/ tracker'.current = tracker.current
          \/ awaiting
          \/ tracker.locked /\ tracker'.current = Requested(transcript)
          \/ /\ tracker.locked => transcript.clear
             /\ InARow(tracker'.current, Append(said, transcript.spoken)) ]_language
  BY LanguageKeeps DEF Voted
<1> QED BY <1>1, LanguageAlways, PTL DEF Spec, Outvoted
=============================================================================
