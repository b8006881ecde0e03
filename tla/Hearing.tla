------------------------------ MODULE Hearing ------------------------------
(***************************************************************************)
(* What a call makes of the caller's audio: TurnDetector and               *)
(* BargeInDetector (audio/vad.py) as CallSession feeds them, one 20 ms     *)
(* frame at a time (session.py, _handle_frame), beside the lines the       *)
(* session speaks and the idle clock of its watchdog.  The frame is the    *)
(* unit of time: what the event loop has ready runs between two frames.    *)
(***************************************************************************)
EXTENDS Naturals

CONSTANTS
  SilenceFrames,   \* frames of silence that end an utterance
  MinSpeechFrames, \* voiced frames below which it was a cough
  MaxFrames,       \* frames at which an utterance is ended by force
  PreRollFrames,   \* frames kept from before the speech
  BargeFrames,     \* voiced frames in a row that cut the agent off
  PromptAfter      \* frames of silence before the caller is asked for

ASSUME FrameAssumption ==
  /\ {SilenceFrames, MinSpeechFrames, BargeFrames} \subseteq Nat \ {0}
  /\ {MaxFrames, PreRollFrames, PromptAfter} \subseteq Nat
  /\ PreRollFrames + 1 < MaxFrames

VARIABLES
  state,    \* CallState, of a call that goes on
  detector, \* TurnDetector
  barge,    \* BargeInDetector._run
  line,     \* a line of the agent: none, playing, or cut off by the caller
  audible,  \* whether some of it has left for the caller
  idle,     \* frames since _last_caller_audio, up to PromptAfter + 1
  prompted, \* _idle_prompted
  gap,      \* history: frames went by unheard since the last one the detector got
  broken,   \* history: the detector's buffers hold frames from both sides of a gap
  loud      \* history: voiced frames in a row over what the caller hears, up to BargeFrames

hearing == <<state, detector, barge, line, audible, idle, prompted, gap, broken, loud>>

Detector == [speaking : BOOLEAN, preRoll : 0 .. PreRollFrames, buffer : 0 .. MaxFrames,
             voiced : 0 .. MaxFrames, silence : 0 .. SilenceFrames]
Deaf == [speaking |-> FALSE, preRoll |-> 0, buffer |-> 0, voiced |-> 0, silence |-> 0]

\* A frame as the two detectors of voice judge it, the second being the stricter.
Frame == [voiced : BOOLEAN, strict : BOOLEAN]

HearingTypeOK ==
  /\ state \in {"greeting", "listening", "thinking", "speaking"}
  /\ detector \in Detector
  /\ barge \in 0 .. BargeFrames - 1
  /\ line \in {"none", "playing", "cut"}
  /\ idle \in 0 .. PromptAfter + 1
  /\ {audible, prompted, gap, broken} \subseteq BOOLEAN
  /\ loud \in 0 .. BargeFrames

HearingInit ==
  /\ state = "greeting"
  /\ detector = Deaf
  /\ barge = 0
  /\ line = "none"
  /\ audible = FALSE
  /\ idle = 0
  /\ prompted = FALSE
  /\ gap = FALSE /\ broken = FALSE /\ loud = 0

Least(m, n) == IF m < n THEN m ELSE n
Ticks == Least(idle + 1, PromptAfter + 1)

-----------------------------------------------------------------------------
\* TurnDetector.push: the detector after a frame, and what it reports.

Onset(d, f) == ~d.speaking /\ f.voiced

Heard(d, f) ==
  IF Onset(d, f)
  THEN [Deaf EXCEPT !.speaking = TRUE, !.buffer = d.preRoll + 1, !.voiced = 1]
  ELSE IF ~d.speaking
  THEN [d EXCEPT !.preRoll = Least(@ + 1, PreRollFrames)]
  ELSE [d EXCEPT !.buffer = @ + 1,
                 !.voiced = IF f.voiced THEN @ + 1 ELSE @,
                 !.silence = IF f.voiced THEN 0 ELSE @ + 1]

Settled(d) == d.silence >= SilenceFrames
TooLong(d) == d.buffer >= MaxFrames
\* The utterance is over with the frame; a cough is dropped.
Over(d, f) == d.speaking /\ (Settled(Heard(d, f)) \/ TooLong(Heard(d, f)))
Ended(d, f) == Over(d, f) /\ Heard(d, f).voiced >= MinSpeechFrames
Push(d, f) == IF Over(d, f) THEN Deaf ELSE Heard(d, f)

\* History: whether the frames the detector holds are neighbours.
Holds(d) == d.buffer + d.preRoll > 0

-----------------------------------------------------------------------------
\* _handle_frame in LISTENING: onset, end of an utterance, or neither.
Listen(f) ==
  /\ state = "listening" /\ line # "cut"
  /\ detector' = Push(detector, f)
  /\ state' = IF Ended(detector, f) THEN "thinking" ELSE state
  /\ idle' = IF Onset(detector, f) \/ Ended(detector, f) THEN 0 ELSE Ticks
  /\ prompted' = (prompted /\ ~Onset(detector, f))
  /\ broken' = (Holds(detector) /\ (broken \/ gap) /\ Holds(detector'))
  /\ gap' = FALSE
  /\ UNCHANGED <<barge, line, audible, loud>>

\* BargeInDetector.push.
Sustained(f) == f.strict /\ barge + 1 >= BargeFrames
Run(f) == IF f.strict /\ ~Sustained(f) THEN barge + 1 ELSE 0

\* _handle_frame in SPEAKING, no interruption: the frame is dropped.
TalkedOver(f) ==
  /\ state = "speaking" /\ line = "playing"
  /\ ~(audible /\ Sustained(f))
  /\ barge' = IF audible THEN Run(f) ELSE barge
  /\ loud' = IF audible /\ f.strict THEN Least(loud + 1, BargeFrames) ELSE 0
  /\ idle' = Ticks
  /\ gap' = TRUE
  /\ UNCHANGED <<state, detector, line, audible, prompted, broken>>

\* _handle_frame in SPEAKING: the caller cuts the agent off, and the frame is
\* the first of what they say.
BargeIn(f) ==
  /\ state = "speaking" /\ line = "playing" /\ audible
  /\ Sustained(f)
  /\ barge' = Run(f)
  /\ loud' = Least(loud + 1, BargeFrames)
  /\ line' = "cut"
  /\ state' = "listening"
  /\ detector' = Push(Deaf, f)
  /\ prompted' = (prompted /\ ~Onset(Deaf, f))
  /\ idle' = 0
  /\ gap' = FALSE /\ broken' = FALSE
  /\ UNCHANGED audible

\* _handle_frame in GREETING and THINKING: the frame is dropped.
Unheard(f) ==
  /\ state \in {"greeting", "thinking"}
  /\ idle' = Ticks
  /\ gap' = TRUE
  /\ UNCHANGED <<state, detector, barge, line, audible, prompted, broken, loud>>

FrameStep == \E f \in Frame : Listen(f) \/ TalkedOver(f) \/ BargeIn(f) \/ Unheard(f)

-----------------------------------------------------------------------------
\* Mutant: a new line does not reset the barge-in detector.
SpeakOn ==
  /\ line = "none"
  /\ state' = "speaking"
  /\ line' = "playing"
  /\ audible' = FALSE
  /\ loud' = 0
  /\ UNCHANGED <<detector, barge, idle, gap, broken>>
\* _speak, up to the creation of the playback.
Speak ==
  /\ line = "none"
  /\ state' = "speaking"
  /\ line' = "playing"
  /\ barge' = 0
  /\ audible' = FALSE
  /\ loud' = 0
  /\ UNCHANGED <<detector, idle, gap, broken>>

\* run(): the greeting, or the question which language the caller prefers.
Greet ==
  /\ state = "greeting"
  /\ Speak
  /\ UNCHANGED prompted

\* A turn answers.
Answer ==
  /\ state = "thinking"
  /\ Speak
  /\ UNCHANGED prompted

\* The watchdog finds the caller silent for too long.
PromptIdle ==
  /\ state = "listening"
  /\ ~prompted /\ idle > PromptAfter
  /\ prompted' = TRUE
  /\ Speak

\* A turn has nothing to say.
Resume ==
  /\ state = "thinking"
  /\ state' = "listening"
  /\ UNCHANGED <<detector, barge, line, audible, idle, prompted, gap, broken, loud>>

\* _speak.play: the first chunk has left for the caller.
ChunkSent ==
  /\ line = "playing" /\ ~audible
  /\ audible' = TRUE
  /\ UNCHANGED <<state, detector, barge, line, idle, prompted, gap, broken, loud>>

\* Mutant: the turn detector is not reset after a line.
LineOverUnreset ==
  /\ line # "none"
  /\ line' = "none"
  /\ idle' = 0
  /\ prompted' = FALSE
  /\ state' = "listening"
  /\ UNCHANGED <<detector, broken, barge, audible, gap, loud>>
\* _speak after the playback, whether it came to its end or was cut off.
LineOver ==
  /\ line # "none"
  /\ line' = "none"
  /\ idle' = 0
  /\ prompted' = FALSE
  /\ state' = "listening"
  /\ detector' = IF state = "speaking" THEN Deaf ELSE detector
  /\ broken' = (broken /\ state # "speaking")
  /\ UNCHANGED <<barge, audible, gap, loud>>

SpeakStep == Greet \/ Answer \/ PromptIdle \/ Resume \/ ChunkSent \/ LineOver

-----------------------------------------------------------------------------
\* The frames that make up an utterance, those kept from before the speech
\* included, followed one another on the line: what was said over the agent, or
\* while it was thinking, is not glued to what is said after.
WholeUtterances == ~broken

\* A reply is only cut off by speech that went on for the whole threshold over
\* that very reply, after the caller could hear it (BargeInDetector, vad.py).
BargeInSustained == [][line = "playing" /\ line' = "cut" => loud' = BargeFrames]_hearing
=============================================================================
