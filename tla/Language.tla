------------------------------ MODULE Language ------------------------------
(***************************************************************************)
(* Which language a call is held in: LanguageTracker (pipeline/language.py) *)
(* and the parts of a turn that move it (session.py: _settle_language,     *)
(* _maybe_switch_language, _switch_language).  A transcript is reduced to  *)
(* what these decisions read of it.                                        *)
(***************************************************************************)
EXTENDS Naturals, Sequences, FiniteSets

CONSTANTS
  Languages,   \* those a caller may speak or name
  None,        \* no language was recognised
  Namings,     \* the sets of languages that a caller may name in one breath
  Order,       \* the languages that have a spoken name, in LANGUAGE_NAMES' order
  Voices,      \* those the profile has a voice for
  Confirmed,   \* those that have a line in CONFIRMATIONS
  Default,     \* the first configured voice, or Hindi when there is none
  English,     \* what is settled on when the caller cannot be understood
  SwitchAfter, DriftAfter, MaxDrifts, MaxAttempts

ASSUME LanguageAssumption ==
  /\ None \notin Languages
  /\ Namings \subseteq SUBSET Languages
  /\ Order \in Seq(Languages)
  /\ Voices \subseteq Languages /\ Confirmed \subseteq Languages
  /\ Default \in Languages /\ (Voices # {} => Default \in Voices)
  /\ English \in Languages
  /\ {SwitchAfter, DriftAfter, MaxDrifts} \subseteq Nat \ {0}
  /\ MaxAttempts \in Nat

\* names: the languages named; asks: a verb of speaking stands beside; content:
\* what is left without names, verbs and fillers; spoken: what the recogniser
\* heard it in; clear: drift_qualifies.
Transcript == [names : Namings \cup {{}}, asks : BOOLEAN,
               content : {"silence", "none", "some", "question"},
               spoken : Languages \cup {None}, clear : BOOLEAN]
Nothing == [names |-> {}, asks |-> FALSE, content |-> "silence", spoken |-> None, clear |-> FALSE]
Utterance == {u \in Transcript : u.content # "silence"}

VARIABLES
  tracker,    \* LanguageTracker
  awaiting,   \* _awaiting_language
  attempts,   \* _language_attempts
  instructed, \* the language the agent's system prompt asks for, or None
  transcript, \* what the turn in flight was heard to say
  said,       \* history: the languages of the turns that count, since the last move
  drifted     \* history: moves of a settled language that nobody asked for

language == <<tracker, awaiting, attempts, instructed, transcript, said, drifted>>

Spoken == Languages \cup {None}
Tracker == [current : Languages, locked : BOOLEAN, provisional : BOOLEAN,
            candidate : Spoken, streak : Nat,
            driftCandidate : Spoken, driftStreak : Nat, drifts : Nat]

LanguageTypeOK ==
  /\ tracker \in Tracker
  /\ awaiting \in BOOLEAN
  /\ attempts \in 0 .. MaxAttempts + 1
  /\ instructed \in Spoken
  /\ transcript \in Transcript
  /\ said \in Seq(Spoken)
  /\ drifted \in Nat

LanguageInit ==
  /\ tracker = [current |-> Default, locked |-> FALSE, provisional |-> FALSE,
                candidate |-> None, streak |-> 0,
                driftCandidate |-> None, driftStreak |-> 0, drifts |-> 0]
  /\ awaiting = FALSE /\ attempts = 0
  /\ instructed = None
  /\ transcript = Nothing
  /\ said = <<>>
  /\ drifted = 0

-----------------------------------------------------------------------------
\* Mutant: a lock forgives the drifts so far.
LockForgiving(t, l, settled) ==
  [t EXCEPT !.current = l, !.locked = TRUE, !.provisional = settled, !.drifts = 0,
            !.candidate = None, !.streak = 0, !.driftCandidate = None, !.driftStreak = 0]
\* LanguageTracker.lock; the count of drifts survives it.
Lock(t, l, settled) ==
  [t EXCEPT !.current = l, !.locked = TRUE, !.provisional = settled,
            !.candidate = None, !.streak = 0, !.driftCandidate = None, !.driftStreak = 0]

\* LanguageTracker.observe, for a language that is not locked.
Observe(t, l) ==
  IF l \in {None, t.current} THEN [t EXCEPT !.candidate = None, !.streak = 0]
  ELSE IF l \notin Voices THEN t
  ELSE LET run == IF l = t.candidate THEN t.streak + 1 ELSE 1
       IN  IF run >= SwitchAfter
           THEN [t EXCEPT !.current = l, !.candidate = None, !.streak = 0]
           ELSE [t EXCEPT !.candidate = l, !.streak = run]

\* Mutant: a language without a voice is drifted to.
DriftVoiceless(t, l) ==
  IF l \in {None, t.current} THEN [t EXCEPT !.driftCandidate = None, !.driftStreak = 0]
  ELSE IF t.drifts >= MaxDrifts THEN t
  ELSE IF (IF l = t.driftCandidate THEN t.driftStreak + 1 ELSE 1) < DriftAfter
  THEN [t EXCEPT !.driftCandidate = l,
                 !.driftStreak = IF l = t.driftCandidate THEN @ + 1 ELSE 1]
  ELSE [t EXCEPT !.drifts = @ + 1, !.current = l, !.provisional = FALSE,
                 !.driftCandidate = None, !.driftStreak = 0]

\* Mutant: another candidate inherits the streak of the one before.
DriftInherits(t, l) ==
  IF l \in {None, t.current} THEN [t EXCEPT !.driftCandidate = None, !.driftStreak = 0]
  ELSE IF l \notin Voices \/ t.drifts >= MaxDrifts THEN t
  ELSE IF t.driftStreak + 1 < (IF t.provisional THEN 1 ELSE DriftAfter)
  THEN [t EXCEPT !.driftCandidate = l, !.driftStreak = @ + 1]
  ELSE [t EXCEPT !.drifts = @ + 1, !.current = l, !.provisional = FALSE,
                 !.driftCandidate = None, !.driftStreak = 0]
\* LanguageTracker.observe_drift, for a locked one.
ObserveDrift(t, l) ==
  IF l \in {None, t.current} THEN [t EXCEPT !.driftCandidate = None, !.driftStreak = 0]
  ELSE IF l \notin Voices \/ t.drifts >= MaxDrifts THEN t
  ELSE LET run == IF l = t.driftCandidate THEN t.driftStreak + 1 ELSE 1
           needed == IF t.provisional THEN 1 ELSE DriftAfter
       IN  IF run < needed
           THEN [t EXCEPT !.driftCandidate = l, !.driftStreak = run]
           ELSE [t EXCEPT !.drifts = @ + 1, !.current = l, !.provisional = FALSE,
                          !.driftCandidate = None, !.driftStreak = 0]

Allowed == Voices \cap Confirmed

\* The first of the allowed languages that is named; no restriction when none is.
FirstNamed(names, allowed) ==
  LET hits == {i \in DOMAIN Order : Order[i] \in names /\ Order[i] \in allowed}
  IN  IF hits = {} THEN None ELSE Order[CHOOSE i \in hits : \A j \in hits : i <= j]

DetectChoice(u, allowed) ==
  LET within == IF allowed = {} THEN Languages ELSE allowed
      named == FirstNamed(u.names, within)
  IN  IF named # None THEN named
      ELSE IF u.spoken \in within THEN u.spoken ELSE None

\* detect_switch_request: the language asked for in mid-call, or None.
Requested(u) ==
  IF u.asks \/ u.content = "none" THEN FirstNamed(u.names, Allowed) ELSE None

Moves(u) == tracker.locked /\ Requested(u) \notin {None, tracker.current}
CarriesQuestion(u) == u.content = "question"

-----------------------------------------------------------------------------
\* History: the last of the turns that the tracker may count.
Kept == IF SwitchAfter > DriftAfter THEN SwitchAfter ELSE DriftAfter
Counts(u) ==
  IF tracker.locked
  THEN Allowed # {} /\ u.clear /\ (u.spoken \in Voices \cup {None, tracker.current})
  ELSE u.spoken \in Voices \cup {None, tracker.current}
Remember(u) ==
  LET all == IF Counts(u) THEN Append(said, u.spoken) ELSE said
  IN  IF Len(all) > Kept THEN Tail(all) ELSE all
Moved == \/ tracker'.current # tracker.current
         \/ tracker'.locked # tracker.locked
History(u) ==
  /\ said' = IF Moved \/ Moves(u) THEN <<>> ELSE Remember(u)
  /\ drifted' = IF tracker.locked /\ tracker'.current # tracker.current /\ ~Moves(u)
                THEN drifted + 1 ELSE drifted

\* The recogniser's answer arrives.
Transcribe(u) ==
  /\ transcript' = u
  /\ UNCHANGED <<tracker, awaiting, attempts, instructed, said, drifted>>

\* run(): a profile either has the question asked (ask_language) or it does not.
AskFirst ==
  /\ awaiting' \in BOOLEAN
  /\ UNCHANGED <<tracker, attempts, instructed, transcript, said, drifted>>

\* _settle_language, the answer not understood and attempts left: ask again.
AskAgain(u) ==
  /\ awaiting
  /\ DetectChoice(u, Allowed) = None
  /\ attempts < MaxAttempts
  /\ attempts' = attempts + 1
  /\ transcript' = Nothing
  /\ UNCHANGED <<tracker, awaiting, instructed, said, drifted>>

\* The language of the call from now on, for tracker and agent alike.
Fix(l, settled) ==
  /\ tracker' = Lock(tracker, l, settled)
  /\ instructed' = l

\* _settle_language: chosen, or settled on when asking again led nowhere.
Settle(u) ==
  LET choice == DetectChoice(u, Allowed)
      fallback == IF Allowed = {} \/ English \in Allowed THEN English ELSE tracker.current
  IN  /\ awaiting
      /\ choice # None \/ attempts >= MaxAttempts
      /\ attempts' = IF choice = None THEN attempts + 1 ELSE attempts
      /\ Fix(IF choice = None THEN fallback ELSE choice, choice = None)
      /\ awaiting' = FALSE
      /\ said' = <<>>
      /\ transcript' = Nothing
      /\ UNCHANGED drifted

\* _maybe_switch_language, nothing chosen yet: the ordinary hysteresis.
Follow(u) ==
  /\ ~awaiting /\ ~tracker.locked
  /\ tracker' = Observe(tracker, u.spoken)
  /\ History(u)
  /\ transcript' = Nothing
  /\ UNCHANGED <<awaiting, attempts, instructed>>

\* _maybe_switch_language: the caller asks for another language.
SwitchAsAsked(u) ==
  /\ ~awaiting /\ tracker.locked
  /\ Moves(u)
  /\ Fix(Requested(u), FALSE)
  /\ History(u)
  /\ transcript' = Nothing
  /\ UNCHANGED <<awaiting, attempts>>

\* _maybe_switch_language: the caller may simply have carried on in another one.
Drift(u) ==
  /\ ~awaiting /\ tracker.locked
  /\ ~Moves(u)
  /\ LET next == IF Allowed # {} /\ u.clear
                 THEN ObserveDrift(tracker, u.spoken) ELSE tracker
     IN  IF next.current = tracker.current
         THEN /\ tracker' = next
              /\ UNCHANGED instructed
         ELSE /\ tracker' = Lock(next, next.current, FALSE)
              /\ instructed' = next.current
  /\ History(u)
  /\ transcript' = Nothing
  /\ UNCHANGED <<awaiting, attempts>>

-----------------------------------------------------------------------------
\* Whatever the caller named, spoke or drifted to, a call that began with a voice
\* changes into a language without one in a single way (observe, observe_drift,
\* detect_switch_request and _settle_language say it should in none): no voice of
\* the profile has a confirmation line, and the answer to the opening question,
\* which is then not restricted, fixed the language.  And once a language is
\* fixed, the agent is told to answer in the one it is spoken in: an answer in
\* another would be read out by the wrong voice.
VoiceSpeaks ==
  /\ tracker.current \in Voices \/ (Allowed = {} /\ (tracker.locked \/ Voices = {}))
  /\ tracker.locked => instructed = tracker.current

\* What _settle_language's comment says of the opening question, and what a profile
\* whose voices have no confirmation line refutes: "Restricted to languages we can
\* both speak and confirm in. Without this a detected language with no voice gets
\* locked in" (session.py:702-704).
NeverVoiceless == tracker.locked => tracker.current \in Voices

\* "This only bounds the guessing": over a whole call, locks and requests in
\* between included, a settled language is overturned unasked MaxDrifts times at
\* most (observe_drift and lock, language.py).
DriftsBounded == drifted <= MaxDrifts

\* The language is a promise: unasked, it moves only when as many turns in a
\* row as it takes were all in the new language, of those clear enough to
\* count; a choice takes DriftAfter, one nobody made a single turn.
Needed ==
  IF tracker.provisional THEN 1 ELSE IF tracker.locked THEN DriftAfter ELSE SwitchAfter
InARow(l, run) == Len(run) >= Needed /\ \A i \in 1 .. Needed : run[Len(run) + 1 - i] = l
Outvoted ==
  [][ \/ tracker'.current = tracker.current
      \/ awaiting
      \/ tracker.locked /\ tracker'.current = Requested(transcript)
      \/ /\ tracker.locked => transcript.clear
         /\ InARow(tracker'.current, Append(said, transcript.spoken))
    ]_language
=============================================================================
