----------------------------- MODULE Listening -----------------------------
(***************************************************************************)
(* A call between the caller's frames and the agent's next line: what the  *)
(* detectors take for an utterance becomes a turn, which the recogniser    *)
(* turns into a transcript and _process_turn (session.py) into a choice,   *)
(* a change of language or a question.  While a turn thinks, frames are    *)
(* dropped and the watchdog passes, so that it runs alone; its overlaps    *)
(* with other tasks of the call are CallSession's.                         *)
(***************************************************************************)
EXTENDS Hearing, Language

vars == <<hearing, language>>

TypeOK == HearingTypeOK /\ LanguageTypeOK
Init == HearingInit /\ LanguageInit

Open == Greet /\ AskFirst

Recognise ==
  /\ state = "thinking" /\ transcript = Nothing
  /\ \E u \in Utterance : Transcribe(u)
  /\ UNCHANGED hearing

\* Noise that cleared the gate is no answer and costs no attempt.
NoWords ==
  /\ transcript = Nothing
  /\ Resume
  /\ UNCHANGED language

\* _apologise for a recogniser that refuses.
SttFails ==
  /\ transcript = Nothing
  /\ Answer
  /\ UNCHANGED language

\* The caller's answer to the question which language they prefer.
Choose == transcript # Nothing /\ (AskAgain(transcript) \/ Settle(transcript)) /\ Answer

\* "Bengali please": confirmed, and the model is not asked.
Confirm ==
  /\ transcript # Nothing /\ ~CarriesQuestion(transcript)
  /\ SwitchAsAsked(transcript)
  /\ Answer

\* A question for the model, which answers, fails with an apology, or has
\* nothing to say.
Question ==
  /\ transcript # Nothing
  /\ \/ Follow(transcript)
     \/ Drift(transcript)
     \/ SwitchAsAsked(transcript) /\ CarriesQuestion(transcript)
  /\ Answer \/ Resume

TurnStep == Open \/ Recognise \/ NoWords \/ SttFails \/ Choose \/ Confirm \/ Question

\* What a transcript leads to takes no time: the model's comes after it, with the
\* line that answers.
Next ==
  \/ TurnStep
  \/ transcript = Nothing /\ FrameStep /\ UNCHANGED language
  \/ (PromptIdle \/ ChunkSent \/ LineOver) /\ UNCHANGED language

Spec == Init /\ [][Next]_vars
=============================================================================
