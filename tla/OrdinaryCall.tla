---------------------------- MODULE OrdinaryCall ----------------------------
(***************************************************************************)
(* A call, and whether anything has strained it yet: a send that           *)
(* back-pressure holds up, caller audio that comes in a backlog, an answer *)
(* without words.  CallSession lets all three happen, and what follows     *)
(* them is not what the code intends (README).  Here is what it keeps in   *)
(* every call until the first of them, whatever else happens in it.        *)
(***************************************************************************)
EXTENDS CallSession

VARIABLE strained  \* history: one of them has happened in this call

Backlogged == utterance = "onset" /\ utterance' = "speech" /\ ready # <<>>

Wordless == \E t \in Turns : pc[t] = "answered" /\ pc'[t] = "spoken"

Strains == (\E p \in Proc : HeldUp(p)') \/ Backlogged \/ Wordless

hvars == <<vars, strained>>

HInit == Init /\ strained = FALSE
HNext == Next /\ strained' = (strained \/ Strains)

HSpec == HInit /\ [][HNext]_hvars

-----------------------------------------------------------------------------
\* One line at a time: until the call is strained or over no two playbacks are alive
\* together, so neither a barge-in, the greeting, a turn nor the watchdog can make the
\* agent talk over itself; nor does the hold tone sound under speech (_speak,
\* _cancel_playback, _start_hold, _stop_hold).
Heard(s) == play[s] \in {"new", "playing"}
OneVoice ==
  ~strained /\ ~over => \A s \in Speaker : Heard(s) =>
    /\ \A other \in Speaker : Heard(other) => other = s
    /\ \A t \in Turns : hold[t] # "on"

\* In a state that nothing but a task of its own leaves, there is one that will, in a
\* call that was not strained: a turn that was not cancelled while THINKING, where
\* frames are dropped and the watchdog passes by, and a task that waits for its line
\* while SPEAKING.
Attended ==
  ~strained =>
    /\ state = "thinking" /\ ~over => \E t \in Turns : Live(t) /\ t \notin cancelled
    /\ state = "speaking" => \E s \in Speaker : pc[s] \in {"announced", "speaking"}

\* What outlives the call: no turn and no hold tone is left when run() returns, if
\* nothing strained it.
QuietAfterFinish ==
  ~strained /\ pc["run"] = "done" => \A t \in Turns : hold[t] = "over" /\ ~Live(t)

\* The record that is saved of a call nothing strained holds every exchange the agent
\* answered, one cut short by the end of the call included.
AnswersRecorded == ~strained /\ saved # {} => \A t \in Turns : exchange[t] # "answered"
=============================================================================
