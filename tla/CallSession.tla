---------------------------- MODULE CallSession ----------------------------
(***************************************************************************)
(* One live call: vaani/pipeline/session.py, class CallSession.            *)
(*                                                                         *)
(* The call is a handful of asyncio tasks that share one object and one    *)
(* event loop: run() with the greeting and the finish, the audio consumer, *)
(* the watchdog, one task per caller turn, one playback task per spoken    *)
(* line, one hold-tone task, and the tasks of the transport and of the     *)
(* operator's route that call hangup().  A task runs without interruption  *)
(* from one suspending await to the next; `ready` is the loop's FIFO of    *)
(* runnable tasks and only its head takes a step.  pc[p] names the segment *)
(* p executes when it next runs.                                           *)
(***************************************************************************)
EXTENDS Naturals, Sequences, FiniteSets

CONSTANTS
  Turns,      \* the caller turns a call may open, a finite set
  Hanger,     \* who may hang up from outside: the transport's reader, an operator
  SlowSender, \* the tasks whose `await transport.send_event` may suspend: back-pressure
  Adversity,  \* what else the world may do beyond the ordinary, some of Adversities
  PromptAfter, HangupAfter,  \* idle_prompt_after_s and idle_hangup_after_s, in order of length
  MaxInbox    \* bound on pending caller frames; the code's queue holds 500

\* "backlog":       a whole utterance may arrive while tasks still wait to run;
\* "silent answer": the model may answer with no words at all;
\* "slow finish":   finishing may outlast the ten seconds a transport grants it.
Adversities == {"backlog", "silent answer", "slow finish"}

ASSUME TurnsAssumption == IsFiniteSet(Turns)
ASSUME HangerAssumption == Hanger \subseteq {"reader", "operator"}
ASSUME SenderAssumption == SlowSender \subseteq {"run", "consumer", "watchdog"} \cup Turns
ASSUME AdversityAssumption == Adversity \subseteq Adversities
ASSUME PatienceAssumption == {PromptAfter, HangupAfter} = {1, 2}
ASSUME MaxInboxAssumption == MaxInbox \in Nat \ {0}
ASSUME TurnNames ==
  Turns \cap {"run", "consumer", "watchdog", "reader", "operator", "none"} = {}

Service  == {"run", "consumer", "watchdog"}
Proc     == Service \cup Hanger \cup Turns
Speaker  == {"run", "watchdog"} \cup Turns
None     == "none"

State    == {"greeting", "listening", "thinking", "speaking", "transferring", "ended"}
Outcome  == {"in_progress", "completed", "cancelled", "transferred", "timeout",
             "abandoned", "caller_disconnected", "operator_ended"}
Disposition == {None, "agent", "platform"}
Action   == {None, "transfer", "hangup"}
Exchange == {None, "answered", "recorded"}

Label == {"idle", "start", "connected", "enter", "play", "announced", "speaking",
          "greeted", "waiting", "final", "join consumer", "stop hold", "stop playback",
          "stop turn", "settle", "summarised", "commit",
          "loop", "get", "barge in", "listen",
          "again", "tick", "closing",
          "stt", "unheard", "line", "respond", "answered", "spoken", "act",
          "hangup", "sentinel", "hung up", "bounded", "expired", "done"}

VARIABLES
  state, outcome, disposition, saved,     \* CallSession.state and CallRecord
  pc, then, action,                       \* where each task is, and what it was asked
  ready, joining, cancelled,              \* the event loop
  play, finished, speaking, audible,      \* playback tasks and _speaking_task
  hold, holdTask,                         \* hold-tone tasks and _hold
  utterance, idle, prompted,              \* TurnDetector, _last_caller_audio, _idle_prompted
  turnTask, exchange,                     \* _turn_task, turns
  inbox, over                             \* _inbox and the _done event

record == <<outcome, disposition, saved>>
plan   == <<then, action>>
loop   == <<ready, joining, cancelled>>
voice  == <<play, finished, speaking, audible>>
tone   == <<hold, holdTask>>
patience == <<idle, prompted>>
caller == <<utterance, patience, turnTask, exchange, inbox>>
vars   == <<state, record, pc, plan, loop, voice, tone, caller, over>>

ProcTask(p) == <<"proc", p>>
PlayTask(s) == <<"play", s>>
HoldTask(t) == <<"hold", t>>
NoTask      == <<"none", None>>
Task == {ProcTask(p) : p \in Proc} \cup {PlayTask(s) : s \in Speaker}
          \cup {HoldTask(t) : t \in Turns}

-----------------------------------------------------------------------------
(* The event loop.                                                         *)

Queued(x)  == \E i \in 1..Len(ready) : ready[i] = x
Live(p)    == pc[p] \notin {"idle", "done"}
Joiners(x) == {p \in Proc : joining[p] = x}

\* The orders in which a set of tasks may be put on the queue together.
Orders(S) ==
  {q \in [1..Cardinality(S) -> {ProcTask(p) : p \in S}] :
     \A i, j \in 1..Cardinality(S) : q[i] = q[j] => i = j}

\* task.cancel(): a task that awaits another passes the cancellation on to it,
\* and playback and tone, only ever awaited once cancelled, absorb it.  Any
\* other receives CancelledError where it next runs.
Reached(p) == IF joining[p][1] = "proc" THEN joining[p][2] ELSE p
Struck(p)  == {x \in {Reached(p)} : Live(x) /\ joining[x] = NoTask}
Woken(p)   ==
  IF Struck(p) # {} /\ ~Queued(ProcTask(Reached(p))) THEN <<ProcTask(Reached(p))>> ELSE <<>>

\* Mutant: _speak lets the cancellation of `finished.wait()` through.
SuppressingLess == {"enter", "play", "unheard", "sentinel", "barge in",
                    "join consumer", "stop hold", "stop playback", "stop turn", "settle"}

\* Awaits that swallow CancelledError: the code suppresses it there.
Suppressing == {"enter", "play", "speaking", "unheard", "sentinel", "barge in",
                "join consumer", "stop hold", "stop playback", "stop turn", "settle"}

\* p is the running task and is about to execute segment l.
Runs(p, l) ==
  /\ ready # <<>>
  /\ Head(ready) = ProcTask(p)
  /\ pc[p] = l
  /\ p \in cancelled => l \in Suppressing

\* p carries on into segment l without giving up the loop.
Continue(p, l) ==
  /\ pc' = [pc EXCEPT ![p] = l]
  /\ joining' = [joining EXCEPT ![p] = NoTask]
  /\ cancelled' = cancelled \ {p}
  /\ UNCHANGED ready

\* p suspends in front of segment l, awaiting task x (or NoTask, when something
\* else will wake it); the tasks q become runnable.
Suspend(p, l, x, q) ==
  /\ pc' = [pc EXCEPT ![p] = l]
  /\ joining' = [joining EXCEPT ![p] = x]
  /\ cancelled' = cancelled \ {p}
  /\ ready' = Tail(ready) \o q

\* `await transport.send_event(...)`: suspends only under back-pressure.
Send(p, l) ==
  \/ Continue(p, l)
  \/ p \in SlowSender /\ Suspend(p, l, NoTask, <<>>)

\* The running task x is over: the tasks q, then those awaiting it, become runnable.
TaskOver(x, q) ==
  /\ \E woken \in Orders(Joiners(x)) : ready' = Tail(ready) \o q \o woken
  /\ joining' = [p \in Proc |-> IF joining[p] = x THEN NoTask ELSE joining[p]]

Return(p, q) ==
  /\ pc' = [pc EXCEPT ![p] = "done"]
  /\ cancelled' = cancelled \ {p}
  /\ TaskOver(ProcTask(p), q)

\* What asyncio.wait({consumer, ended}) in run() is waiting for has happened.
WakeRun ==
  IF pc["run"] = "waiting" /\ ~Queued(ProcTask("run")) THEN <<ProcTask("run")>> ELSE <<>>

WakeConsumer ==
  IF pc["consumer"] = "get" /\ ~Queued(ProcTask("consumer"))
  THEN <<ProcTask("consumer")>> ELSE <<>>

-----------------------------------------------------------------------------
Init ==
  /\ state = "greeting"
  /\ outcome = "in_progress" /\ disposition = None /\ saved = {}
  /\ pc = [p \in Proc |-> IF p = "run" THEN "start" ELSE "idle"]
  /\ then = [s \in Speaker |-> "idle"]
  /\ action = [t \in Turns |-> None]
  /\ ready = <<ProcTask("run")>>
  /\ joining = [p \in Proc |-> NoTask]
  /\ cancelled = {}
  /\ play = [s \in Speaker |-> "over"]
  /\ finished = {} /\ speaking = None /\ audible = FALSE
  /\ hold = [t \in Turns |-> "over"]
  /\ holdTask = None
  /\ utterance = "idle" /\ idle = 0 /\ prompted = FALSE /\ turnTask = None /\ inbox = <<>>
  /\ exchange = [t \in Turns |-> None]
  /\ over = FALSE

-----------------------------------------------------------------------------
(* Hold tone and playback, the two sounds the agent makes.                 *)

\* _stop_hold: cancel the tone and wait until it is gone.
StopHold(p, l) ==
  /\ holdTask' = None
  /\ IF holdTask # None /\ hold[holdTask] # "over"
     THEN /\ hold' = [hold EXCEPT ![holdTask] = "stopping"]
          /\ Suspend(p, l, HoldTask(holdTask),
                     IF hold[holdTask] = "on" THEN <<HoldTask(holdTask)>> ELSE <<>>)
     ELSE UNCHANGED hold /\ Continue(p, l)

HoldStops(t) ==
  /\ ready # <<>> /\ Head(ready) = HoldTask(t)
  /\ hold' = [hold EXCEPT ![t] = "over"]
  /\ TaskOver(HoldTask(t), <<>>)
  /\ UNCHANGED <<state, record, pc, plan, cancelled, voice, holdTask, caller, over>>

\* Mutant: the playback is forgotten, not cancelled.
CancelPlaybackForgets(p, l) == UNCHANGED play /\ Continue(p, l)

\* _cancel_playback: a task that has not started yet never will.
CancelPlayback(p, l) ==
  IF speaking # None /\ play[speaking] # "over"
  THEN /\ play' = [play EXCEPT ![speaking] =
                     IF @ \in {"new", "stillborn"} THEN "stillborn" ELSE "stopping"]
       /\ Suspend(p, l, PlayTask(speaking),
                  IF play[speaking] = "playing" THEN <<PlayTask(speaking)>> ELSE <<>>)
  ELSE UNCHANGED play /\ Continue(p, l)

\* _speak, up to the point where the line is free to be spoken on.
SpeakEnter(s) ==
  /\ Runs(s, "enter")
  /\ IF state = "ended"
     THEN Continue(s, then[s]) /\ UNCHANGED tone
     ELSE StopHold(s, "play")
  /\ UNCHANGED <<state, record, plan, voice, caller, over>>

\* ... the playback task is created and the speech event sent ...
SpeakPlay(s) ==
  /\ Runs(s, "play")
  /\ state' = "speaking"
  /\ audible' = FALSE
  /\ finished' = finished \ {s}
  /\ play' = [play EXCEPT ![s] = "new"]
  /\ speaking' = s
  /\ pc' = [pc EXCEPT ![s] = "announced"]
  /\ joining' = [joining EXCEPT ![s] = NoTask]
  /\ cancelled' = cancelled \ {s}
  /\ \/ ready' = Append(ready, PlayTask(s))
     \/ s \in SlowSender /\ ready' = Append(Tail(ready), PlayTask(s))
  /\ UNCHANGED <<record, plan, tone, caller, over>>

\* ... the `finished` event awaited, if it is not set yet ...
SpeakAwait(s) ==
  /\ Runs(s, "announced")
  /\ IF s \in finished THEN Continue(s, "speaking") ELSE Suspend(s, "speaking", NoTask, <<>>)
  /\ UNCHANGED <<state, record, plan, voice, tone, caller, over>>

\* ... and what follows the playback, whichever way it ended.
SpeakReturn(s) ==
  /\ Runs(s, "speaking")
  /\ speaking' = None
  /\ state' = IF state = "speaking" THEN "listening" ELSE state
  /\ utterance' = IF state = "speaking" THEN "idle" ELSE utterance
  /\ idle' = 0 /\ prompted' = FALSE
  /\ finished' = finished \ {s}
  /\ Send(s, then[s])
  /\ UNCHANGED <<record, plan, play, audible, tone, turnTask, exchange, inbox, over>>

PlayStarts(s) ==
  /\ ready # <<>> /\ Head(ready) = PlayTask(s) /\ play[s] = "new"
  /\ play' = [play EXCEPT ![s] = "playing"]
  /\ ready' = Tail(ready)
  /\ UNCHANGED <<state, record, pc, plan, joining, cancelled, finished, speaking,
                 audible, tone, caller, over>>

\* A chunk of synthesised audio reaches the caller.
ChunkSent(s) ==
  /\ play[s] = "playing"
  /\ audible' = TRUE
  /\ UNCHANGED <<state, record, pc, plan, loop, play, finished, speaking, tone, caller, over>>

WakeSpeaker(s) ==
  IF pc[s] = "speaking" /\ ~Queued(ProcTask(s)) THEN <<ProcTask(s)>> ELSE <<>>

\* The line was spoken to its end, or synthesis failed.
PlayEnds(s) ==
  /\ play[s] = "playing"
  /\ play' = [play EXCEPT ![s] = "over"]
  /\ finished' = finished \cup {s}
  /\ ready' = ready \o WakeSpeaker(s)
  /\ UNCHANGED <<state, record, pc, plan, joining, cancelled, speaking, audible,
                 tone, caller, over>>

\* Cancelled in mid-line: the finally block sets `finished`.  Cancelled before
\* its first step: the coroutine body, and so that block, never runs.
PlayCancelled(s) ==
  /\ ready # <<>> /\ Head(ready) = PlayTask(s)
  /\ play[s] \in {"stopping", "stillborn"}
  /\ play' = [play EXCEPT ![s] = "over"]
  /\ IF play[s] = "stopping"
     THEN finished' = finished \cup {s} /\ TaskOver(PlayTask(s), WakeSpeaker(s))
     ELSE UNCHANGED finished /\ TaskOver(PlayTask(s), <<>>)
  /\ UNCHANGED <<state, record, pc, plan, cancelled, speaking, audible, tone, caller, over>>

-----------------------------------------------------------------------------
(* hangup().                                                               *)

HangupOutcome(p) ==
  CASE p = "reader"   -> "caller_disconnected"
    [] p = "operator" -> "operator_ended"
    [] p = "watchdog" -> IF then[p] = "closing" THEN "abandoned" ELSE "timeout"
    [] OTHER          -> IF action[p] = "transfer" THEN "transferred" ELSE "completed"

Hangup(p) ==
  /\ Runs(p, "hangup")
  /\ IF state = "ended"
     THEN Continue(p, "hung up") /\ UNCHANGED <<state, outcome, play>>
     ELSE /\ outcome' = HangupOutcome(p)
          /\ state' = "ended"
          /\ CancelPlayback(p, "sentinel")
  /\ UNCHANGED <<disposition, saved, plan, finished, speaking, audible, tone, caller, over>>

HangupSentinel(p) ==
  /\ Runs(p, "sentinel")
  /\ speaking' = None
  /\ inbox' = Append(inbox, "end")
  /\ over' = TRUE
  /\ pc' = [pc EXCEPT ![p] = "hung up"]
  /\ joining' = [joining EXCEPT ![p] = NoTask]
  /\ cancelled' = cancelled \ {p}
  /\ ready' = ready \o WakeConsumer \o WakeRun
  /\ UNCHANGED <<state, record, plan, play, finished, audible, tone, utterance, patience, turnTask, exchange>>

\* Mutant: the transport does not wait for the session.
HungUpLeaves(p) ==
  /\ Runs(p, "hung up")
  /\ Return(p, <<>>)
  /\ UNCHANGED <<state, record, plan, voice, tone, caller, over>>

\* The transport's reader then gives the session ten seconds to finish; every
\* other caller of hangup() is done.
HungUp(p) ==
  /\ Runs(p, "hung up")
  /\ IF p = "reader" /\ Live("run")
     THEN Suspend(p, "bounded", ProcTask("run"), <<>>)
     ELSE Return(p, <<>>)
  /\ UNCHANGED <<state, record, plan, voice, tone, caller, over>>

ReaderDone ==
  /\ "reader" \in Hanger
  /\ Runs("reader", "bounded") \/ Runs("reader", "expired")
  /\ Return("reader", <<>>)
  /\ UNCHANGED <<state, record, plan, voice, tone, caller, over>>

-----------------------------------------------------------------------------
(* run().                                                                  *)

\* create_call, whose failure is suppressed but not its cancellation.
RunConnects ==
  /\ Runs("run", "start")
  /\ Suspend("run", "connected", NoTask, <<>>)
  /\ UNCHANGED <<state, record, plan, voice, tone, caller, over>>

\* The watchdog and the consumer are started; then the greeting.
RunStarts ==
  /\ Runs("run", "connected")
  /\ then' = [then EXCEPT !["run"] = "greeted"]
  /\ pc' = [pc EXCEPT !["run"] = "enter", !["watchdog"] = "again", !["consumer"] = "loop"]
  /\ ready' = ready \o <<ProcTask("watchdog"), ProcTask("consumer")>>
  /\ UNCHANGED <<state, record, action, joining, cancelled, voice, tone, caller, over>>

\* The greeting is over: listen, then wait for the call to end.
RunGreeted ==
  /\ Runs("run", "greeted")
  /\ state' = IF state # "ended" THEN "listening" ELSE state
  /\ IF over \/ pc["consumer"] = "done"
     THEN Continue("run", "final")
     ELSE Suspend("run", "waiting", NoTask, <<>>)
  /\ UNCHANGED <<record, plan, voice, tone, caller, over>>

\* The finally block: cancel the watchdog and the consumer, and see both out.
RunFinal ==
  /\ \/ Runs("run", "final")
     \/ Runs("run", "waiting")
  /\ cancelled' = (cancelled \cup Struck("watchdog") \cup Struck("consumer")) \ {"run"}
  /\ ready' = (IF Live("watchdog") THEN Tail(ready) ELSE ready)
                 \o Woken("watchdog") \o Woken("consumer")
  /\ pc' = [pc EXCEPT !["run"] = "join consumer"]
  /\ joining' = [joining EXCEPT !["run"] =
                   IF Live("watchdog") THEN ProcTask("watchdog") ELSE NoTask]
  /\ UNCHANGED <<state, record, plan, voice, tone, caller, over>>

RunJoinsConsumer ==
  /\ Runs("run", "join consumer")
  /\ IF Live("consumer")
     THEN Suspend("run", "stop hold", ProcTask("consumer"), <<>>)
     ELSE Continue("run", "stop hold")
  /\ UNCHANGED <<state, record, plan, voice, tone, caller, over>>

\* _finish(), from here to the end.
FinishHold ==
  /\ Runs("run", "stop hold")
  /\ StopHold("run", "stop playback")
  /\ UNCHANGED <<state, record, plan, voice, caller, over>>

FinishPlayback ==
  /\ Runs("run", "stop playback")
  /\ CancelPlayback("run", "stop turn")
  /\ UNCHANGED <<state, record, plan, finished, speaking, audible, tone, caller, over>>

\* Mutant: a turn in flight is left running.
FinishTurnLeaves ==
  /\ Runs("run", "stop turn")
  /\ speaking' = None
  /\ Continue("run", "settle")
  /\ UNCHANGED <<state, record, plan, play, finished, audible, tone, caller, over>>

FinishTurn ==
  /\ Runs("run", "stop turn")
  /\ speaking' = None
  /\ IF turnTask # None /\ Live(turnTask)
     THEN /\ cancelled' = (cancelled \cup Struck(turnTask)) \ {"run"}
          /\ pc' = [pc EXCEPT !["run"] = "settle"]
          /\ joining' = [joining EXCEPT !["run"] = ProcTask(turnTask)]
          /\ ready' = Tail(ready) \o Woken(turnTask)
     ELSE Continue("run", "settle")
  /\ UNCHANGED <<state, record, plan, play, finished, audible, tone, caller, over>>

\* ended_at, the default outcome, and the model's summary of a call with turns.
FinishSettles ==
  /\ Runs("run", "settle")
  /\ outcome' = IF outcome = "in_progress" THEN "completed" ELSE outcome
  /\ IF \E t \in Turns : exchange[t] = "recorded"
     THEN Suspend("run", "summarised", NoTask, <<>>)
     ELSE Continue("run", "summarised")
  /\ UNCHANGED <<state, disposition, saved, plan, voice, tone, caller, over>>

\* Mutant: the agent's disposition or nothing.
FinishDisposesNot ==
  /\ Runs("run", "summarised")
  /\ Suspend("run", "commit", NoTask, <<>>)
  /\ UNCHANGED <<state, record, plan, voice, tone, caller, over>>

\* Mutant: the record is saved first and completed in the background.
FinishSavesFirst ==
  /\ Runs("run", "summarised")
  /\ disposition' = IF disposition = None THEN "platform" ELSE disposition
  /\ saved' = {[outcome |-> outcome, disposition |-> disposition']}
  /\ Suspend("run", "commit", NoTask, <<>>)
  /\ UNCHANGED <<state, outcome, plan, voice, tone, caller, over>>

\* The platform's disposition where the agent left none, then finish_call.
FinishDisposes ==
  /\ Runs("run", "summarised")
  /\ disposition' = IF disposition = None THEN "platform" ELSE disposition
  /\ Suspend("run", "commit", NoTask, <<>>)
  /\ UNCHANGED <<state, outcome, saved, plan, voice, tone, caller, over>>

FinishCommits ==
  /\ Runs("run", "commit")
  /\ saved' = {[outcome |-> outcome, disposition |-> disposition]}
  /\ Return("run", <<>>)
  /\ UNCHANGED <<state, outcome, disposition, plan, voice, tone, caller, over>>

\* CancelledError out of an await that does not suppress it.  In the body of
\* run() it leads to the finally block; before it and in it, it ends run().
Raise(p) ==
  /\ ready # <<>> /\ Head(ready) = ProcTask(p)
  /\ p \in cancelled /\ pc[p] \notin Suppressing
  /\ IF p = "run" /\ pc[p] \notin {"connected", "summarised", "commit"}
     THEN outcome' = "cancelled" /\ Continue(p, "final")
     ELSE UNCHANGED outcome /\ Return(p, IF p = "consumer" THEN WakeRun ELSE <<>>)
  /\ UNCHANGED <<state, disposition, saved, plan, voice, tone, caller, over>>

-----------------------------------------------------------------------------
(* _consume() and _handle_frame().                                         *)

ConsumerLoops ==
  /\ Runs("consumer", "loop")
  /\ CASE state = "ended" -> Return("consumer", WakeRun)
       [] state # "ended" /\ inbox = <<>> -> Suspend("consumer", "get", NoTask, <<>>)
       [] OTHER -> Continue("consumer", "get")
  /\ UNCHANGED <<state, record, plan, voice, tone, caller, over>>

\* hangup's sentinel: the stream has ended.
ConsumerEnds ==
  /\ Runs("consumer", "get")
  /\ inbox # <<>> /\ Head(inbox) = "end"
  /\ inbox' = Tail(inbox)
  /\ Return("consumer", WakeRun)
  /\ UNCHANGED <<state, record, plan, voice, tone, utterance, patience, turnTask, exchange, over>>

TakesFrame ==
  /\ Runs("consumer", "get")
  /\ inbox # <<>> /\ Head(inbox) = "frame"
  /\ inbox' = Tail(inbox)

\* A frame nobody acts on: the agent speaks and the caller has not talked over
\* it for long enough, or the state is neither SPEAKING nor LISTENING.
FrameDropped ==
  /\ TakesFrame
  /\ state # "listening"
  /\ Continue("consumer", "loop")
  /\ UNCHANGED <<state, record, plan, voice, tone, utterance, patience, turnTask, exchange, over>>

\* The caller talks over a line they can hear.
BargeIn ==
  /\ TakesFrame
  /\ state = "speaking" /\ audible
  /\ CancelPlayback("consumer", "barge in")
  /\ UNCHANGED <<state, record, plan, finished, speaking, audible, tone,
                 utterance, patience, turnTask, exchange, over>>

BargeInSent ==
  /\ Runs("consumer", "barge in")
  /\ speaking' = None
  /\ Send("consumer", "listen")
  /\ UNCHANGED <<state, record, plan, play, finished, audible, tone, caller, over>>

\* The detector is reset and given the frame that fired the barge-in.
BargeInListens ==
  /\ Runs("consumer", "listen")
  /\ state' = "listening"
  /\ idle' = 0
  /\ \/ utterance' = "idle" /\ UNCHANGED prompted /\ Continue("consumer", "loop")
     \/ utterance' = "onset" /\ prompted' = FALSE /\ Send("consumer", "loop")
  /\ UNCHANGED <<record, plan, voice, tone, turnTask, exchange, inbox, over>>

\* The detector changes its mind about whether the caller is speaking, or not.
FrameHeard ==
  /\ TakesFrame
  /\ state = "listening"
  /\ \/ utterance = "idle" /\ utterance' = "onset"
        /\ idle' = 0 /\ prompted' = FALSE
        /\ Send("consumer", "loop")                   \* the speech_start event
     \/ utterance' \in {utterance, "idle"}
        /\ UNCHANGED patience
        /\ Continue("consumer", "loop")               \* nothing new, or a cough
  /\ UNCHANGED <<state, record, plan, voice, tone, turnTask, exchange, over>>

\* The utterance is complete: its turn gets a task, and any turn still in
\* flight is cancelled.
TurnOpens(t) ==
  /\ TakesFrame
  /\ state = "listening" /\ utterance = "speech"
  /\ pc[t] = "idle"
  /\ utterance' = "idle"
  /\ idle' = 0
  /\ state' = "thinking"
  /\ turnTask' = t
  /\ pc' = [pc EXCEPT !["consumer"] = "loop", ![t] = "start"]
  /\ IF turnTask # None /\ Live(turnTask)
     THEN /\ cancelled' = cancelled \cup Struck(turnTask)
          /\ ready' = ready \o Woken(turnTask) \o <<ProcTask(t)>>
     ELSE ready' = Append(ready, ProcTask(t)) /\ UNCHANGED cancelled
  /\ joining' = [joining EXCEPT !["consumer"] = NoTask]
  /\ UNCHANGED <<record, plan, voice, tone, prompted, exchange, over>>

-----------------------------------------------------------------------------
(* _process_turn().                                                        *)

\* _start_hold, then the recogniser.
TurnStarts(t) ==
  /\ Runs(t, "start")
  /\ IF holdTask = None /\ state # "ended"
     THEN holdTask' = t /\ hold' = [hold EXCEPT ![t] = "on"]
     ELSE UNCHANGED tone
  /\ Suspend(t, "stt", NoTask, <<>>)
  /\ UNCHANGED <<state, record, plan, voice, caller, over>>

\* Silence or noise that cleared the gate.
TurnEmpty(t) ==
  /\ Runs(t, "stt")
  /\ StopHold(t, "unheard")
  /\ UNCHANGED <<state, record, plan, voice, caller, over>>

\* Mutant: an empty transcript ends the turn and nothing else.
TurnUnheardStays(t) ==
  /\ Runs(t, "unheard")
  /\ Return(t, <<>>)
  /\ UNCHANGED <<state, record, plan, voice, tone, caller, over>>

TurnUnheard(t) ==
  /\ Runs(t, "unheard")
  /\ state' = "listening"
  /\ Return(t, <<>>)
  /\ UNCHANGED <<record, plan, voice, tone, caller, over>>

\* The turn is answered with a fixed line: an apology for the recogniser, the
\* language question again, or the confirmation of a language.  A change of
\* language in mid-call counts as an exchange.
TurnFixedLine(t) ==
  /\ Runs(t, "stt")
  /\ \/ then' = [then EXCEPT ![t] = "act"] /\ UNCHANGED exchange
     \/ /\ then' = [then EXCEPT ![t] = "spoken"]
        /\ exchange' = [exchange EXCEPT ![t] = "answered"]
  /\ Send(t, "line")
  /\ UNCHANGED <<state, record, action, voice, tone, utterance, patience, turnTask, inbox, over>>

TurnLine(t) ==
  /\ Runs(t, "line")
  /\ StopHold(t, "enter")
  /\ UNCHANGED <<state, record, plan, voice, caller, over>>

TurnAsks(t) ==
  /\ Runs(t, "stt")
  /\ Suspend(t, "respond", NoTask, <<>>)
  /\ UNCHANGED <<state, record, plan, voice, tone, caller, over>>

\* The agent's answer, and what its tools asked of the call.
TurnAnswered(t) ==
  /\ Runs(t, "respond")
  /\ exchange' = [exchange EXCEPT ![t] = "answered"]
  /\ then' = [then EXCEPT ![t] = "spoken"]
  /\ \E a \in Action : action' = [action EXCEPT ![t] = a]
  /\ Send(t, "answered")
  /\ UNCHANGED <<state, record, voice, tone, utterance, patience, turnTask, inbox, over>>

\* The agent failed or ran past its budget: what its tools had already asked
\* for is still carried out, after a fixed line.
TurnFailed(t) ==
  /\ Runs(t, "respond")
  /\ \E a \in Action : action' = [action EXCEPT ![t] = a]
  /\ then' = [then EXCEPT ![t] = "act"]
  /\ Send(t, "line")
  /\ UNCHANGED <<state, record, voice, tone, caller, over>>

\* Only an answer with words in it is spoken.
TurnSpeaks(t) ==
  /\ Runs(t, "answered")
  /\ \/ Continue(t, "enter")
     \/ "silent answer" \in Adversity /\ Continue(t, "spoken")
  /\ UNCHANGED <<state, record, plan, voice, tone, caller, over>>

TurnRecorded(t) ==
  /\ Runs(t, "spoken")
  /\ exchange' = [exchange EXCEPT ![t] = "recorded"]
  /\ Send(t, "act")
  /\ UNCHANGED <<state, record, plan, voice, tone, utterance, patience, turnTask, inbox, over>>

TurnListens(t) ==
  /\ Runs(t, "act") /\ action[t] = None
  /\ state' = IF state # "ended" THEN "listening" ELSE state
  /\ Return(t, <<>>)
  /\ UNCHANGED <<record, plan, voice, tone, caller, over>>

\* _transfer, up to its hangup.
TurnTransfers(t) ==
  /\ Runs(t, "act") /\ action[t] = "transfer"
  /\ state' = "transferring"
  /\ outcome' = "transferred"
  /\ Send(t, "hangup")
  /\ UNCHANGED <<disposition, saved, plan, voice, tone, caller, over>>

\* _end_as_requested, up to its hangup.
TurnEndsCall(t) ==
  /\ Runs(t, "act") /\ action[t] = "hangup"
  /\ disposition' = "agent"
  /\ Continue(t, "hangup")
  /\ UNCHANGED <<state, outcome, saved, plan, voice, tone, caller, over>>

-----------------------------------------------------------------------------
(* _watchdog().                                                            *)

WatchdogLoops ==
  /\ Runs("watchdog", "again")
  /\ IF state = "ended" THEN Return("watchdog", <<>>)
                        ELSE Suspend("watchdog", "tick", NoTask, <<>>)
  /\ UNCHANGED <<state, record, plan, voice, tone, caller, over>>

WatchdogTimesOut ==
  /\ Runs("watchdog", "tick")
  /\ Continue("watchdog", "hangup")
  /\ UNCHANGED <<state, record, plan, voice, tone, caller, over>>

\* "Are you still there?", asked once; or else, when the silence is long enough
\* to hang up on, the closing line.
MustAsk   == ~prompted /\ idle >= PromptAfter
MustClose == ~MustAsk /\ idle >= HangupAfter

WatchdogAsks ==
  /\ Runs("watchdog", "tick")
  /\ state = "listening" /\ MustAsk
  /\ prompted' = TRUE
  /\ then' = [then EXCEPT !["watchdog"] = "again"]
  /\ Continue("watchdog", "enter")
  /\ UNCHANGED <<state, record, action, voice, tone, utterance, idle, turnTask, exchange,
                 inbox, over>>

WatchdogClosing ==
  /\ Runs("watchdog", "tick")
  /\ state = "listening" /\ MustClose
  /\ then' = [then EXCEPT !["watchdog"] = "closing"]
  /\ Continue("watchdog", "enter")
  /\ UNCHANGED <<state, record, action, voice, tone, caller, over>>

WatchdogPasses ==
  /\ Runs("watchdog", "tick")
  /\ state = "listening" => ~MustAsk /\ ~MustClose
  /\ Continue("watchdog", "again")
  /\ UNCHANGED <<state, record, plan, voice, tone, caller, over>>

WatchdogCloses ==
  /\ Runs("watchdog", "closing")
  /\ Continue("watchdog", "hangup")
  /\ UNCHANGED <<state, record, plan, voice, tone, caller, over>>

-----------------------------------------------------------------------------
(* The world outside the loop.  Each makes a suspended task runnable.      *)

Wakes(p) ==
  /\ ready' = Append(ready, ProcTask(p))
  /\ UNCHANGED <<joining, cancelled>>

\* push_audio, short of the queue's limit.  The transport's reader is a task of
\* the same loop, so it does not run while the consumer does.
FrameArrives ==
  /\ state # "ended"
  /\ ready # <<>> => Head(ready) # ProcTask("consumer")
  /\ Len(inbox) < MaxInbox
  /\ inbox' = Append(inbox, "frame")
  /\ ready' = ready \o WakeConsumer
  /\ UNCHANGED <<state, record, pc, plan, joining, cancelled, voice, tone,
                 utterance, patience, turnTask, exchange, over>>

\* Time passes in mid-utterance.  Audio comes in real time, so whatever could
\* run when the caller began to speak has run before they are done, unless a
\* backlog is delivered all at once.
UtteranceGoesOn ==
  /\ utterance = "onset"
  /\ "backlog" \in Adversity \/ ready = <<>>
  /\ utterance' = "speech"
  /\ UNCHANGED <<state, record, pc, plan, loop, voice, tone, patience, turnTask, exchange,
                 inbox, over>>

\* Seconds of silence go by, an age for the loop, and one of the watchdog's two
\* thresholds passes.
SilenceGrows ==
  /\ ready = <<>>
  /\ idle < 2
  /\ idle' = idle + 1
  /\ UNCHANGED <<state, record, pc, plan, loop, voice, tone, utterance, prompted, turnTask,
                 exchange, inbox, over>>

\* The transport's peer goes away, or a supervisor ends the call.
HangupRequested(h) ==
  /\ h \in Hanger /\ pc[h] = "idle"
  /\ pc' = [pc EXCEPT ![h] = "hangup"]
  /\ Wakes(h)
  /\ UNCHANGED <<state, record, plan, voice, tone, caller, over>>

\* The recogniser, the model or the database answers.
ServiceAnswers(p) ==
  /\ pc[p] \in {"connected", "stt", "respond", "summarised", "commit"}
  /\ ~Queued(ProcTask(p))
  /\ Wakes(p)
  /\ UNCHANGED <<state, record, pc, plan, voice, tone, caller, over>>

Tick ==
  /\ pc["watchdog"] = "tick" /\ ~Queued(ProcTask("watchdog"))
  /\ Wakes("watchdog")
  /\ UNCHANGED <<state, record, pc, plan, voice, tone, caller, over>>

\* p waits for a send that back-pressure has suspended.
HeldUp(p) ==
  /\ p \in SlowSender
  /\ pc[p] \in {"announced", "greeted", "again", "closing", "spoken", "act", "hangup",
                "loop", "listen", "line", "answered"}
  /\ ~Queued(ProcTask(p))

SendGoesThrough(p) ==
  /\ HeldUp(p)
  /\ Wakes(p)
  /\ UNCHANGED <<state, record, pc, plan, voice, tone, caller, over>>

\* The transport's ten seconds are up, and nothing else is about to happen.
SessionBoundExpires ==
  /\ "slow finish" \in Adversity /\ "reader" \in Hanger
  /\ pc["reader"] = "bounded" /\ Live("run")
  /\ ready = <<>>
  /\ pc' = [pc EXCEPT !["reader"] = "expired"]
  /\ cancelled' = cancelled \cup Struck("run")
  /\ ready' = Woken("run")
  /\ UNCHANGED <<state, record, plan, joining, voice, tone, caller, over>>

-----------------------------------------------------------------------------
SpeakStep == \E s \in Speaker :
  SpeakEnter(s) \/ SpeakPlay(s) \/ SpeakAwait(s) \/ SpeakReturn(s)
    \/ PlayStarts(s) \/ PlayCancelled(s)

HangupStep ==
  \/ \E p \in Proc \ {"run", "consumer"} : Hangup(p) \/ HangupSentinel(p) \/ HungUp(p)
  \/ ReaderDone

RunStep ==
  \/ RunConnects \/ RunStarts \/ RunGreeted \/ RunFinal \/ RunJoinsConsumer
  \/ FinishHold \/ FinishPlayback \/ FinishTurn
  \/ FinishSettles \/ FinishDisposes \/ FinishCommits

ConsumerStep ==
  \/ ConsumerLoops \/ ConsumerEnds \/ FrameDropped
  \/ BargeIn \/ BargeInSent \/ BargeInListens
  \/ FrameHeard \/ \E t \in Turns : TurnOpens(t)

TurnStep == \E t \in Turns :
  \/ TurnStarts(t) \/ TurnEmpty(t) \/ TurnUnheard(t) \/ TurnFixedLine(t)
  \/ TurnLine(t) \/ TurnAsks(t) \/ TurnAnswered(t) \/ TurnFailed(t)
  \/ TurnSpeaks(t) \/ TurnRecorded(t)
  \/ TurnListens(t) \/ TurnTransfers(t) \/ TurnEndsCall(t)

WatchdogStep ==
  \/ WatchdogLoops \/ WatchdogTimesOut \/ WatchdogPasses
  \/ WatchdogAsks \/ WatchdogClosing \/ WatchdogCloses

\* The loop runs the task at the head of its queue.
LoopStep ==
  \/ SpeakStep \/ HangupStep \/ RunStep \/ ConsumerStep \/ TurnStep \/ WatchdogStep
  \/ \E t \in Turns : HoldStops(t)
  \/ \E p \in Proc : Raise(p)

Environment ==
  \/ FrameArrives \/ UtteranceGoesOn \/ SilenceGrows \/ Tick \/ SessionBoundExpires
  \/ \E h \in Hanger : HangupRequested(h)
  \/ \E p \in Proc : ServiceAnswers(p) \/ SendGoesThrough(p)
  \/ \E s \in Speaker : ChunkSent(s) \/ PlayEnds(s)

Next == LoopStep \/ Environment

Spec == Init /\ [][Next]_vars

\* The loop never stops running tasks; sends, services and playback end (each
\* has a time limit of its own); clocks advance whatever else goes on.
Fairness ==
  /\ WF_vars(LoopStep)
  /\ WF_vars(\E p \in Proc : SendGoesThrough(p)) /\ WF_vars(\E p \in Proc : ServiceAnswers(p))
  /\ WF_vars(\E s \in Speaker : PlayEnds(s))
  /\ WF_vars(Tick) /\ WF_vars(SilenceGrows)
  /\ SF_vars(SessionBoundExpires)

FairSpec == Spec /\ Fairness

-----------------------------------------------------------------------------
RecordOK ==
  /\ state \in State
  /\ outcome \in Outcome
  /\ disposition \in Disposition
  /\ saved \subseteq [outcome : Outcome, disposition : Disposition]

ControlOK ==
  /\ pc \in [Proc -> Label]
  /\ ready \in Seq(Task)
  /\ joining \in [Proc -> Task \cup {NoTask}]
  /\ cancelled \subseteq Proc

PlanOK ==
  /\ then \in [Speaker -> Label]
  /\ action \in [Turns -> Action]

SoundOK ==
  /\ play \in [Speaker -> {"new", "playing", "stopping", "stillborn", "over"}]
  /\ finished \subseteq Speaker
  /\ speaking \in Speaker \cup {None}
  /\ audible \in BOOLEAN
  /\ hold \in [Turns -> {"on", "stopping", "over"}]
  /\ holdTask \in Turns \cup {None}

CallerOK ==
  /\ utterance \in {"idle", "onset", "speech"}
  /\ idle \in 0..2
  /\ prompted \in BOOLEAN
  /\ turnTask \in Turns \cup {None}
  /\ exchange \in [Turns -> Exchange]
  /\ inbox \in Seq({"frame", "end"})
  /\ over \in BOOLEAN

\* The type invariant.
TypeOK == RecordOK /\ ControlOK /\ PlanOK /\ SoundOK /\ CallerOK

\* A saved record says how the call ended and what became of it.
SavedComplete == \A r \in saved : r.outcome # "in_progress" /\ r.disposition # None

\* What _start_hold says of the tone: it sounds under the thinking pause, until real
\* audio is ready, and so never while the agent listens.
ToneWhileThinking == state = "listening" => \A t \in Turns : hold[t] # "on"

\* What _speak says of `finished`: whoever awaits a playback that was cancelled is
\* unblocked.
CancellationUnblocks ==
  \A s \in Speaker : pc[s] = "speaking" /\ play[s] = "over" => Queued(ProcTask(s))

\* run() as those who await it see it (CallPromise).
Phase ==
  CASE pc["run"] = "done" -> "over"
    [] pc["run"] \in {"final", "join consumer", "stop hold", "stop playback", "stop turn",
                      "settle", "summarised", "commit"} -> "finishing"
    [] OTHER -> "running"

Promise == INSTANCE CallPromise WITH
             phase <- Phase, kept <- saved # {}, MayBeCut <- "slow finish" \in Adversity

\* The call, with all its tasks, does no more than it promises: it finishes once,
\* is saved by the step that ends it, and by no other.
KeepsPromise == Promise!Spec

\* The caller goes away and the call ends, provided that the maximum duration
\* of a call is enforced.
CallerLeaves == SF_vars(WatchdogTimesOut) => (pc["reader"] # "idle" ~> pc["run"] = "done")
=============================================================================
