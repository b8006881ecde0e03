------------------------- MODULE CallSessionProofs -------------------------
(***************************************************************************)
(* Theorems about CallSession, for any number of turns, any choice of who  *)
(* hangs up and of which sends are slow, and every adversity; the last, of *)
(* the event loop, for calls whose sends are not held up.                  *)
(***************************************************************************)
EXTENDS CallSession, FiniteSetTheorems, SequenceTheorems, TLAPS

\* The names of tasks are tasks.
LEMMA TaskNames ==
  /\ \A p \in Proc : ProcTask(p) \in Task
  /\ \A s \in Speaker : PlayTask(s) \in Task
  /\ \A t \in Turns : HoldTask(t) \in Task
  /\ Speaker \subseteq Proc /\ Turns \subseteq Speaker
  /\ NoTask \in Task \cup {NoTask}
BY DEF Task, Speaker, Proc, Service

\* There are finitely many tasks to run.
LEMMA ProcFinite == IsFiniteSet(Proc)
<1>1. \A x : IsFiniteSet({x})
  BY FS_Singleton
<1>2. \A S, T : IsFiniteSet(S) /\ IsFiniteSet(T) => IsFiniteSet(S \cup T)
  BY FS_Union
<1>3. IsFiniteSet(({"run"} \cup {"consumer"}) \cup {"watchdog"})
  BY <1>1, <1>2, Zenon
<1>4. Service = ({"run"} \cup {"consumer"}) \cup {"watchdog"}
  BY DEF Service
<1>5. IsFiniteSet({"reader"} \cup {"operator"}) /\ Hanger \subseteq {"reader"} \cup {"operator"}
  BY <1>1, <1>2, HangerAssumption
<1>6. IsFiniteSet(Hanger)
  BY <1>5, FS_Subset
<1> QED
  BY <1>2, <1>3, <1>4, <1>6, TurnsAssumption DEF Proc

\* Tasks woken together make a sequence of tasks, in whatever order.
LEMMA OrdersType ==
  ASSUME NEW S \in SUBSET Proc
  PROVE  Orders(S) \subseteq Seq(Task)
<1>1. Cardinality(S) \in Nat
  BY ProcFinite, FS_Subset, FS_CardinalityType
<1>2. {ProcTask(p) : p \in S} \subseteq Task
  BY DEF Task
<1>3. ASSUME NEW q \in Orders(S) PROVE q \in Seq(Task)
  <2>1. q \in [1..Cardinality(S) -> {ProcTask(p) : p \in S}]
    BY DEF Orders
  <2>2. q \in [1..Cardinality(S) -> Task]
    BY <1>2, <2>1
  <2> QED BY <1>1, <2>2
<1> QED BY <1>3

-----------------------------------------------------------------------------
(* Type correctness, operator by operator.                                 *)

\* Whatever wakes a task names a task.
LEMMA WakeTypes ==
  /\ WakeRun \in Seq(Task) /\ WakeConsumer \in Seq(Task)
  /\ \A s \in Speaker : WakeSpeaker(s) \in Seq(Task)
<1>1. {"run", "consumer", "watchdog"} \subseteq Proc
  BY DEF Proc, Service
<1> QED
  BY <1>1, TaskNames DEF WakeRun, WakeConsumer, WakeSpeaker

\* cancel() reaches a task, and wakes that one or none.
LEMMA CancelTypes ==
  ASSUME ControlOK, NEW p \in Proc
  PROVE  Struck(p) \subseteq Proc /\ Woken(p) \in Seq(Task)
<1>1. Reached(p) \in Proc
  <2>1. joining[p] \in Task \cup {NoTask}
    BY DEF ControlOK
  <2>2. CASE joining[p][1] = "proc"
    <3>1. joining[p] \in {ProcTask(q) : q \in Proc}
      BY <2>1, <2>2 DEF Task, NoTask, ProcTask, PlayTask, HoldTask
    <3> QED BY <2>2, <3>1 DEF Reached, ProcTask
  <2> QED BY <2>2 DEF Reached
<1> QED
  BY <1>1, TaskNames DEF Struck, Woken

LEMMA ContinueType ==
  ASSUME ControlOK, NEW p \in Proc, NEW l \in Label, Continue(p, l)
  PROVE  ControlOK'
BY DEF ControlOK, Continue

LEMMA SuspendType ==
  ASSUME ControlOK, ready # <<>>, NEW p \in Proc, NEW l \in Label,
         NEW x \in Task \cup {NoTask}, NEW q \in Seq(Task), Suspend(p, l, x, q)
  PROVE  ControlOK'
<1>1. Tail(ready) \in Seq(Task)
  BY HeadTailProperties DEF ControlOK
<1>2. ready' \in Seq(Task)
  BY <1>1, ConcatProperties DEF Suspend
<1> QED
  BY <1>2 DEF ControlOK, Suspend

LEMMA SendType ==
  ASSUME ControlOK, ready # <<>>, NEW p \in Proc, NEW l \in Label, Send(p, l)
  PROVE  ControlOK'
<1>1. CASE Continue(p, l)
  BY <1>1, ContinueType
<1>2. CASE Suspend(p, l, NoTask, <<>>)
  <2>1. <<>> \in Seq(Task)
    OBVIOUS
  <2> QED BY <1>2, <2>1, SuspendType, TaskNames
<1> QED
  BY <1>1, <1>2 DEF Send

LEMMA TaskOverType ==
  ASSUME ControlOK, ready # <<>>, NEW x, NEW q \in Seq(Task), TaskOver(x, q)
  PROVE  ready' \in Seq(Task) /\ joining' \in [Proc -> Task \cup {NoTask}]
<1>1. Tail(ready) \in Seq(Task)
  BY HeadTailProperties DEF ControlOK
<1>2. Joiners(x) \in SUBSET Proc
  BY DEF Joiners
<1>3. PICK woken \in Orders(Joiners(x)) : ready' = Tail(ready) \o q \o woken
  BY DEF TaskOver
<1>4. woken \in Seq(Task)
  BY <1>2, <1>3, OrdersType
<1>5. ready' \in Seq(Task)
  BY <1>1, <1>3, <1>4, ConcatProperties
<1>6. joining' \in [Proc -> Task \cup {NoTask}]
  BY DEF TaskOver, ControlOK
<1> QED
  BY <1>5, <1>6

LEMMA ReturnType ==
  ASSUME ControlOK, ready # <<>>, NEW p \in Proc, NEW q \in Seq(Task), Return(p, q)
  PROVE  ControlOK'
<1>1. ready' \in Seq(Task) /\ joining' \in [Proc -> Task \cup {NoTask}]
  BY TaskOverType DEF Return
<1> QED
  BY <1>1 DEF ControlOK, Return, Label

LEMMA StopHoldType ==
  ASSUME ControlOK, SoundOK, ready # <<>>, NEW p \in Proc, NEW l \in Label, StopHold(p, l)
  PROVE  /\ ControlOK'
         /\ hold' \in [Turns -> {"on", "stopping", "over"}]
         /\ holdTask' \in Turns \cup {None}
<1>1. CASE holdTask # None /\ hold[holdTask] # "over"
  <2>1. holdTask \in Turns
    BY <1>1 DEF SoundOK
  <2> DEFINE q == IF hold[holdTask] = "on" THEN <<HoldTask(holdTask)>> ELSE <<>>
  <2>2. HoldTask(holdTask) \in Task \cup {NoTask} /\ q \in Seq(Task)
    BY <2>1, TaskNames
  <2>3. Suspend(p, l, HoldTask(holdTask), q)
    BY <1>1 DEF StopHold
  <2>4. ControlOK'
    BY <2>2, <2>3, SuspendType
  <2> QED BY <1>1, <2>4 DEF StopHold, SoundOK
<1>2. CASE ~(holdTask # None /\ hold[holdTask] # "over")
  BY <1>2, ContinueType DEF StopHold, SoundOK
<1> QED
  BY <1>1, <1>2

LEMMA CancelPlaybackType ==
  ASSUME ControlOK, SoundOK, ready # <<>>, NEW p \in Proc, NEW l \in Label,
         CancelPlayback(p, l)
  PROVE  /\ ControlOK'
         /\ play' \in [Speaker -> {"new", "playing", "stopping", "stillborn", "over"}]
<1>1. CASE speaking # None /\ play[speaking] # "over"
  <2>1. speaking \in Speaker
    BY <1>1 DEF SoundOK
  <2> DEFINE q == IF play[speaking] = "playing" THEN <<PlayTask(speaking)>> ELSE <<>>
  <2>2. PlayTask(speaking) \in Task \cup {NoTask} /\ q \in Seq(Task)
    BY <2>1, TaskNames
  <2>3. Suspend(p, l, PlayTask(speaking), q)
    BY <1>1 DEF CancelPlayback
  <2>4. ControlOK'
    BY <2>2, <2>3, SuspendType
  <2> QED BY <1>1, <2>4 DEF CancelPlayback, SoundOK
<1>2. CASE ~(speaking # None /\ play[speaking] # "over")
  BY <1>2, ContinueType DEF CancelPlayback, SoundOK
<1> QED
  BY <1>1, <1>2

-----------------------------------------------------------------------------
(* Type correctness, step by step.                                         *)

\* A task that runs is at the head of the queue, and is one.
LEMMA RunsReady ==
  ASSUME NEW p, NEW l, Runs(p, l)
  PROVE  ready # <<>> /\ pc[p] = l
BY DEF Runs

LEMMA SpeakStepType == TypeOK /\ SpeakStep => TypeOK'
<1> SUFFICES ASSUME TypeOK, NEW s \in Speaker,
                    \/ SpeakEnter(s) \/ SpeakPlay(s) \/ SpeakAwait(s) \/ SpeakReturn(s)
                    \/ PlayStarts(s) \/ PlayCancelled(s)
             PROVE  TypeOK'
  BY DEF SpeakStep
<1> USE DEF TypeOK
<1>a. s \in Proc /\ then[s] \in Label /\ PlayTask(s) \in Task
  BY TaskNames DEF PlanOK
<1>1. CASE SpeakEnter(s)
  <2>1. "play" \in Label
    BY DEF Label
  <2>2. CASE Continue(s, then[s]) /\ UNCHANGED tone
    <3>1. ControlOK'
      BY <1>a, <2>2, ContinueType
    <3> QED BY <1>1, <2>2, <3>1
          DEF SpeakEnter, RecordOK, PlanOK, SoundOK, CallerOK, record, plan, voice, tone, caller, patience
  <2>3. CASE StopHold(s, "play")
    <3>1. ControlOK' /\ hold' \in [Turns -> {"on", "stopping", "over"}] /\ holdTask' \in Turns \cup {None}
      BY <1>1, <1>a, <2>1, <2>3, StopHoldType, RunsReady DEF SpeakEnter
    <3> QED BY <1>1, <3>1
          DEF SpeakEnter, RecordOK, PlanOK, SoundOK, CallerOK, record, plan, voice, caller, patience
  <2> QED BY <1>1, <2>2, <2>3 DEF SpeakEnter
<1>2. CASE SpeakPlay(s)
  <2>1. ready' \in Seq(Task)
    <3>1. ready \in Seq(Task) /\ Tail(ready) \in Seq(Task)
      BY <1>2, RunsReady, HeadTailProperties DEF SpeakPlay, ControlOK
    <3>2. ready' = Append(ready, PlayTask(s)) \/ ready' = Append(Tail(ready), PlayTask(s))
      BY <1>2 DEF SpeakPlay
    <3> QED BY <1>a, <3>1, <3>2, AppendProperties
  <2>2. ControlOK'
    BY <1>2, <1>a, <2>1, TaskNames DEF SpeakPlay, ControlOK, Label
  <2> QED BY <1>2, <2>2
        DEF SpeakPlay, RecordOK, PlanOK, SoundOK, CallerOK, State, record, plan, tone, caller, patience
<1>3. CASE SpeakAwait(s)
  <2>1. "speaking" \in Label /\ <<>> \in Seq(Task)
    BY DEF Label
  <2>2. ControlOK'
    BY <1>3, <1>a, <2>1, TaskNames, ContinueType, SuspendType, RunsReady DEF SpeakAwait
  <2> QED BY <1>3, <2>2
        DEF SpeakAwait, RecordOK, PlanOK, SoundOK, CallerOK, record, plan, voice, tone, caller, patience
<1>4. CASE SpeakReturn(s)
  <2>1. ControlOK'
    BY <1>4, <1>a, SendType, RunsReady DEF SpeakReturn
  <2>2. RecordOK' /\ PlanOK' /\ SoundOK'
    BY <1>4 DEF SpeakReturn, RecordOK, PlanOK, SoundOK, State, record, plan, tone
  <2>3. prompted' = FALSE /\ idle' = 0
    BY <1>4 DEF SpeakReturn
  <2>4. prompted' \in BOOLEAN
    BY <2>3, Zenon
  <2>5. idle' \in 0..2 /\ utterance' \in {"idle", "onset", "speech"}
    BY <1>4, <2>3 DEF SpeakReturn, CallerOK
  <2>6. CallerOK'
    BY <1>4, <2>4, <2>5 DEF SpeakReturn, CallerOK
  <2> QED BY <2>1, <2>2, <2>6
<1>5. CASE PlayStarts(s)
  <2>1. Tail(ready) \in Seq(Task)
    BY <1>5, HeadTailProperties DEF PlayStarts, ControlOK
  <2> QED BY <1>5, <2>1
        DEF PlayStarts, ControlOK, RecordOK, PlanOK, SoundOK, CallerOK, record, plan, tone, caller, patience
<1>6. CASE PlayCancelled(s)
  <2>1. ready' \in Seq(Task) /\ joining' \in [Proc -> Task \cup {NoTask}]
    <3>1. <<>> \in Seq(Task)
      OBVIOUS
    <3> QED BY <1>6, <3>1, TaskOverType, WakeTypes DEF PlayCancelled
  <2>2. ControlOK'
    BY <1>6, <2>1 DEF PlayCancelled, ControlOK
  <2>3. SoundOK'
    BY <1>6 DEF PlayCancelled, SoundOK, tone
  <2> QED BY <1>6, <2>2, <2>3
        DEF PlayCancelled, RecordOK, PlanOK, CallerOK, record, plan, tone, caller, patience
<1> QED
  BY <1>1, <1>2, <1>3, <1>4, <1>5, <1>6

LEMMA HangupStepType == TypeOK /\ HangupStep => TypeOK'
<1> USE DEF TypeOK
<1>l. {"sentinel", "hung up", "bounded", "done"} \subseteq Label /\ <<>> \in Seq(Task)
  BY DEF Label
<1>1. ASSUME TypeOK, NEW p \in Proc \ {"run", "consumer"}, Hangup(p)
      PROVE  TypeOK'
  <2>1. CASE state = "ended"
    <3>1. ControlOK'
      BY <1>1, <2>1, <1>l, ContinueType DEF Hangup
    <3> QED BY <1>1, <2>1, <3>1 DEF Hangup, RecordOK, PlanOK, SoundOK, CallerOK, plan, tone, caller, patience
  <2>2. CASE state # "ended"
    <3>1. CancelPlayback(p, "sentinel") /\ outcome' = HangupOutcome(p) /\ state' = "ended"
      BY <1>1, <2>2 DEF Hangup
    <3>2. ControlOK' /\ play' \in [Speaker -> {"new", "playing", "stopping", "stillborn", "over"}]
      BY <1>1, <1>l, <3>1, CancelPlaybackType, RunsReady DEF Hangup
    <3>3. HangupOutcome(p) \in Outcome
      BY DEF HangupOutcome, Outcome
    <3>4. RecordOK'
      BY <1>1, <3>1, <3>3 DEF Hangup, RecordOK, State
    <3> QED BY <1>1, <3>2, <3>4 DEF Hangup, PlanOK, SoundOK, CallerOK, plan, tone, caller, patience
  <2> QED BY <2>1, <2>2
<1>2. ASSUME TypeOK, NEW p \in Proc, HangupSentinel(p)
      PROVE  TypeOK'
  <2>1. ready' \in Seq(Task)
    <3>1. ready \in Seq(Task) /\ ready' = ready \o WakeConsumer \o WakeRun
      BY <1>2 DEF HangupSentinel, ControlOK
    <3> QED BY <3>1, WakeTypes, ConcatProperties
  <2>2. ControlOK'
    BY <1>2, <1>l, <2>1 DEF HangupSentinel, ControlOK
  <2>3. inbox' \in Seq({"frame", "end"})
    BY <1>2, AppendProperties DEF HangupSentinel, CallerOK
  <2>4. over' \in BOOLEAN
    BY <1>2 DEF HangupSentinel
  <2>5. CallerOK'
    BY <1>2, <2>3, <2>4 DEF HangupSentinel, CallerOK, patience
  <2> QED BY <1>2, <2>2, <2>5 DEF HangupSentinel, RecordOK, PlanOK, SoundOK, record, plan, tone
<1>3. ASSUME TypeOK, NEW p \in Proc, HungUp(p)
      PROVE  TypeOK'
  <2>1. ProcTask("run") \in Task \cup {NoTask}
    BY TaskNames DEF Proc, Service
  <2>2. ControlOK'
    BY <1>3, <1>l, <2>1, SuspendType, ReturnType, RunsReady DEF HungUp
  <2> QED BY <1>3, <2>2 DEF HungUp, RecordOK, PlanOK, SoundOK, CallerOK, record, plan, voice, tone, caller, patience
<1>4. ASSUME TypeOK, ReaderDone
      PROVE  TypeOK'
  <2>1. "reader" \in Proc
    BY <1>4 DEF ReaderDone, Proc
  <2>2. ControlOK'
    BY <1>4, <1>l, <2>1, ReturnType, RunsReady DEF ReaderDone
  <2> QED BY <1>4, <2>2 DEF ReaderDone, RecordOK, PlanOK, SoundOK, CallerOK, record, plan, voice, tone, caller, patience
<1> QED
  BY <1>1, <1>2, <1>3, <1>4 DEF HangupStep

LEMMA RunStepType == TypeOK /\ RunStep => TypeOK'
<1> USE DEF TypeOK
<1> SUFFICES ASSUME TypeOK, RunStep
             PROVE  TypeOK'
  OBVIOUS
<1>l. {"connected", "enter", "greeted", "again", "loop", "final", "waiting", "join consumer", "stop hold", "stop playback", "stop turn", "settle", "summarised", "commit"} \subseteq Label /\ <<>> \in Seq(Task)
  BY DEF Label
<1>p. {"run", "consumer", "watchdog"} \subseteq Proc /\ {"run", "watchdog"} \subseteq Speaker
  BY DEF Proc, Service, Speaker
<1>t. NoTask \in Task \cup {NoTask} /\ \A p \in Proc : ProcTask(p) \in Task \cup {NoTask}
  BY TaskNames
<1>1. CASE RunConnects
  <2>1. ControlOK'
    BY <1>1, <1>p, <1>t, SuspendType, RunsReady, <1>l DEF RunConnects
  <2> QED BY <1>1, <2>1 DEF RunConnects, RecordOK, PlanOK, SoundOK, CallerOK, record, plan, voice, tone, caller, patience
<1>2. CASE RunStarts
  <2>1. ready' \in Seq(Task)
    <3>1. ready \in Seq(Task) /\ <<ProcTask("watchdog"), ProcTask("consumer")>> \in Seq(Task)
      BY <1>p, TaskNames DEF ControlOK
    <3> QED BY <1>2, <3>1, ConcatProperties DEF RunStarts
  <2>2. ControlOK'
    BY <1>2, <1>l, <1>p, <2>1 DEF RunStarts, ControlOK
  <2>3. PlanOK'
    BY <1>2, <1>l, <1>p DEF RunStarts, PlanOK
  <2> QED BY <1>2, <2>2, <2>3 DEF RunStarts, RecordOK, SoundOK, CallerOK, record, voice, tone, caller, patience
<1>3. CASE RunGreeted
  <2>1. ControlOK'
    BY <1>3, <1>p, <1>t, ContinueType, SuspendType, RunsReady, <1>l DEF RunGreeted
  <2> QED BY <1>3, <2>1 DEF RunGreeted, RecordOK, PlanOK, SoundOK, CallerOK, record, plan, voice, tone, caller, patience, State
<1>4. CASE RunFinal
  <2>1. Struck("watchdog") \subseteq Proc /\ Struck("consumer") \subseteq Proc
        /\ Woken("watchdog") \in Seq(Task) /\ Woken("consumer") \in Seq(Task)
    BY <1>p, CancelTypes
  <2>2. ready \in Seq(Task) /\ Tail(ready) \in Seq(Task)
    BY <1>4, RunsReady, HeadTailProperties DEF RunFinal, ControlOK
  <2>3. ready' \in Seq(Task)
    BY <1>4, <2>1, <2>2, ConcatProperties DEF RunFinal
  <2>4. joining' \in [Proc -> Task \cup {NoTask}]
    BY <1>4, <1>p, <1>t DEF RunFinal, ControlOK
  <2>5. ControlOK'
    BY <1>4, <1>l, <1>p, <2>1, <2>3, <2>4 DEF RunFinal, ControlOK
  <2> QED BY <1>4, <2>5 DEF RunFinal, RecordOK, PlanOK, SoundOK, CallerOK, record, plan, voice, tone, caller, patience
<1>5. CASE RunJoinsConsumer
  <2>1. ControlOK'
    BY <1>5, <1>p, <1>t, ContinueType, SuspendType, RunsReady, <1>l DEF RunJoinsConsumer
  <2> QED BY <1>5, <2>1 DEF RunJoinsConsumer, RecordOK, PlanOK, SoundOK, CallerOK, record, plan, voice, tone, caller, patience
<1>6. CASE FinishHold
  <2>1. ControlOK' /\ hold' \in [Turns -> {"on", "stopping", "over"}] /\ holdTask' \in Turns \cup {None}
    BY <1>6, <1>l, <1>p, StopHoldType, RunsReady DEF FinishHold
  <2> QED BY <1>6, <2>1 DEF FinishHold, RecordOK, PlanOK, SoundOK, CallerOK, record, plan, voice, caller, patience
<1>7. CASE FinishPlayback
  <2>1. ControlOK' /\ play' \in [Speaker -> {"new", "playing", "stopping", "stillborn", "over"}]
    BY <1>7, <1>l, <1>p, CancelPlaybackType, RunsReady DEF FinishPlayback
  <2> QED BY <1>7, <2>1 DEF FinishPlayback, RecordOK, PlanOK, SoundOK, CallerOK, record, plan, tone, caller, patience
<1>8. CASE FinishTurn
  <2>1. CASE turnTask # None /\ Live(turnTask)
    <3>1. turnTask \in Proc /\ ProcTask(turnTask) \in Task
      BY <2>1, TaskNames DEF CallerOK
    <3>2. Struck(turnTask) \subseteq Proc /\ Woken(turnTask) \in Seq(Task)
      BY <3>1, CancelTypes
    <3>3. Tail(ready) \in Seq(Task)
      BY <1>8, RunsReady, HeadTailProperties DEF FinishTurn, ControlOK
    <3>4. ready' \in Seq(Task)
      <4>1. ready' = Tail(ready) \o Woken(turnTask)
        BY <1>8, <2>1 DEF FinishTurn
      <4> QED BY <3>2, <3>3, <4>1, ConcatProperties
    <3>5. joining' \in [Proc -> Task \cup {NoTask}]
      BY <1>8, <1>p, <2>1, <3>1 DEF FinishTurn, ControlOK
    <3>6. ControlOK'
      BY <1>8, <1>l, <1>p, <2>1, <3>2, <3>4, <3>5 DEF FinishTurn, ControlOK
    <3> QED BY <1>8, <3>6 DEF FinishTurn, RecordOK, PlanOK, SoundOK, CallerOK, record, plan, tone, caller, patience
  <2>2. CASE ~(turnTask # None /\ Live(turnTask))
    <3>1. ControlOK'
      BY <1>8, <1>l, <1>p, <2>2, ContinueType DEF FinishTurn
    <3> QED BY <1>8, <3>1 DEF FinishTurn, RecordOK, PlanOK, SoundOK, CallerOK, record, plan, tone, caller, patience
  <2> QED BY <2>1, <2>2
<1>9. CASE FinishSettles
  <2>1. ControlOK'
    BY <1>9, <1>p, <1>t, ContinueType, SuspendType, RunsReady, <1>l DEF FinishSettles
  <2> QED BY <1>9, <2>1 DEF FinishSettles, RecordOK, PlanOK, SoundOK, CallerOK, record, plan, voice, tone, caller, patience, Outcome
<1>10. CASE FinishDisposes
  <2>1. ControlOK'
    BY <1>10, <1>p, <1>t, SuspendType, RunsReady, <1>l DEF FinishDisposes
  <2> QED BY <1>10, <2>1 DEF FinishDisposes, RecordOK, PlanOK, SoundOK, CallerOK, record, plan, voice, tone, caller, patience, Disposition
<1>11. CASE FinishCommits
  <2>1. ControlOK'
    BY <1>11, <1>l, <1>p, ReturnType, RunsReady DEF FinishCommits
  <2>2. saved' \subseteq [outcome : Outcome, disposition : Disposition]
    BY <1>11 DEF FinishCommits, RecordOK
  <2> QED BY <1>11, <2>1, <2>2 DEF FinishCommits, RecordOK, PlanOK, SoundOK, CallerOK, plan, voice, tone, caller, patience
<1> QED
  BY <1>1, <1>2, <1>3, <1>4, <1>5, <1>6, <1>7, <1>8, <1>9, <1>10, <1>11 DEF RunStep

LEMMA ConsumerStepType == TypeOK /\ ConsumerStep => TypeOK'
<1> USE DEF TypeOK
<1> SUFFICES ASSUME TypeOK, ConsumerStep
             PROVE  TypeOK'
  OBVIOUS
<1>l. {"get", "loop", "barge in", "listen", "start", "done"} \subseteq Label /\ <<>> \in Seq(Task)
  BY DEF Label
<1>p. {"run", "consumer", "watchdog"} \subseteq Proc /\ {"run", "watchdog"} \subseteq Speaker
  BY DEF Proc, Service, Speaker
<1>t. NoTask \in Task \cup {NoTask} /\ \A p \in Proc : ProcTask(p) \in Task \cup {NoTask}
  BY TaskNames
<1>1. CASE ConsumerLoops
  <2>1. ControlOK'
    BY <1>1, <1>p, <1>t, ReturnType, SuspendType, ContinueType, WakeTypes, RunsReady, <1>l DEF ConsumerLoops
  <2> QED BY <1>1, <2>1 DEF ConsumerLoops, RecordOK, PlanOK, SoundOK, CallerOK, record, plan, voice, tone, caller, patience
<1>2. CASE ConsumerEnds
  <2>1. ControlOK'
    BY <1>2, <1>l, <1>p, ReturnType, WakeTypes, RunsReady DEF ConsumerEnds
  <2>2. inbox' \in Seq({"frame", "end"})
    BY <1>2, HeadTailProperties DEF ConsumerEnds, CallerOK
  <2> QED BY <1>2, <2>1, <2>2 DEF ConsumerEnds, RecordOK, PlanOK, SoundOK, CallerOK, record, plan, voice, tone, patience
<1>f. TakesFrame => inbox' \in Seq({"frame", "end"}) /\ ready # <<>>
  BY HeadTailProperties, RunsReady DEF TakesFrame, CallerOK
<1>3. CASE FrameDropped
  <2>1. ControlOK'
    BY <1>3, <1>l, <1>p, ContinueType DEF FrameDropped
  <2> QED BY <1>3, <1>f, <2>1 DEF FrameDropped, RecordOK, PlanOK, SoundOK, CallerOK, record, plan, voice, tone, patience
<1>4. CASE BargeIn
  <2>1. ControlOK' /\ play' \in [Speaker -> {"new", "playing", "stopping", "stillborn", "over"}]
    BY <1>4, <1>f, <1>l, <1>p, CancelPlaybackType DEF BargeIn
  <2> QED BY <1>4, <1>f, <2>1 DEF BargeIn, RecordOK, PlanOK, SoundOK, CallerOK, record, plan, tone, patience
<1>5. CASE BargeInSent
  <2>1. ControlOK'
    BY <1>5, <1>p, SendType, RunsReady, <1>l DEF BargeInSent
  <2> QED BY <1>5, <2>1 DEF BargeInSent, RecordOK, PlanOK, SoundOK, CallerOK, record, plan, voice, tone, caller, patience
<1>6. CASE BargeInListens
  <2>1. ControlOK'
    BY <1>6, <1>l, <1>p, SendType, ContinueType, RunsReady DEF BargeInListens
  <2>2. prompted' \in BOOLEAN
    <3>1. prompted' = prompted \/ prompted' = FALSE
      BY <1>6 DEF BargeInListens
    <3>2. prompted \in BOOLEAN
      BY DEF CallerOK
    <3> QED BY <3>1, <3>2, Zenon
  <2>3. idle' \in 0..2 /\ utterance' \in {"idle", "onset", "speech"}
    BY <1>6 DEF BargeInListens, CallerOK
  <2> QED BY <1>6, <2>1, <2>2, <2>3 DEF BargeInListens, RecordOK, PlanOK, SoundOK, CallerOK, State, record, plan, voice, tone
<1>7. CASE FrameHeard
  <2>1. ControlOK'
    BY <1>7, <1>f, <1>l, <1>p, SendType, ContinueType DEF FrameHeard
  <2>2. prompted' \in BOOLEAN
    <3>1. prompted' = prompted \/ prompted' = FALSE
      BY <1>7 DEF FrameHeard, patience
    <3>2. prompted \in BOOLEAN
      BY DEF CallerOK
    <3> QED BY <3>1, <3>2, Zenon
  <2>3. idle' \in 0..2 /\ utterance' \in {"idle", "onset", "speech"}
    BY <1>7 DEF FrameHeard, CallerOK, patience
  <2> QED BY <1>7, <1>f, <2>1, <2>2, <2>3 DEF FrameHeard, RecordOK, PlanOK, SoundOK, CallerOK, record, plan, voice, tone
<1>8. ASSUME NEW t \in Turns, TurnOpens(t)
      PROVE  TypeOK'
  <2>1. ready \in Seq(Task) /\ t \in Proc /\ ProcTask(t) \in Task
    BY TaskNames DEF ControlOK
  <2>2. ready' \in Seq(Task) /\ cancelled' \subseteq Proc
    <3>1. CASE turnTask # None /\ Live(turnTask)
      <4>1. turnTask \in Proc
        BY <3>1, TaskNames DEF CallerOK
      <4>2. Struck(turnTask) \subseteq Proc /\ Woken(turnTask) \in Seq(Task)
        BY <4>1, CancelTypes
      <4>3. ready' = ready \o Woken(turnTask) \o <<ProcTask(t)>>
            /\ cancelled' = cancelled \cup Struck(turnTask)
        BY <1>8, <3>1 DEF TurnOpens
      <4> QED BY <2>1, <4>2, <4>3, ConcatProperties DEF ControlOK
    <3>2. CASE ~(turnTask # None /\ Live(turnTask))
      <4>1. ready' = Append(ready, ProcTask(t)) /\ cancelled' = cancelled
        BY <1>8, <3>2 DEF TurnOpens
      <4>2. Append(ready, ProcTask(t)) \in Seq(Task)
        BY <2>1, AppendProperties
      <4>3. cancelled \subseteq Proc
        BY DEF TypeOK, ControlOK
      <4> QED BY <4>1, <4>2, <4>3
    <3> QED BY <3>1, <3>2
  <2>3. ControlOK'
    BY <1>8, <1>l, <1>p, <1>t, <2>2 DEF TurnOpens, ControlOK
  <2> QED BY <1>8, <1>f, <2>3 DEF TurnOpens, RecordOK, PlanOK, SoundOK, CallerOK, State, record, plan, voice, tone
<1> QED
  BY <1>1, <1>2, <1>3, <1>4, <1>5, <1>6, <1>7, <1>8 DEF ConsumerStep

LEMMA TurnStepType == TypeOK /\ TurnStep => TypeOK'
<1> USE DEF TypeOK
<1> SUFFICES ASSUME TypeOK, NEW t \in Turns,
                    \/ TurnStarts(t) \/ TurnEmpty(t) \/ TurnUnheard(t) \/ TurnFixedLine(t)
                    \/ TurnLine(t) \/ TurnAsks(t) \/ TurnAnswered(t) \/ TurnFailed(t)
                    \/ TurnSpeaks(t) \/ TurnRecorded(t)
                    \/ TurnListens(t) \/ TurnTransfers(t) \/ TurnEndsCall(t)
             PROVE  TypeOK'
  BY DEF TurnStep
<1>l. {"stt", "unheard", "line", "enter", "respond", "answered", "spoken", "act", "hangup", "done"} \subseteq Label /\ <<>> \in Seq(Task)
  BY DEF Label
<1>p. t \in Proc /\ t \in Speaker /\ NoTask \in Task \cup {NoTask}
  BY TaskNames
<1>1. CASE TurnStarts(t)
  <2>1. ControlOK'
    BY <1>1, <1>p, SuspendType, RunsReady, <1>l DEF TurnStarts
  <2> QED BY <1>1, <2>1 DEF TurnStarts, RecordOK, PlanOK, SoundOK, CallerOK, record, plan, voice, tone, caller, patience
<1>2. CASE TurnEmpty(t)
  <2>1. ControlOK' /\ hold' \in [Turns -> {"on", "stopping", "over"}] /\ holdTask' \in Turns \cup {None}
    BY <1>2, <1>l, <1>p, StopHoldType, RunsReady DEF TurnEmpty
  <2> QED BY <1>2, <2>1 DEF TurnEmpty, RecordOK, PlanOK, SoundOK, CallerOK, record, plan, voice, caller, patience
<1>3. CASE TurnUnheard(t)
  <2>1. ControlOK'
    BY <1>3, <1>p, ReturnType, RunsReady, <1>l DEF TurnUnheard
  <2> QED BY <1>3, <2>1 DEF TurnUnheard, RecordOK, PlanOK, SoundOK, CallerOK, record, plan, voice, tone, caller, patience, State
<1>4. CASE TurnFixedLine(t)
  <2>1. ControlOK'
    BY <1>4, <1>l, <1>p, SendType, RunsReady DEF TurnFixedLine
  <2>2. then' \in [Speaker -> Label] /\ exchange' \in [Turns -> Exchange]
    BY <1>4, <1>l, <1>p DEF TurnFixedLine, PlanOK, CallerOK, Exchange
  <2> QED BY <1>4, <2>1, <2>2 DEF TurnFixedLine, RecordOK, PlanOK, SoundOK, CallerOK, record, voice, tone, patience
<1>5. CASE TurnLine(t)
  <2>1. ControlOK' /\ hold' \in [Turns -> {"on", "stopping", "over"}] /\ holdTask' \in Turns \cup {None}
    BY <1>5, <1>l, <1>p, StopHoldType, RunsReady DEF TurnLine
  <2> QED BY <1>5, <2>1 DEF TurnLine, RecordOK, PlanOK, SoundOK, CallerOK, record, plan, voice, caller, patience
<1>6. CASE TurnAsks(t)
  <2>1. ControlOK'
    BY <1>6, <1>p, SuspendType, RunsReady, <1>l DEF TurnAsks
  <2> QED BY <1>6, <2>1 DEF TurnAsks, RecordOK, PlanOK, SoundOK, CallerOK, record, plan, voice, tone, caller, patience
<1>7. CASE TurnAnswered(t)
  <2>1. ControlOK'
    BY <1>7, <1>l, <1>p, SendType, RunsReady DEF TurnAnswered
  <2>2. PlanOK' /\ exchange' \in [Turns -> Exchange]
    BY <1>7, <1>l, <1>p DEF TurnAnswered, PlanOK, CallerOK, Exchange
  <2> QED BY <1>7, <2>1, <2>2 DEF TurnAnswered, RecordOK, SoundOK, CallerOK, record, voice, tone, patience
<1>8. CASE TurnFailed(t)
  <2>1. ControlOK'
    BY <1>8, <1>l, <1>p, SendType, RunsReady DEF TurnFailed
  <2>2. PlanOK'
    BY <1>8, <1>l, <1>p DEF TurnFailed, PlanOK
  <2> QED BY <1>8, <2>1, <2>2 DEF TurnFailed, RecordOK, SoundOK, CallerOK, record, voice, tone, caller, patience
<1>9. CASE TurnSpeaks(t)
  <2>1. ControlOK'
    BY <1>9, <1>p, ContinueType, RunsReady, <1>l DEF TurnSpeaks
  <2> QED BY <1>9, <2>1 DEF TurnSpeaks, RecordOK, PlanOK, SoundOK, CallerOK, record, plan, voice, tone, caller, patience
<1>10. CASE TurnRecorded(t)
  <2>1. ControlOK'
    BY <1>10, <1>l, <1>p, SendType, RunsReady DEF TurnRecorded
  <2>2. exchange' \in [Turns -> Exchange]
    BY <1>10 DEF TurnRecorded, CallerOK, Exchange
  <2> QED BY <1>10, <2>1, <2>2 DEF TurnRecorded, RecordOK, PlanOK, SoundOK, CallerOK, record, plan, voice, tone, patience
<1>11. CASE TurnListens(t)
  <2>1. ControlOK'
    BY <1>11, <1>p, ReturnType, RunsReady, <1>l DEF TurnListens
  <2> QED BY <1>11, <2>1 DEF TurnListens, RecordOK, PlanOK, SoundOK, CallerOK, record, plan, voice, tone, caller, patience, State
<1>12. CASE TurnTransfers(t)
  <2>1. ControlOK'
    BY <1>12, <1>p, SendType, RunsReady, <1>l DEF TurnTransfers
  <2> QED BY <1>12, <2>1 DEF TurnTransfers, RecordOK, PlanOK, SoundOK, CallerOK, record, plan, voice, tone, caller, patience, State, Outcome
<1>13. CASE TurnEndsCall(t)
  <2>1. ControlOK'
    BY <1>13, <1>p, ContinueType, RunsReady, <1>l DEF TurnEndsCall
  <2> QED BY <1>13, <2>1 DEF TurnEndsCall, RecordOK, PlanOK, SoundOK, CallerOK, record, plan, voice, tone, caller, patience, Disposition
<1> QED
  BY <1>1, <1>2, <1>3, <1>4, <1>5, <1>6, <1>7, <1>8, <1>9, <1>10, <1>11, <1>12, <1>13

LEMMA WatchdogStepType == TypeOK /\ WatchdogStep => TypeOK'
<1> USE DEF TypeOK
<1> SUFFICES ASSUME TypeOK, WatchdogStep
             PROVE  TypeOK'
  OBVIOUS
<1>l. {"tick", "hangup", "again", "enter", "closing", "done"} \subseteq Label /\ <<>> \in Seq(Task)
  BY DEF Label
<1>p. "watchdog" \in Proc /\ "watchdog" \in Speaker /\ NoTask \in Task \cup {NoTask}
  BY DEF Proc, Service, Speaker
<1>1. CASE WatchdogLoops
  <2>1. ControlOK'
    BY <1>1, <1>p, ReturnType, SuspendType, RunsReady, <1>l DEF WatchdogLoops
  <2> QED BY <1>1, <2>1 DEF WatchdogLoops, RecordOK, PlanOK, SoundOK, CallerOK, record, plan, voice, tone, caller, patience
<1>2. CASE WatchdogTimesOut
  <2>1. ControlOK'
    BY <1>2, <1>p, ContinueType, RunsReady, <1>l DEF WatchdogTimesOut
  <2> QED BY <1>2, <2>1 DEF WatchdogTimesOut, RecordOK, PlanOK, SoundOK, CallerOK, record, plan, voice, tone, caller, patience
<1>3. CASE WatchdogPasses
  <2>1. ControlOK'
    BY <1>3, <1>p, ContinueType, RunsReady, <1>l DEF WatchdogPasses
  <2> QED BY <1>3, <2>1 DEF WatchdogPasses, RecordOK, PlanOK, SoundOK, CallerOK, record, plan, voice, tone, caller, patience
<1>4. CASE WatchdogAsks
  <2>1. ControlOK'
    BY <1>4, <1>l, <1>p, ContinueType DEF WatchdogAsks
  <2>2. PlanOK'
    BY <1>4, <1>l, <1>p DEF WatchdogAsks, PlanOK
  <2>3. prompted' \in BOOLEAN
    BY <1>4 DEF WatchdogAsks
  <2> QED BY <1>4, <2>1, <2>2, <2>3 DEF WatchdogAsks, RecordOK, SoundOK, CallerOK, record, voice, tone
<1>5. CASE WatchdogClosing
  <2>1. ControlOK'
    BY <1>5, <1>l, <1>p, ContinueType DEF WatchdogClosing
  <2>2. PlanOK'
    BY <1>5, <1>l, <1>p DEF WatchdogClosing, PlanOK
  <2> QED BY <1>5, <2>1, <2>2 DEF WatchdogClosing, RecordOK, SoundOK, CallerOK, record, voice, tone, caller, patience
<1>6. CASE WatchdogCloses
  <2>1. ControlOK'
    BY <1>6, <1>p, ContinueType, RunsReady, <1>l DEF WatchdogCloses
  <2> QED BY <1>6, <2>1 DEF WatchdogCloses, RecordOK, PlanOK, SoundOK, CallerOK, record, plan, voice, tone, caller, patience
<1> QED
  BY <1>1, <1>2, <1>3, <1>4, <1>5, <1>6 DEF WatchdogStep

LEMMA LoopStepType == TypeOK /\ LoopStep => TypeOK'
<1> USE DEF TypeOK
<1>l. {"final", "done"} \subseteq Label /\ <<>> \in Seq(Task)
  BY DEF Label
<1>1. ASSUME TypeOK, NEW t \in Turns, HoldStops(t)
      PROVE  TypeOK'
  <2>1. ready' \in Seq(Task) /\ joining' \in [Proc -> Task \cup {NoTask}]
    BY <1>1, <1>l, TaskOverType DEF HoldStops
  <2> QED BY <1>1, <2>1
        DEF HoldStops, ControlOK, RecordOK, PlanOK, SoundOK, CallerOK, record, plan, voice, caller, patience
<1>2. ASSUME TypeOK, NEW p \in Proc, Raise(p)
      PROVE  TypeOK'
  <2>1. ControlOK'
    BY <1>2, <1>l, ContinueType, ReturnType, WakeTypes DEF Raise
  <2>2. outcome' \in Outcome
    BY <1>2 DEF Raise, Outcome, RecordOK
  <2> QED BY <1>2, <2>1, <2>2 DEF Raise, RecordOK, PlanOK, SoundOK, CallerOK, plan, voice, tone, caller, patience
<1> QED
  BY <1>1, <1>2, SpeakStepType, HangupStepType, RunStepType, ConsumerStepType, TurnStepType,
     WatchdogStepType DEF LoopStep

LEMMA EnvironmentType == TypeOK /\ Environment => TypeOK'
<1> USE DEF TypeOK
<1>w. ASSUME TypeOK, NEW p \in Proc, Wakes(p), UNCHANGED pc
      PROVE  ControlOK'
  BY <1>w, TaskNames, AppendProperties DEF Wakes, ControlOK
<1>1. ASSUME TypeOK, FrameArrives
      PROVE  TypeOK'
  <2>1. ready' \in Seq(Task)
    BY <1>1, WakeTypes, ConcatProperties DEF FrameArrives, ControlOK
  <2>2. inbox' \in Seq({"frame", "end"})
    BY <1>1, AppendProperties DEF FrameArrives, CallerOK
  <2> QED BY <1>1, <2>1, <2>2
        DEF FrameArrives, ControlOK, RecordOK, PlanOK, SoundOK, CallerOK, record, plan, voice, tone, patience
<1>2. ASSUME TypeOK, UtteranceGoesOn
      PROVE  TypeOK'
  BY <1>2 DEF UtteranceGoesOn, ControlOK, loop, RecordOK, PlanOK, SoundOK, CallerOK, record, plan, voice, tone, patience
<1>3. ASSUME TypeOK, SilenceGrows
      PROVE  TypeOK'
  <2>1. idle' \in 0..2
    BY <1>3 DEF SilenceGrows, CallerOK
  <2> QED BY <1>3, <2>1 DEF SilenceGrows, ControlOK, loop, RecordOK, PlanOK, SoundOK, CallerOK, record, plan, voice, tone
<1>4. ASSUME TypeOK, Tick
      PROVE  TypeOK'
  <2>1. ControlOK'
    BY <1>4, <1>w DEF Tick, Proc, Service
  <2> QED BY <1>4, <2>1 DEF Tick, RecordOK, PlanOK, SoundOK, CallerOK, record, plan, voice, tone, caller, patience
<1>5. ASSUME TypeOK, SessionBoundExpires
      PROVE  TypeOK'
  <2>1. "run" \in Proc /\ "reader" \in Proc /\ "expired" \in Label
    BY <1>5 DEF SessionBoundExpires, Proc, Service, Label
  <2>2. Struck("run") \subseteq Proc /\ Woken("run") \in Seq(Task)
    BY <1>5, <2>1, CancelTypes
  <2>3. ControlOK'
    BY <1>5, <2>1, <2>2 DEF SessionBoundExpires, ControlOK
  <2> QED BY <1>5, <2>3 DEF SessionBoundExpires, RecordOK, PlanOK, SoundOK, CallerOK, record, plan, voice, tone, caller, patience
<1>6. ASSUME TypeOK, NEW h \in Hanger, HangupRequested(h)
      PROVE  TypeOK'
  <2>1. h \in Proc /\ "hangup" \in Label
    BY DEF Proc, Label
  <2>2. ControlOK'
    BY <1>6, <2>1, TaskNames, AppendProperties DEF HangupRequested, Wakes, ControlOK
  <2> QED BY <1>6, <2>2 DEF HangupRequested, RecordOK, PlanOK, SoundOK, CallerOK, record, plan, voice, tone, caller, patience
<1>7. ASSUME TypeOK, NEW p \in Proc, ServiceAnswers(p) \/ SendGoesThrough(p)
      PROVE  TypeOK'
  <2>1. ControlOK'
    BY <1>7, <1>w DEF ServiceAnswers, SendGoesThrough
  <2> QED BY <1>7, <2>1 DEF ServiceAnswers, SendGoesThrough, RecordOK, PlanOK, SoundOK, CallerOK, record, plan, voice, tone, caller, patience
<1>8. ASSUME TypeOK, NEW s \in Speaker, ChunkSent(s)
      PROVE  TypeOK'
  <2>1. audible' \in BOOLEAN
    BY <1>8 DEF ChunkSent
  <2> QED BY <1>8, <2>1
        DEF ChunkSent, ControlOK, loop, RecordOK, PlanOK, SoundOK, CallerOK, record, plan, tone, caller, patience
<1>9. ASSUME TypeOK, NEW s \in Speaker, PlayEnds(s)
      PROVE  TypeOK'
  <2>1. ready' \in Seq(Task)
    BY <1>9, WakeTypes, ConcatProperties DEF PlayEnds, ControlOK
  <2> QED BY <1>9, <2>1
        DEF PlayEnds, ControlOK, RecordOK, PlanOK, SoundOK, CallerOK, record, plan, tone, caller, patience
<1> QED
  BY <1>1, <1>2, <1>3, <1>4, <1>5, <1>6, <1>7, <1>8, <1>9 DEF Environment

LEMMA InitType == Init => TypeOK
<1> SUFFICES ASSUME Init PROVE TypeOK
  OBVIOUS
<1>1. ready \in Seq(Task) /\ inbox \in Seq({"frame", "end"})
  BY TaskNames DEF Init, Proc, Service
<1>2. ControlOK
  BY <1>1, TaskNames DEF Init, ControlOK, Label
<1>3. RecordOK /\ PlanOK
  BY DEF Init, RecordOK, PlanOK, State, Outcome, Disposition, Action, Label
<1>4. SoundOK
  BY DEF Init, SoundOK
<1>5. prompted \in BOOLEAN /\ over \in BOOLEAN
  BY Zenon DEF Init
<1>6. CallerOK
  BY <1>1, <1>5 DEF Init, CallerOK, Exchange
<1> QED
  BY <1>2, <1>3, <1>4, <1>6 DEF TypeOK

\* Every variable of a call keeps its type: the event loop's queue only ever
\* holds tasks of this call, and whoever is awaited or cancelled is one.
THEOREM TypeCorrect == Spec => []TypeOK
<1>1. Init => TypeOK
  BY InitType
<1>2. TypeOK /\ [Next]_vars => TypeOK'
  <2>1. TypeOK /\ Next => TypeOK'
    BY LoopStepType, EnvironmentType DEF Next
  <2>2. TypeOK /\ UNCHANGED vars => TypeOK'
    BY DEF TypeOK, ControlOK, vars, loop, RecordOK, PlanOK, SoundOK, CallerOK, record, plan, voice, tone, caller, patience
  <2> QED BY <2>1, <2>2
<1> QED
  BY <1>1, <1>2, PTL DEF Spec

-----------------------------------------------------------------------------
(* What is saved of a call is complete.                                    *)

Closing == {"summarised", "commit"}

\* The strengthening: from the segment of _finish() that settles a field on,
\* that field is settled, and run() gets there by no other way.
RecordInv ==
  /\ SavedComplete
  /\ pc["run"] \in Closing => outcome # "in_progress"
  /\ pc["run"] = "commit" => disposition # None
  /\ then["run"] \notin Closing

\* The steps other than those of _finish() lose no settled field, save nothing,
\* and do not take run() into its closing segments.
Keeps ==
  /\ pc'["run"] \in Closing => pc'["run"] = pc["run"]
  /\ outcome # "in_progress" => outcome' # "in_progress"
  /\ disposition # None => disposition' # None
  /\ saved' = saved
  /\ then'["run"] \notin Closing

LEMMA KeepsPreserves == RecordInv /\ Keeps => RecordInv'
BY DEF RecordInv, Keeps, SavedComplete, Closing

\* Whichever way a task moves on, it moves to the segment named, or is done.
LEMMA Moves ==
  ASSUME NEW p, NEW l, Continue(p, l) \/ Send(p, l) \/ StopHold(p, l) \/ CancelPlayback(p, l)
  PROVE  pc' = [pc EXCEPT ![p] = l]
BY DEF Continue, Suspend, Send, StopHold, CancelPlayback

LEMMA Suspends ==
  ASSUME NEW p, NEW l, NEW x, NEW q, Suspend(p, l, x, q)
  PROVE  pc' = [pc EXCEPT ![p] = l]
BY DEF Suspend

LEMMA Returns ==
  ASSUME NEW p, NEW q, Return(p, q)
  PROVE  pc' = [pc EXCEPT ![p] = "done"]
BY DEF Return

LEMMA SpeakStepKeeps == TypeOK /\ RecordInv /\ SpeakStep => Keeps
<1> USE DEF Keeps, Closing, Service, None
<1> SUFFICES ASSUME TypeOK, RecordInv PROVE SpeakStep => Keeps
  OBVIOUS
<1>p. pc \in [Proc -> Label] /\ then \in [Speaker -> Label] /\ then["run"] \notin Closing
      /\ Service \subseteq Proc /\ "run" \in Speaker /\ Speaker \subseteq Proc /\ Turns \subseteq Speaker /\ Turns \subseteq Proc
  BY TaskNames DEF TypeOK, ControlOK, PlanOK, RecordInv, Proc, Service, Speaker
<1>1. ASSUME NEW s \in Speaker, SpeakEnter(s) PROVE Keeps
  BY <1>1, <1>p, Moves, Suspends, Returns DEF SpeakEnter, record, plan
<1>2. ASSUME NEW s \in Speaker, SpeakPlay(s) PROVE Keeps
  BY <1>2, <1>p, Moves, Suspends, Returns DEF SpeakPlay, record, plan
<1>3. ASSUME NEW s \in Speaker, SpeakAwait(s) PROVE Keeps
  BY <1>3, <1>p, Moves, Suspends, Returns DEF SpeakAwait, record, plan
<1>4. ASSUME NEW s \in Speaker, SpeakReturn(s) PROVE Keeps
  BY <1>4, <1>p, Moves, Suspends, Returns DEF SpeakReturn, record, plan
<1>5. ASSUME NEW s \in Speaker, PlayStarts(s) PROVE Keeps
  BY <1>5, <1>p, Moves, Suspends, Returns DEF PlayStarts, record, plan
<1>6. ASSUME NEW s \in Speaker, PlayCancelled(s) PROVE Keeps
  BY <1>6, <1>p, Moves, Suspends, Returns DEF PlayCancelled, record, plan
<1> QED
  BY <1>1, <1>2, <1>3, <1>4, <1>5, <1>6 DEF SpeakStep

LEMMA HangupStepKeeps == TypeOK /\ RecordInv /\ HangupStep => Keeps
<1> USE DEF Keeps, Closing, Service, None
<1> SUFFICES ASSUME TypeOK, RecordInv PROVE HangupStep => Keeps
  OBVIOUS
<1>p. pc \in [Proc -> Label] /\ then \in [Speaker -> Label] /\ then["run"] \notin Closing
      /\ Service \subseteq Proc /\ "run" \in Speaker /\ Speaker \subseteq Proc /\ Turns \subseteq Speaker /\ Turns \subseteq Proc
  BY TaskNames DEF TypeOK, ControlOK, PlanOK, RecordInv, Proc, Service, Speaker
<1>1. ASSUME NEW q \in Proc \ {"run", "consumer"}, Hangup(q) PROVE Keeps
  <2>1. pc' = [pc EXCEPT ![q] = "hung up"] \/ pc' = [pc EXCEPT ![q] = "sentinel"]
    BY <1>1, Moves DEF Hangup
  <2>2. outcome' = outcome \/ outcome' # "in_progress"
    BY <1>1 DEF Hangup, HangupOutcome
  <2> QED BY <1>1, <1>p, <2>1, <2>2 DEF Hangup, plan
<1>2. ASSUME NEW q \in Proc \ {"run", "consumer"}, HangupSentinel(q) PROVE Keeps
  BY <1>2, <1>p, Moves, Suspends, Returns DEF HangupSentinel, record, plan
<1>3. ASSUME NEW q \in Proc \ {"run", "consumer"}, HungUp(q) PROVE Keeps
  <2>1. pc' = [pc EXCEPT ![q] = "bounded"] \/ pc' = [pc EXCEPT ![q] = "done"]
    BY <1>3, Suspends, Returns DEF HungUp
  <2> QED BY <1>3, <1>p, <2>1 DEF HungUp, record, plan
<1>4. ASSUME ReaderDone PROVE Keeps
  BY <1>4, <1>p, Moves, Suspends, Returns DEF ReaderDone, record, plan
<1> QED
  BY <1>1, <1>2, <1>3, <1>4 DEF HangupStep

LEMMA ConsumerStepKeeps == TypeOK /\ RecordInv /\ ConsumerStep => Keeps
<1> USE DEF Keeps, Closing, Service, None
<1> SUFFICES ASSUME TypeOK, RecordInv PROVE ConsumerStep => Keeps
  OBVIOUS
<1>p. pc \in [Proc -> Label] /\ then \in [Speaker -> Label] /\ then["run"] \notin Closing
      /\ Service \subseteq Proc /\ "run" \in Speaker /\ Speaker \subseteq Proc /\ Turns \subseteq Speaker /\ Turns \subseteq Proc
  BY TaskNames DEF TypeOK, ControlOK, PlanOK, RecordInv, Proc, Service, Speaker
<1>1. ASSUME ConsumerLoops PROVE Keeps
  BY <1>1, <1>p, Moves, Suspends, Returns DEF ConsumerLoops, record, plan, TakesFrame
<1>2. ASSUME ConsumerEnds PROVE Keeps
  BY <1>2, <1>p, Moves, Suspends, Returns DEF ConsumerEnds, record, plan, TakesFrame
<1>3. ASSUME FrameDropped PROVE Keeps
  BY <1>3, <1>p, Moves, Suspends, Returns DEF FrameDropped, record, plan, TakesFrame
<1>4. ASSUME BargeIn PROVE Keeps
  <2>1. pc' = [pc EXCEPT !["consumer"] = "barge in"]
    BY <1>4, Moves DEF BargeIn
  <2> QED BY <1>4, <1>p, <2>1 DEF BargeIn, record, plan
<1>5. ASSUME BargeInSent PROVE Keeps
  <2>1. pc' = [pc EXCEPT !["consumer"] = "listen"]
    BY <1>5, Moves DEF BargeInSent
  <2> QED BY <1>5, <1>p, <2>1 DEF BargeInSent, record, plan
<1>6. ASSUME BargeInListens PROVE Keeps
  BY <1>6, <1>p, Moves, Suspends, Returns DEF BargeInListens, record, plan, TakesFrame
<1>7. ASSUME FrameHeard PROVE Keeps
  BY <1>7, <1>p, Moves, Suspends, Returns DEF FrameHeard, record, plan, TakesFrame
<1>8. ASSUME NEW t \in Turns, TurnOpens(t) PROVE Keeps
  BY <1>8, <1>p, Moves, Suspends, Returns DEF TurnOpens, record, plan, TakesFrame
<1> QED
  BY <1>1, <1>2, <1>3, <1>4, <1>5, <1>6, <1>7, <1>8 DEF ConsumerStep

LEMMA TurnStepKeeps == TypeOK /\ RecordInv /\ TurnStep => Keeps
<1> USE DEF Keeps, Closing, Service, None
<1> SUFFICES ASSUME TypeOK, RecordInv PROVE TurnStep => Keeps
  OBVIOUS
<1>p. pc \in [Proc -> Label] /\ then \in [Speaker -> Label] /\ then["run"] \notin Closing
      /\ Service \subseteq Proc /\ "run" \in Speaker /\ Speaker \subseteq Proc /\ Turns \subseteq Speaker /\ Turns \subseteq Proc
  BY TaskNames DEF TypeOK, ControlOK, PlanOK, RecordInv, Proc, Service, Speaker
<1>1. ASSUME NEW t \in Turns, TurnStarts(t) PROVE Keeps
  BY <1>1, <1>p, Moves, Suspends, Returns DEF TurnStarts, record, plan
<1>2. ASSUME NEW t \in Turns, TurnEmpty(t) PROVE Keeps
  BY <1>2, <1>p, Moves, Suspends, Returns DEF TurnEmpty, record, plan
<1>3. ASSUME NEW t \in Turns, TurnUnheard(t) PROVE Keeps
  BY <1>3, <1>p, Moves, Suspends, Returns DEF TurnUnheard, record, plan
<1>4. ASSUME NEW t \in Turns, TurnFixedLine(t) PROVE Keeps
  BY <1>4, <1>p, Moves, Suspends, Returns DEF TurnFixedLine, record, plan
<1>5. ASSUME NEW t \in Turns, TurnLine(t) PROVE Keeps
  BY <1>5, <1>p, Moves, Suspends, Returns DEF TurnLine, record, plan
<1>6. ASSUME NEW t \in Turns, TurnAsks(t) PROVE Keeps
  BY <1>6, <1>p, Moves, Suspends, Returns DEF TurnAsks, record, plan
<1>7. ASSUME NEW t \in Turns, TurnAnswered(t) PROVE Keeps
  BY <1>7, <1>p, Moves, Suspends, Returns DEF TurnAnswered, record, plan
<1>8. ASSUME NEW t \in Turns, TurnFailed(t) PROVE Keeps
  BY <1>8, <1>p, Moves, Suspends, Returns DEF TurnFailed, record, plan
<1>9. ASSUME NEW t \in Turns, TurnSpeaks(t) PROVE Keeps
  <2>1. pc' = [pc EXCEPT ![t] = "enter"] \/ pc' = [pc EXCEPT ![t] = "spoken"]
    BY <1>9, Moves DEF TurnSpeaks
  <2> QED BY <1>9, <1>p, <2>1 DEF TurnSpeaks, record, plan
<1>10. ASSUME NEW t \in Turns, TurnRecorded(t) PROVE Keeps
  BY <1>10, <1>p, Moves, Suspends, Returns DEF TurnRecorded, record, plan
<1>11. ASSUME NEW t \in Turns, TurnListens(t) PROVE Keeps
  BY <1>11, <1>p, Moves, Suspends, Returns DEF TurnListens, record, plan
<1>12. ASSUME NEW t \in Turns, TurnTransfers(t) PROVE Keeps
  BY <1>12, <1>p, Moves, Suspends, Returns DEF TurnTransfers, record, plan
<1>13. ASSUME NEW t \in Turns, TurnEndsCall(t) PROVE Keeps
  BY <1>13, <1>p, Moves, Suspends, Returns DEF TurnEndsCall, record, plan
<1> QED
  BY <1>1, <1>2, <1>3, <1>4, <1>5, <1>6, <1>7, <1>8, <1>9, <1>10, <1>11, <1>12, <1>13 DEF TurnStep

LEMMA WatchdogStepKeeps == TypeOK /\ RecordInv /\ WatchdogStep => Keeps
<1> USE DEF Keeps, Closing, Service, None
<1> SUFFICES ASSUME TypeOK, RecordInv PROVE WatchdogStep => Keeps
  OBVIOUS
<1>p. pc \in [Proc -> Label] /\ then \in [Speaker -> Label] /\ then["run"] \notin Closing
      /\ Service \subseteq Proc /\ "run" \in Speaker /\ Speaker \subseteq Proc /\ Turns \subseteq Speaker /\ Turns \subseteq Proc
  BY TaskNames DEF TypeOK, ControlOK, PlanOK, RecordInv, Proc, Service, Speaker
<1>1. ASSUME WatchdogLoops PROVE Keeps
  BY <1>1, <1>p, Moves, Suspends, Returns DEF WatchdogLoops, record, plan
<1>2. ASSUME WatchdogTimesOut PROVE Keeps
  BY <1>2, <1>p, Moves, Suspends, Returns DEF WatchdogTimesOut, record, plan
<1>3. ASSUME WatchdogPasses PROVE Keeps
  BY <1>3, <1>p, Moves, Suspends, Returns DEF WatchdogPasses, record, plan
<1>4. ASSUME WatchdogAsks PROVE Keeps
  BY <1>4, <1>p, Moves, Suspends, Returns DEF WatchdogAsks, record, plan
<1>5. ASSUME WatchdogClosing PROVE Keeps
  BY <1>5, <1>p, Moves, Suspends, Returns DEF WatchdogClosing, record, plan
<1>6. ASSUME WatchdogCloses PROVE Keeps
  BY <1>6, <1>p, Moves, Suspends, Returns DEF WatchdogCloses, record, plan
<1> QED
  BY <1>1, <1>2, <1>3, <1>4, <1>5, <1>6 DEF WatchdogStep

LEMMA EnvironmentKeeps == TypeOK /\ RecordInv /\ Environment => Keeps
<1> USE DEF Keeps, Closing, Service, None
<1> SUFFICES ASSUME TypeOK, RecordInv PROVE Environment => Keeps
  OBVIOUS
<1>p. pc \in [Proc -> Label] /\ then \in [Speaker -> Label] /\ then["run"] \notin Closing
      /\ Service \subseteq Proc /\ "run" \in Speaker /\ Speaker \subseteq Proc /\ Turns \subseteq Speaker /\ Turns \subseteq Proc
  BY TaskNames DEF TypeOK, ControlOK, PlanOK, RecordInv, Proc, Service, Speaker
<1>1. ASSUME FrameArrives PROVE Keeps
  BY <1>1, <1>p, Moves, Suspends, Returns DEF FrameArrives, record, plan, Wakes
<1>2. ASSUME UtteranceGoesOn PROVE Keeps
  BY <1>2, <1>p, Moves, Suspends, Returns DEF UtteranceGoesOn, record, plan, Wakes
<1>3. ASSUME SilenceGrows PROVE Keeps
  BY <1>3, <1>p, Moves, Suspends, Returns DEF SilenceGrows, record, plan, Wakes
<1>4. ASSUME Tick PROVE Keeps
  BY <1>4, <1>p, Moves, Suspends, Returns DEF Tick, record, plan, Wakes
<1>5. ASSUME SessionBoundExpires PROVE Keeps
  BY <1>5, <1>p, Moves, Suspends, Returns DEF SessionBoundExpires, record, plan, Wakes
<1>6. ASSUME NEW h \in Hanger, HangupRequested(h) PROVE Keeps
  BY <1>6, <1>p, Moves, Suspends, Returns DEF HangupRequested, record, plan, Wakes
<1>7. ASSUME NEW q \in Proc, ServiceAnswers(q) PROVE Keeps
  BY <1>7, <1>p, Moves, Suspends, Returns DEF ServiceAnswers, record, plan, Wakes
<1>8. ASSUME NEW q \in Proc, SendGoesThrough(q) PROVE Keeps
  BY <1>8, <1>p, Moves, Suspends, Returns DEF SendGoesThrough, record, plan, Wakes
<1>9. ASSUME NEW s \in Speaker, ChunkSent(s) PROVE Keeps
  BY <1>9, <1>p, Moves, Suspends, Returns DEF ChunkSent, record, plan
<1>10. ASSUME NEW s \in Speaker, PlayEnds(s) PROVE Keeps
  BY <1>10, <1>p, Moves, Suspends, Returns DEF PlayEnds, record, plan
<1> QED
  BY <1>1, <1>2, <1>3, <1>4, <1>5, <1>6, <1>7, <1>8, <1>9, <1>10 DEF Environment

LEMMA RunStepInv == TypeOK /\ RecordInv /\ RunStep => RecordInv'
<1> USE DEF Closing, Service, None
<1> SUFFICES ASSUME TypeOK, RecordInv, RunStep
             PROVE  RecordInv'
  OBVIOUS
<1>p. pc \in [Proc -> Label] /\ then \in [Speaker -> Label] /\ then["run"] \notin Closing
      /\ Service \subseteq Proc /\ "run" \in Speaker
  BY DEF TypeOK, ControlOK, PlanOK, RecordInv, Proc, Service, Speaker
<1>1. ASSUME RunConnects PROVE Keeps
  BY <1>1, <1>p, Suspends DEF Keeps, RunConnects, record, plan
<1>2. ASSUME RunStarts PROVE Keeps
  BY <1>2, <1>p DEF Keeps, RunStarts, record
<1>3. ASSUME RunGreeted PROVE Keeps
  BY <1>3, <1>p, Moves, Suspends DEF Keeps, RunGreeted, record, plan
<1>4. ASSUME RunFinal PROVE Keeps
  BY <1>4, <1>p DEF Keeps, RunFinal, record, plan
<1>5. ASSUME RunJoinsConsumer PROVE Keeps
  <2>1. pc' = [pc EXCEPT !["run"] = "stop hold"]
    BY <1>5, Moves, Suspends DEF RunJoinsConsumer
  <2> QED BY <1>5, <1>p, <2>1 DEF Keeps, RunJoinsConsumer, record, plan
<1>6. ASSUME FinishHold PROVE Keeps
  <2>1. pc' = [pc EXCEPT !["run"] = "stop playback"]
    BY <1>6, Moves, Suspends DEF FinishHold
  <2> QED BY <1>6, <1>p, <2>1 DEF Keeps, FinishHold, record, plan
<1>7. ASSUME FinishPlayback PROVE Keeps
  <2>1. pc' = [pc EXCEPT !["run"] = "stop turn"]
    BY <1>7, Moves, Suspends DEF FinishPlayback
  <2> QED BY <1>7, <1>p, <2>1 DEF Keeps, FinishPlayback, record, plan
<1>8. ASSUME FinishTurn PROVE Keeps
  <2>1. pc' = [pc EXCEPT !["run"] = "settle"]
    BY <1>8, Moves, Suspends DEF FinishTurn
  <2> QED BY <1>8, <1>p, <2>1 DEF Keeps, FinishTurn, record, plan
<1>9. CASE FinishSettles
  <2>1. pc'["run"] = "summarised" /\ outcome' # "in_progress"
    BY <1>9, <1>p, Moves, Suspends DEF FinishSettles
  <2> QED BY <1>9, <2>1 DEF FinishSettles, RecordInv, SavedComplete, plan
<1>10. CASE FinishDisposes
  <2>1. pc["run"] = "summarised" /\ disposition' # None
    BY <1>10, RunsReady DEF FinishDisposes
  <2> QED BY <1>10, <2>1 DEF FinishDisposes, RecordInv, SavedComplete, plan
<1>11. CASE FinishCommits
  <2>1. pc["run"] = "commit" /\ pc'["run"] = "done"
    BY <1>11, <1>p, RunsReady, Returns DEF FinishCommits
  <2>2. SavedComplete'
    BY <1>11, <2>1 DEF FinishCommits, RecordInv, SavedComplete
  <2> QED BY <1>11, <2>1, <2>2 DEF FinishCommits, RecordInv, plan
<1> QED
  BY <1>1, <1>2, <1>3, <1>4, <1>5, <1>6, <1>7, <1>8, <1>9, <1>10, <1>11, KeepsPreserves DEF RunStep

\* Both always hold.
LEMMA RecordAlways == Spec => [](TypeOK /\ RecordInv)
<1>1. Init => RecordInv
  BY DEF Init, RecordInv, SavedComplete, Closing, Proc, Service, Speaker
<1>2. TypeOK /\ RecordInv /\ [Next]_vars => RecordInv'
  <2> SUFFICES ASSUME TypeOK, RecordInv, [Next]_vars
               PROVE  RecordInv'
    OBVIOUS
  <2>1. ASSUME NEW t \in Turns, HoldStops(t) PROVE Keeps
    BY <2>1 DEF HoldStops, Keeps, RecordInv, record, plan
  <2>2. ASSUME NEW q \in Proc, Raise(q) PROVE Keeps
    <3>1. pc' = [pc EXCEPT ![q] = "final"] \/ pc' = [pc EXCEPT ![q] = "done"]
      BY <2>2, Moves, Returns DEF Raise
    <3>2. outcome' = "cancelled" \/ outcome' = outcome
      BY <2>2 DEF Raise
    <3> QED BY <2>2, <3>1, <3>2
          DEF Raise, Keeps, RecordInv, Closing, TypeOK, ControlOK, Proc, Service, plan
  <2>3. CASE UNCHANGED vars
    BY <2>3 DEF Keeps, RecordInv, SavedComplete, vars, record, plan
  <2> QED
    BY <2>1, <2>2, <2>3, SpeakStepKeeps, HangupStepKeeps, RunStepInv, ConsumerStepKeeps, TurnStepKeeps,
       WatchdogStepKeeps, EnvironmentKeeps, KeepsPreserves DEF Next, LoopStep
<1> QED
  BY <1>1, <1>2, TypeCorrect, PTL DEF Spec

\* No call is saved as still in progress, nor without a disposition, whichever
\* way its tasks interleave, whoever hangs up and wherever finishing is cut off.
THEOREM SavedRecordsComplete == Spec => []SavedComplete
<1>1. RecordInv => SavedComplete
  BY DEF RecordInv
<1> QED
  BY <1>1, RecordAlways, PTL

-----------------------------------------------------------------------------
(* The call implements what it promises.                                   *)

Finishing == {"final", "join consumer", "stop hold", "stop playback", "stop turn",
              "settle", "summarised", "commit"}

\* The strengthening: only a transport out of patience cancels run(), and only while it
\* lives; what stands behind a cancellation is run() for nobody but who hung up; and
\* after the greeting run() goes on to listen.
CutOnlyLate == "run" \in cancelled => "slow finish" \in Adversity /\ pc["run"] # "done"
AwaitedOnlyBy(j) == \A p \in Proc : j[p][1] = "proc" => p \in Hanger \cup {"run"}
GreetsThenListens == then["run"] \in {"idle", "greeted"}

PromiseInv == CutOnlyLate /\ AwaitedOnlyBy(joining) /\ GreetsThenListens

\* What a step of any other task leaves of run().
Aside ==
  /\ pc'["run"] = pc["run"]
  /\ then'["run"] = then["run"]
  /\ "run" \in cancelled' =>
       "run" \in cancelled \/ ("slow finish" \in Adversity /\ pc["run"] # "done")
  /\ AwaitedOnlyBy(joining) => AwaitedOnlyBy(joining')

LEMMA AsideKeeps == PromiseInv /\ Aside => PromiseInv'
BY DEF PromiseInv, Aside, CutOnlyLate, GreetsThenListens

\* A task moves on by itself: it is no longer cancelled, nobody else is either, and
\* what it awaits, if anything, is a line or the tone.
MovesOn(p, l) ==
  /\ pc' = [pc EXCEPT ![p] = l]
  /\ cancelled' = cancelled \ {p}
  /\ \A q \in Proc : joining'[q] = joining[q] \/ joining'[q][1] # "proc"

LEMMA MoveOn ==
  ASSUME ControlOK, NEW p \in Proc, NEW l,
         \/ Continue(p, l) \/ Send(p, l) \/ StopHold(p, l) \/ CancelPlayback(p, l)
         \/ \E x, q : Suspend(p, l, x, q) /\ x[1] # "proc"
         \/ l = "done" /\ \E q : Return(p, q)
  PROVE  MovesOn(p, l)
<1>0. joining \in [Proc -> Task \cup {NoTask}] /\ NoTask[1] # "proc"
      /\ \A t : HoldTask(t)[1] # "proc" /\ PlayTask(t)[1] # "proc"
  BY DEF ControlOK, NoTask, HoldTask, PlayTask
<1>1. ASSUME NEW x, NEW q, Suspend(p, l, x, q), x[1] # "proc" PROVE MovesOn(p, l)
  BY <1>0, <1>1 DEF Suspend, MovesOn
<1>2. ASSUME Continue(p, l) PROVE MovesOn(p, l)
  BY <1>0, <1>2 DEF Continue, MovesOn
<1>3. ASSUME Send(p, l) PROVE MovesOn(p, l)
  BY <1>0, <1>1, <1>2, <1>3 DEF Send
<1>4. ASSUME StopHold(p, l) PROVE MovesOn(p, l)
  BY <1>0, <1>1, <1>2, <1>4 DEF StopHold
<1>5. ASSUME CancelPlayback(p, l) PROVE MovesOn(p, l)
  BY <1>0, <1>1, <1>2, <1>5 DEF CancelPlayback
<1>6. ASSUME NEW q, Return(p, q), l = "done" PROVE MovesOn(p, l)
  BY <1>0, <1>6 DEF Return, TaskOver, MovesOn
<1> QED BY <1>1, <1>2, <1>3, <1>4, <1>5, <1>6

\* The task that moves on is another than run(), and plans nothing for it.
LEMMA MovesAside ==
  ASSUME ControlOK, NEW p \in Proc \ {"run"}, NEW l, MovesOn(p, l), then'["run"] = then["run"]
  PROVE  Aside
BY DEF ControlOK, MovesOn, Aside, AwaitedOnlyBy, Proc, Service

LEMMA LeavesAside ==
  ASSUME UNCHANGED <<pc, then, cancelled, joining>>
  PROVE  Aside
BY DEF Aside, AwaitedOnlyBy

LEMMA SpeakStepAside ==
  ASSUME TypeOK, NEW s \in Speaker \ {"run"},
         \/ SpeakEnter(s) \/ SpeakPlay(s) \/ SpeakAwait(s) \/ SpeakReturn(s)
  PROVE  Aside
<1>0. s \in Proc \ {"run"} /\ ControlOK /\ NoTask[1] # "proc"
  BY TaskNames DEF TypeOK, NoTask
<1>1. CASE SpeakEnter(s)
  <2>1. MovesOn(s, then[s]) \/ MovesOn(s, "play")
    BY <1>0, <1>1, MoveOn DEF SpeakEnter
  <2> QED BY <1>0, <1>1, <2>1, MovesAside DEF SpeakEnter, plan
<1>2. CASE SpeakPlay(s)
  <2>1. MovesOn(s, "announced")
    BY <1>0, <1>2 DEF SpeakPlay, MovesOn, ControlOK
  <2> QED BY <1>0, <1>2, <2>1, MovesAside DEF SpeakPlay, plan
<1>3. CASE SpeakAwait(s)
  <2>1. MovesOn(s, "speaking")
    BY <1>0, <1>3, MoveOn DEF SpeakAwait
  <2> QED BY <1>0, <1>3, <2>1, MovesAside DEF SpeakAwait, plan
<1>4. CASE SpeakReturn(s)
  <2>1. MovesOn(s, then[s])
    BY <1>0, <1>4, MoveOn DEF SpeakReturn
  <2> QED BY <1>0, <1>4, <2>1, MovesAside DEF SpeakReturn, plan
<1> QED BY <1>1, <1>2, <1>3, <1>4

\* Playbacks and the tone are no tasks that could cancel anything.
LEMMA SoundAside ==
  ASSUME TypeOK,
         \/ \E s \in Speaker : PlayStarts(s) \/ PlayCancelled(s)
         \/ \E t \in Turns : HoldStops(t)
  PROVE  Aside
<1>0. joining \in [Proc -> Task \cup {NoTask}] /\ NoTask[1] # "proc"
  BY DEF TypeOK, ControlOK, NoTask
<1>1. /\ UNCHANGED <<pc, then, cancelled>>
      /\ UNCHANGED joining \/ \E x, q : TaskOver(x, q)
  BY DEF PlayStarts, PlayCancelled, HoldStops, plan
<1>2. \A p \in Proc : joining'[p] = joining[p] \/ joining'[p] = NoTask
  BY <1>0, <1>1 DEF TaskOver
<1> QED BY <1>0, <1>1, <1>2 DEF Aside, AwaitedOnlyBy

LEMMA HangupStepAside ==
  ASSUME TypeOK, HangupStep
  PROVE  Aside
<1>0. ControlOK /\ NoTask[1] # "proc" /\ joining \in [Proc -> Task \cup {NoTask}]
  BY DEF TypeOK, ControlOK, NoTask
<1>1. ASSUME NEW p \in Proc \ {"run", "consumer"}, Hangup(p) PROVE Aside
  <2>1. MovesOn(p, "hung up") \/ MovesOn(p, "sentinel")
    BY <1>0, <1>1, MoveOn DEF Hangup
  <2> QED BY <1>0, <1>1, <2>1, MovesAside DEF Hangup, plan
<1>2. ASSUME NEW p \in Proc \ {"run", "consumer"}, HangupSentinel(p) PROVE Aside
  <2>1. MovesOn(p, "hung up")
    BY <1>0, <1>2 DEF HangupSentinel, MovesOn
  <2> QED BY <1>0, <1>2, <2>1, MovesAside DEF HangupSentinel, plan
<1>3. ASSUME NEW p \in Proc \ {"run", "consumer"}, HungUp(p) PROVE Aside
  <2>1. CASE p = "reader" /\ Suspend(p, "bounded", ProcTask("run"), <<>>)
    <3>1. "reader" \in Hanger
      BY <2>1, TurnNames DEF Proc, Service
    <3>2. /\ pc' = [pc EXCEPT !["reader"] = "bounded"] /\ cancelled' = cancelled \ {"reader"}
          /\ \A q \in Proc \ {"reader"} : joining'[q] = joining[q]
      BY <1>0, <2>1 DEF Suspend
    <3> QED BY <1>3, <3>1, <3>2 DEF HungUp, plan, Aside, AwaitedOnlyBy, TypeOK, ControlOK, Proc, Service
  <2>2. CASE Return(p, <<>>)
    <3>1. MovesOn(p, "done")
      BY <1>0, <2>2, MoveOn
    <3> QED BY <1>0, <1>3, <3>1, MovesAside DEF HungUp, plan
  <2> QED BY <1>3, <2>1, <2>2 DEF HungUp
<1>4. ASSUME ReaderDone PROVE Aside
  <2>1. "reader" \in Proc \ {"run"} /\ Return("reader", <<>>)
    BY <1>4 DEF ReaderDone, Proc
  <2>2. MovesOn("reader", "done")
    BY <1>0, <2>1, MoveOn
  <2> QED BY <1>0, <1>4, <2>1, <2>2, MovesAside DEF ReaderDone, plan
<1> QED BY <1>1, <1>2, <1>3, <1>4 DEF HangupStep

\* The turn that a new one cancels never waits for run().
LEMMA ConsumerStepAside ==
  ASSUME TypeOK, PromiseInv, ConsumerStep
  PROVE  Aside
<1>0. /\ ControlOK /\ NoTask[1] # "proc" /\ joining \in [Proc -> Task \cup {NoTask}]
      /\ "consumer" \in Proc \ {"run"} /\ pc \in [Proc -> Label] /\ Turns \subseteq Proc
  BY TaskNames DEF TypeOK, ControlOK, NoTask, Proc, Service
<1>1. CASE ConsumerLoops
  <2>1. MovesOn("consumer", "done") \/ MovesOn("consumer", "get")
    BY <1>0, <1>1, MoveOn DEF ConsumerLoops
  <2> QED BY <1>0, <1>1, <2>1, MovesAside DEF ConsumerLoops, plan
<1>2. CASE ConsumerEnds
  <2>1. MovesOn("consumer", "done")
    BY <1>0, <1>2, MoveOn DEF ConsumerEnds
  <2> QED BY <1>0, <1>2, <2>1, MovesAside DEF ConsumerEnds, plan
<1>3. CASE FrameDropped
  <2>1. MovesOn("consumer", "loop")
    BY <1>0, <1>3, MoveOn DEF FrameDropped
  <2> QED BY <1>0, <1>3, <2>1, MovesAside DEF FrameDropped, plan
<1>4. CASE BargeIn
  <2>1. MovesOn("consumer", "barge in")
    BY <1>0, <1>4, MoveOn DEF BargeIn
  <2> QED BY <1>0, <1>4, <2>1, MovesAside DEF BargeIn, plan
<1>5. CASE BargeInSent
  <2>1. MovesOn("consumer", "listen")
    BY <1>0, <1>5, MoveOn DEF BargeInSent
  <2> QED BY <1>0, <1>5, <2>1, MovesAside DEF BargeInSent, plan
<1>6. CASE BargeInListens
  <2>1. MovesOn("consumer", "loop")
    BY <1>0, <1>6, MoveOn DEF BargeInListens
  <2> QED BY <1>0, <1>6, <2>1, MovesAside DEF BargeInListens, plan
<1>7. CASE FrameHeard
  <2>1. MovesOn("consumer", "loop")
    BY <1>0, <1>7, MoveOn DEF FrameHeard
  <2> QED BY <1>0, <1>7, <2>1, MovesAside DEF FrameHeard, plan
<1>8. ASSUME NEW t \in Turns, TurnOpens(t) PROVE Aside
  <2>1. "run" \in cancelled' => "run" \in cancelled
    <3>1. CASE turnTask # None /\ Live(turnTask)
      <4>1. turnTask \in Turns /\ turnTask \notin Hanger \cup {"run"}
        BY <3>1, TurnNames, HangerAssumption DEF TypeOK, CallerOK
      <4>2. joining[turnTask][1] # "proc"
        BY <1>0, <4>1 DEF PromiseInv, AwaitedOnlyBy
      <4>3. Struck(turnTask) \subseteq {turnTask}
        BY <4>2 DEF Struck, Reached
      <4> QED BY <1>8, <3>1, <4>1, <4>3 DEF TurnOpens
    <3>2. CASE ~(turnTask # None /\ Live(turnTask))
      BY <1>8, <3>2 DEF TurnOpens
    <3> QED BY <3>1, <3>2
  <2>2. t # "run"
    BY TurnNames
  <2>3. pc'["run"] = pc["run"] /\ \A q \in Proc : joining'[q] = joining[q] \/ joining'[q] = NoTask
    <3>1. /\ pc' = [pc EXCEPT !["consumer"] = "loop", ![t] = "start"]
          /\ joining' = [joining EXCEPT !["consumer"] = NoTask]
      BY <1>8 DEF TurnOpens
    <3>2. pc \in [Proc -> Label] /\ joining \in [Proc -> Task \cup {NoTask}] /\ "run" \in Proc
      BY <1>0 DEF Proc, Service
    <3>3. pc'["run"] = pc["run"]
      BY <2>2, <3>1, <3>2
    <3>4. ASSUME NEW q \in Proc PROVE joining'[q] = joining[q] \/ joining'[q] = NoTask
      BY <3>1, <3>2
    <3> QED BY <3>3, <3>4
  <2>4. then' = then
    BY <1>8 DEF TurnOpens, plan
  <2> QED BY <1>0, <2>1, <2>3, <2>4 DEF Aside, AwaitedOnlyBy
<1> QED BY <1>1, <1>2, <1>3, <1>4, <1>5, <1>6, <1>7, <1>8 DEF ConsumerStep

LEMMA TurnStepAside ==
  ASSUME TypeOK, TurnStep
  PROVE  Aside
<1>0. /\ ControlOK /\ NoTask[1] # "proc" /\ Turns \subseteq Proc \ {"run"}
      /\ then \in [Speaker -> Label] /\ "run" \in Speaker
  BY TaskNames, TurnNames DEF TypeOK, ControlOK, PlanOK, NoTask, Speaker
<1>1. ASSUME NEW t \in Turns, TurnStarts(t) PROVE Aside
  <2>1. MovesOn(t, "stt")
    BY <1>0, <1>1, MoveOn DEF TurnStarts
  <2>2. then'["run"] = then["run"]
    BY <1>0, <1>1 DEF TurnStarts, plan
  <2> QED BY <1>0, <2>1, <2>2, MovesAside
<1>2. ASSUME NEW t \in Turns, TurnEmpty(t) PROVE Aside
  <2>1. MovesOn(t, "unheard")
    BY <1>0, <1>2, MoveOn DEF TurnEmpty
  <2>2. then'["run"] = then["run"]
    BY <1>0, <1>2 DEF TurnEmpty, plan
  <2> QED BY <1>0, <2>1, <2>2, MovesAside
<1>3. ASSUME NEW t \in Turns, TurnUnheard(t) PROVE Aside
  <2>1. MovesOn(t, "done")
    BY <1>0, <1>3, MoveOn DEF TurnUnheard
  <2>2. then'["run"] = then["run"]
    BY <1>0, <1>3 DEF TurnUnheard, plan
  <2> QED BY <1>0, <2>1, <2>2, MovesAside
<1>4. ASSUME NEW t \in Turns, TurnFixedLine(t) PROVE Aside
  <2>1. MovesOn(t, "line")
    BY <1>0, <1>4, MoveOn DEF TurnFixedLine
  <2>2. then'["run"] = then["run"]
    BY <1>0, <1>4 DEF TurnFixedLine, plan
  <2> QED BY <1>0, <2>1, <2>2, MovesAside
<1>5. ASSUME NEW t \in Turns, TurnLine(t) PROVE Aside
  <2>1. MovesOn(t, "enter")
    BY <1>0, <1>5, MoveOn DEF TurnLine
  <2>2. then'["run"] = then["run"]
    BY <1>0, <1>5 DEF TurnLine, plan
  <2> QED BY <1>0, <2>1, <2>2, MovesAside
<1>6. ASSUME NEW t \in Turns, TurnAsks(t) PROVE Aside
  <2>1. MovesOn(t, "respond")
    BY <1>0, <1>6, MoveOn DEF TurnAsks
  <2>2. then'["run"] = then["run"]
    BY <1>0, <1>6 DEF TurnAsks, plan
  <2> QED BY <1>0, <2>1, <2>2, MovesAside
<1>7. ASSUME NEW t \in Turns, TurnAnswered(t) PROVE Aside
  <2>1. MovesOn(t, "answered")
    BY <1>0, <1>7, MoveOn DEF TurnAnswered
  <2>2. then'["run"] = then["run"]
    BY <1>0, <1>7 DEF TurnAnswered, plan
  <2> QED BY <1>0, <2>1, <2>2, MovesAside
<1>8. ASSUME NEW t \in Turns, TurnFailed(t) PROVE Aside
  <2>1. MovesOn(t, "line")
    BY <1>0, <1>8, MoveOn DEF TurnFailed
  <2>2. then'["run"] = then["run"]
    BY <1>0, <1>8 DEF TurnFailed, plan
  <2> QED BY <1>0, <2>1, <2>2, MovesAside
<1>9. ASSUME NEW t \in Turns, TurnSpeaks(t) PROVE Aside
  <2>1. MovesOn(t, "enter") \/ MovesOn(t, "spoken")
    BY <1>0, <1>9, MoveOn DEF TurnSpeaks
  <2>2. then'["run"] = then["run"]
    BY <1>0, <1>9 DEF TurnSpeaks, plan
  <2> QED BY <1>0, <2>1, <2>2, MovesAside
<1>10. ASSUME NEW t \in Turns, TurnRecorded(t) PROVE Aside
  <2>1. MovesOn(t, "act")
    BY <1>0, <1>10, MoveOn DEF TurnRecorded
  <2>2. then'["run"] = then["run"]
    BY <1>0, <1>10 DEF TurnRecorded, plan
  <2> QED BY <1>0, <2>1, <2>2, MovesAside
<1>11. ASSUME NEW t \in Turns, TurnListens(t) PROVE Aside
  <2>1. MovesOn(t, "done")
    BY <1>0, <1>11, MoveOn DEF TurnListens
  <2>2. then'["run"] = then["run"]
    BY <1>0, <1>11 DEF TurnListens, plan
  <2> QED BY <1>0, <2>1, <2>2, MovesAside
<1>12. ASSUME NEW t \in Turns, TurnTransfers(t) PROVE Aside
  <2>1. MovesOn(t, "hangup")
    BY <1>0, <1>12, MoveOn DEF TurnTransfers
  <2>2. then'["run"] = then["run"]
    BY <1>0, <1>12 DEF TurnTransfers, plan
  <2> QED BY <1>0, <2>1, <2>2, MovesAside
<1>13. ASSUME NEW t \in Turns, TurnEndsCall(t) PROVE Aside
  <2>1. MovesOn(t, "hangup")
    BY <1>0, <1>13, MoveOn DEF TurnEndsCall
  <2>2. then'["run"] = then["run"]
    BY <1>0, <1>13 DEF TurnEndsCall, plan
  <2> QED BY <1>0, <2>1, <2>2, MovesAside
<1> QED BY <1>1, <1>2, <1>3, <1>4, <1>5, <1>6, <1>7, <1>8, <1>9, <1>10, <1>11, <1>12, <1>13 DEF TurnStep

LEMMA WatchdogStepAside ==
  ASSUME TypeOK, WatchdogStep
  PROVE  Aside
<1>0. /\ ControlOK /\ NoTask[1] # "proc" /\ "watchdog" \in Proc \ {"run"}
      /\ then \in [Speaker -> Label] /\ "run" \in Speaker
  BY DEF TypeOK, ControlOK, PlanOK, NoTask, Proc, Service, Speaker
<1>1. CASE WatchdogLoops
  <2>1. MovesOn("watchdog", "done") \/ MovesOn("watchdog", "tick")
    BY <1>0, <1>1, MoveOn DEF WatchdogLoops
  <2>2. then'["run"] = then["run"]
    BY <1>0, <1>1 DEF WatchdogLoops, plan
  <2> QED BY <1>0, <2>1, <2>2, MovesAside
<1>2. CASE WatchdogTimesOut
  <2>1. MovesOn("watchdog", "hangup")
    BY <1>0, <1>2, MoveOn DEF WatchdogTimesOut
  <2>2. then'["run"] = then["run"]
    BY <1>0, <1>2 DEF WatchdogTimesOut, plan
  <2> QED BY <1>0, <2>1, <2>2, MovesAside
<1>3. CASE WatchdogPasses
  <2>1. MovesOn("watchdog", "again")
    BY <1>0, <1>3, MoveOn DEF WatchdogPasses
  <2>2. then'["run"] = then["run"]
    BY <1>0, <1>3 DEF WatchdogPasses, plan
  <2> QED BY <1>0, <2>1, <2>2, MovesAside
<1>4. CASE WatchdogAsks
  <2>1. MovesOn("watchdog", "enter")
    BY <1>0, <1>4, MoveOn DEF WatchdogAsks
  <2>2. then'["run"] = then["run"]
    BY <1>0, <1>4 DEF WatchdogAsks, plan
  <2> QED BY <1>0, <2>1, <2>2, MovesAside
<1>5. CASE WatchdogClosing
  <2>1. MovesOn("watchdog", "enter")
    BY <1>0, <1>5, MoveOn DEF WatchdogClosing
  <2>2. then'["run"] = then["run"]
    BY <1>0, <1>5 DEF WatchdogClosing, plan
  <2> QED BY <1>0, <2>1, <2>2, MovesAside
<1>6. CASE WatchdogCloses
  <2>1. MovesOn("watchdog", "hangup")
    BY <1>0, <1>6, MoveOn DEF WatchdogCloses
  <2>2. then'["run"] = then["run"]
    BY <1>0, <1>6 DEF WatchdogCloses, plan
  <2> QED BY <1>0, <2>1, <2>2, MovesAside
<1> QED BY <1>1, <1>2, <1>3, <1>4, <1>5, <1>6 DEF WatchdogStep

\* The world outside cancels run() only when the transport's patience ends.
LEMMA EnvironmentAside ==
  ASSUME TypeOK, Environment
  PROVE  Aside
<1>0. pc \in [Proc -> Label] /\ "run" \notin Hanger
  BY HangerAssumption DEF TypeOK, ControlOK
<1>1. CASE \/ FrameArrives \/ UtteranceGoesOn \/ SilenceGrows \/ Tick
           \/ \E p \in Proc : ServiceAnswers(p) \/ SendGoesThrough(p)
           \/ \E s \in Speaker : ChunkSent(s) \/ PlayEnds(s)
  <2>1. UNCHANGED <<pc, then, cancelled, joining>>
    BY <1>1 DEF FrameArrives, UtteranceGoesOn, SilenceGrows, Tick, ServiceAnswers, SendGoesThrough,
                ChunkSent, PlayEnds, Wakes, plan, loop
  <2> QED BY <2>1, LeavesAside
<1>2. ASSUME NEW h \in Hanger, HangupRequested(h) PROVE Aside
  <2>1. pc' = [pc EXCEPT ![h] = "hangup"] /\ UNCHANGED <<then, cancelled, joining>>
    BY <1>2 DEF HangupRequested, Wakes, plan
  <2>2. pc'["run"] = pc["run"]
    BY <1>0, <1>2, <2>1
  <2> QED BY <2>1, <2>2 DEF Aside, AwaitedOnlyBy
<1>3. CASE SessionBoundExpires
  <2>1. "slow finish" \in Adversity /\ pc["run"] # "done"
    BY <1>3 DEF SessionBoundExpires, Live
  <2>2. pc' = [pc EXCEPT !["reader"] = "expired"] /\ UNCHANGED <<then, joining>>
    BY <1>3 DEF SessionBoundExpires, plan
  <2>3. pc'["run"] = pc["run"]
    BY <1>0, <2>2
  <2> QED BY <2>1, <2>2, <2>3 DEF Aside, AwaitedOnlyBy
<1> QED BY <1>1, <1>2, <1>3 DEF Environment

\* A step of run() itself: it is not cancelled any more, and the call goes on with what
\* it was at, begins to finish, or is over.
Own(phase) ==
  /\ pc'["run"] \in phase
  /\ "run" \notin cancelled'
  /\ then'["run"] \in {"idle", "greeted"}
  /\ AwaitedOnlyBy(joining')

LEMMA OwnKeeps ==
  ASSUME NEW phase, Own(phase)
  PROVE  PromiseInv'
BY DEF Own, PromiseInv, CutOnlyLate, GreetsThenListens

\* The segments before the finally block of run().
Before == Label \ (Finishing \cup {"done"})

LEMMA MovesOwn ==
  ASSUME TypeOK, PromiseInv, NEW l, MovesOn("run", l), then'["run"] \in {"idle", "greeted"}
  PROVE  Own({l})
BY DEF TypeOK, ControlOK, MovesOn, Own, PromiseInv, AwaitedOnlyBy, Proc, Service

LEMMA RunSpeaks ==
  ASSUME TypeOK, PromiseInv,
         SpeakEnter("run") \/ SpeakPlay("run") \/ SpeakAwait("run") \/ SpeakReturn("run")
  PROVE  pc["run"] \in Before /\ Own(Before) /\ saved' = saved
<1>0. /\ "run" \in Proc /\ ControlOK /\ NoTask[1] # "proc" /\ then["run"] \in {"idle", "greeted"}
      /\ {"idle", "greeted", "play", "announced", "speaking", "enter"} \subseteq Before
  BY DEF TypeOK, NoTask, Proc, Service, PromiseInv, GreetsThenListens, Before, Label, Finishing
<1>1. pc["run"] \in {"enter", "play", "announced", "speaking"} /\ then' = then /\ saved' = saved
  BY DEF SpeakEnter, SpeakPlay, SpeakAwait, SpeakReturn, Runs, plan, record
<1>2. \E l \in {"idle", "greeted", "play", "announced", "speaking"} : MovesOn("run", l)
  <2>1. CASE SpeakEnter("run")
    BY <1>0, <2>1, MoveOn DEF SpeakEnter
  <2>2. CASE SpeakPlay("run")
    BY <1>0, <2>2 DEF SpeakPlay, MovesOn, ControlOK
  <2>3. CASE SpeakAwait("run")
    BY <1>0, <2>3, MoveOn DEF SpeakAwait
  <2>4. CASE SpeakReturn("run")
    BY <1>0, <2>4, MoveOn DEF SpeakReturn
  <2> QED BY <2>1, <2>2, <2>3, <2>4
<1>3. PICK l \in {"idle", "greeted", "play", "announced", "speaking"} : Own({l})
  BY <1>0, <1>1, <1>2, MovesOwn
<1> QED BY <1>0, <1>1, <1>3 DEF Own

\* Where run() is and what is kept, before a step of it and after.
Goes ==
  \/ pc["run"] \in Before /\ Own(Before \cup Finishing) /\ saved' = saved
  \/ pc["run"] \in Finishing /\ Own(Finishing) /\ saved' = saved
  \/ pc["run"] \in Finishing /\ Own({"done"}) /\ saved' # {}
  \/ /\ pc["run"] # "done" /\ "slow finish" \in Adversity
     /\ Own({"done"}) /\ saved' = saved

LEMMA RunStepGoes ==
  ASSUME TypeOK, PromiseInv, RunStep
  PROVE  Goes
<1>0. /\ "run" \in Proc /\ ControlOK /\ NoTask[1] # "proc" /\ then["run"] \in {"idle", "greeted"}
      /\ then \in [Speaker -> Label] /\ "run" \in Speaker /\ pc \in [Proc -> Label]
      /\ joining \in [Proc -> Task \cup {NoTask}]
  BY DEF TypeOK, ControlOK, PlanOK, NoTask, Proc, Service, Speaker, PromiseInv, GreetsThenListens
<1>b. {"start", "connected", "enter", "greeted", "waiting"} \subseteq Before
  BY DEF Before, Label, Finishing
<1>m. ASSUME NEW l, MovesOn("run", l), then' = then PROVE Own({l})
  BY <1>0, <1>m, MovesOwn
<1>w. ASSUME NEW P, NEW l \in P, Own({l}) PROVE Own(P)
  BY <1>w DEF Own
<1>1. CASE RunConnects
  <2>1. MovesOn("run", "connected") /\ pc["run"] = "start" /\ then' = then /\ saved' = saved
    BY <1>0, <1>1, MoveOn DEF RunConnects, Runs, plan, record
  <2> QED BY <1>b, <1>m, <1>w, <2>1 DEF Goes
<1>2. CASE RunStarts
  <2>1. /\ pc["run"] = "connected" /\ pc'["run"] = "enter" /\ then'["run"] = "greeted"
        /\ "run" \notin cancelled' /\ joining' = joining /\ saved' = saved
    BY <1>0, <1>2 DEF RunStarts, Runs, Suppressing, record
  <2> QED BY <1>b, <2>1 DEF Goes, Own, PromiseInv, AwaitedOnlyBy
<1>3. CASE RunGreeted
  <2>1. /\ MovesOn("run", "final") \/ MovesOn("run", "waiting")
        /\ pc["run"] = "greeted" /\ then' = then /\ saved' = saved
    BY <1>0, <1>3, MoveOn DEF RunGreeted, Runs, plan, record
  <2> QED BY <1>b, <1>m, <1>w, <2>1 DEF Goes, Finishing
<1>4. CASE RunFinal
  <2>1. /\ pc["run"] \in {"final", "waiting"} /\ pc'["run"] = "join consumer" /\ then' = then
        /\ "run" \notin cancelled' /\ saved' = saved
        /\ \A q \in Proc \ {"run"} : joining'[q] = joining[q]
    BY <1>0, <1>4 DEF RunFinal, Runs, plan, record
  <2>2. Own({"join consumer"})
    BY <1>0, <2>1 DEF Own, PromiseInv, AwaitedOnlyBy
  <2> QED BY <1>b, <1>w, <2>1, <2>2 DEF Goes, Finishing
<1>5. CASE RunJoinsConsumer
  <2>1. /\ pc["run"] = "join consumer" /\ pc'["run"] = "stop hold" /\ then' = then
        /\ "run" \notin cancelled' /\ saved' = saved
        /\ \A q \in Proc \ {"run"} : joining'[q] = joining[q]
    BY <1>0, <1>5 DEF RunJoinsConsumer, Runs, Suspend, Continue, plan, record
  <2>2. Own({"stop hold"})
    BY <1>0, <2>1 DEF Own, PromiseInv, AwaitedOnlyBy
  <2> QED BY <1>w, <2>1, <2>2 DEF Goes, Finishing
<1>6. CASE FinishHold
  <2>1. /\ MovesOn("run", "stop playback")
        /\ pc["run"] = "stop hold" /\ then' = then /\ saved' = saved
    BY <1>0, <1>6, MoveOn DEF FinishHold, Runs, plan, record
  <2> QED BY <1>m, <1>w, <2>1 DEF Goes, Finishing
<1>7. CASE FinishPlayback
  <2>1. /\ MovesOn("run", "stop turn")
        /\ pc["run"] = "stop playback" /\ then' = then /\ saved' = saved
    BY <1>0, <1>7, MoveOn DEF FinishPlayback, Runs, plan, record
  <2> QED BY <1>m, <1>w, <2>1 DEF Goes, Finishing
<1>8. CASE FinishTurn
  <2>1. /\ pc["run"] = "stop turn" /\ pc'["run"] = "settle" /\ then' = then
        /\ "run" \notin cancelled' /\ saved' = saved
        /\ \A q \in Proc \ {"run"} : joining'[q] = joining[q]
    BY <1>0, <1>8 DEF FinishTurn, Runs, Continue, plan, record
  <2>2. Own({"settle"})
    BY <1>0, <2>1 DEF Own, PromiseInv, AwaitedOnlyBy
  <2> QED BY <1>w, <2>1, <2>2 DEF Goes, Finishing
<1>9. CASE FinishSettles
  <2>1. /\ MovesOn("run", "summarised")
        /\ pc["run"] = "settle" /\ then' = then /\ saved' = saved
    BY <1>0, <1>9, MoveOn DEF FinishSettles, Runs, plan, record
  <2> QED BY <1>m, <1>w, <2>1 DEF Goes, Finishing
<1>10. CASE FinishDisposes
  <2>1. /\ MovesOn("run", "commit")
        /\ pc["run"] = "summarised" /\ then' = then /\ saved' = saved
    BY <1>0, <1>10, MoveOn DEF FinishDisposes, Runs, plan, record
  <2> QED BY <1>m, <1>w, <2>1 DEF Goes, Finishing
<1>11. CASE FinishCommits
  <2>1. /\ MovesOn("run", "done")
        /\ pc["run"] = "commit" /\ then' = then /\ saved' # {}
    BY <1>0, <1>11, MoveOn DEF FinishCommits, Runs, plan, record
  <2> QED BY <1>m, <2>1 DEF Goes, Finishing
<1> QED
  BY <1>1, <1>2, <1>3, <1>4, <1>5, <1>6, <1>7, <1>8, <1>9, <1>10, <1>11 DEF RunStep

LEMMA RunRaises ==
  ASSUME TypeOK, PromiseInv, Raise("run")
  PROVE  Goes
<1>0. /\ "run" \in Proc /\ ControlOK /\ pc["run"] \in Label
      /\ "slow finish" \in Adversity /\ pc["run"] # "done"
      /\ then' = then /\ saved' = saved /\ then["run"] \in {"idle", "greeted"}
  BY DEF Raise, TypeOK, ControlOK, Proc, Service, PromiseInv, CutOnlyLate, GreetsThenListens, plan
<1>1. CASE MovesOn("run", "final")
  <2>1. Own({"final"})
    BY <1>0, <1>1, MovesOwn
  <2>2. Own(Finishing) /\ Own(Before \cup Finishing)
    BY <2>1 DEF Own, Finishing
  <2>3. pc["run"] \in Before \/ pc["run"] \in Finishing
    BY <1>0 DEF Before
  <2> QED BY <1>0, <2>2, <2>3 DEF Goes
<1>2. CASE MovesOn("run", "done")
  <2>1. Own({"done"})
    BY <1>0, <1>2, MovesOwn
  <2> QED BY <1>0, <2>1 DEF Goes
<1>3. MovesOn("run", "final") \/ MovesOn("run", "done")
  BY <1>0, MoveOn DEF Raise
<1> QED BY <1>1, <1>2, <1>3

LEMMA OthersRaise ==
  ASSUME TypeOK, NEW p \in Proc \ {"run"}, Raise(p)
  PROVE  Aside
<1>1. MovesOn(p, "done") /\ ControlOK /\ then' = then
  BY MoveOn DEF Raise, TypeOK, plan
<1> QED BY <1>1, MovesAside

\* Every step is another task's, or goes one of the ways of run().
LEMMA EveryStep ==
  ASSUME TypeOK, RecordInv, PromiseInv, [Next]_vars
  PROVE  (Aside /\ saved' = saved) \/ Goes
<1>1. CASE UNCHANGED vars
  BY <1>1, LeavesAside DEF vars, plan, loop, record
<1>2. CASE SpeakStep
  <2>1. saved' = saved
    BY <1>2, SpeakStepKeeps DEF Keeps
  <2>2. ASSUME NEW s \in Speaker, s # "run",
               SpeakEnter(s) \/ SpeakPlay(s) \/ SpeakAwait(s) \/ SpeakReturn(s)
        PROVE  Aside
    BY <2>2, SpeakStepAside
  <2>3. ASSUME SpeakEnter("run") \/ SpeakPlay("run") \/ SpeakAwait("run") \/ SpeakReturn("run")
        PROVE  Goes
    BY <2>3, RunSpeaks DEF Goes, Own
  <2> QED BY <1>2, <2>1, <2>2, <2>3, SoundAside DEF SpeakStep
<1>3. CASE HangupStep
  BY <1>3, HangupStepAside, HangupStepKeeps DEF Keeps
<1>4. CASE RunStep
  BY <1>4, RunStepGoes
<1>5. CASE ConsumerStep
  BY <1>5, ConsumerStepAside, ConsumerStepKeeps DEF Keeps
<1>6. CASE TurnStep
  BY <1>6, TurnStepAside, TurnStepKeeps DEF Keeps
<1>7. CASE WatchdogStep
  BY <1>7, WatchdogStepAside, WatchdogStepKeeps DEF Keeps
<1>8. CASE \E t \in Turns : HoldStops(t)
  BY <1>8, SoundAside DEF HoldStops, record
<1>9. ASSUME NEW p \in Proc, Raise(p) PROVE (Aside /\ saved' = saved) \/ Goes
  BY <1>9, RunRaises, OthersRaise DEF Raise
<1>10. CASE Environment
  BY <1>10, EnvironmentAside, EnvironmentKeeps DEF Keeps
<1> QED
  BY <1>1, <1>2, <1>3, <1>4, <1>5, <1>6, <1>7, <1>8, <1>9, <1>10 DEF Next, LoopStep

LEMMA PromiseNext ==
  ASSUME TypeOK, RecordInv, PromiseInv, [Next]_vars
  PROVE  PromiseInv'
BY EveryStep, AsideKeeps, OwnKeeps DEF Goes

\* Each of these is a step of the promise, or none that can be told from outside.
LEMMA PhaseOf ==
  ASSUME TypeOK
  PROVE  /\ pc["run"] = "done" <=> Phase = "over"
         /\ pc["run"] \in Finishing <=> Phase = "finishing"
         /\ pc["run"] \in Before <=> Phase = "running"
BY DEF Phase, Before, Finishing, TypeOK, ControlOK, Proc, Service, Label

LEMMA PhaseNext ==
  ASSUME TypeOK'
  PROVE  /\ pc'["run"] = "done" <=> Phase' = "over"
         /\ pc'["run"] \in Finishing <=> Phase' = "finishing"
         /\ pc'["run"] \in Before <=> Phase' = "running"
BY DEF Phase, Before, Finishing, TypeOK, ControlOK, Proc, Service, Label

LEMMA PromiseInit ==
  ASSUME Init
  PROVE  PromiseInv /\ Promise!Init
BY DEF Init, PromiseInv, CutOnlyLate, AwaitedOnlyBy, GreetsThenListens, NoTask, Promise!Init, Phase,
       Proc, Service, Speaker

LEMMA PromiseStep ==
  ASSUME TypeOK, TypeOK', RecordInv, PromiseInv, [Next]_vars
  PROVE  [Promise!Next]_<<Phase, saved # {}>>
<1>1. CASE Aside /\ saved' = saved
  BY <1>1 DEF Aside, Phase
<1>2. CASE Goes
  <2>1. ASSUME pc["run"] \in Before, Own(Before \cup Finishing), saved' = saved
        PROVE  UNCHANGED <<Phase, saved # {}>> \/ Promise!Finish
    BY <2>1, PhaseOf, PhaseNext DEF Own, Promise!Finish
  <2>2. ASSUME pc["run"] \in Finishing, Own(Finishing), saved' = saved
        PROVE  UNCHANGED <<Phase, saved # {}>>
    BY <2>2, PhaseOf, PhaseNext DEF Own
  <2>3. ASSUME pc["run"] \in Finishing, Own({"done"}), saved' # {}
        PROVE  Promise!Keep
    BY <2>3, PhaseOf, PhaseNext DEF Own, Promise!Keep
  <2>4. ASSUME pc["run"] # "done", "slow finish" \in Adversity, Own({"done"}), saved' = saved
        PROVE  Promise!CutShort
    BY <2>4, PhaseOf, PhaseNext DEF Own, Promise!CutShort
  <2> QED BY <1>2, <2>1, <2>2, <2>3, <2>4 DEF Goes, Promise!Next
<1> QED BY <1>1, <1>2, EveryStep

\* The session implements its promise to those who await run(): whatever its tasks do, a
\* call finishes once and its record is kept by the step that ends it, unless a transport
\* out of patience cut it short (run() and _finish()).
THEOREM PromiseIsKept == Spec => KeepsPromise
<1>1. Init => PromiseInv /\ Promise!Init
  BY PromiseInit
<1>2. TypeOK /\ RecordInv /\ PromiseInv /\ [Next]_vars => PromiseInv'
  BY PromiseNext
<1>3. TypeOK /\ TypeOK' /\ RecordInv /\ PromiseInv /\ [Next]_vars
        => [Promise!Next]_<<Phase, saved # {}>>
  BY PromiseStep
<1> QED
  BY <1>1, <1>2, <1>3, RecordAlways, PTL DEF Spec, KeepsPromise, Promise!Spec

-----------------------------------------------------------------------------
(* Sequences of tasks. *)
\* x is on the queue r; nothing is on it twice; x is ahead of y.
In(x, r)       == \E i \in 1..Len(r) : r[i] = x

\* No task occurs twice in r.
Once(r)        == \A i, j \in 1..Len(r) : r[i] = r[j] => i = j

\* x waits before y in the sequence r.
Ahead(x, y, r) == \E i, j \in 1..Len(r) : i < j /\ r[i] = x /\ r[j] = y

\* Tasks put on the queue are on it, behind those that are.
LEMMA InConcat ==
  ASSUME NEW r \in Seq(Task), NEW q \in Seq(Task)
  PROVE  /\ r \o q \in Seq(Task)
         /\ \A x : In(x, r \o q) <=> In(x, r) \/ In(x, q)
         /\ Once(r) /\ Once(q) /\ (\A x : ~(In(x, r) /\ In(x, q))) => Once(r \o q)
         /\ \A x, y : Ahead(x, y, r) \/ (In(x, r) /\ In(y, q)) => Ahead(x, y, r \o q)
         /\ r # <<>> => r \o q # <<>> /\ Head(r \o q) = Head(r)
<1> DEFINE s == r \o q
<1>1. s \in Seq(Task) /\ Len(s) = Len(r) + Len(q) /\ Len(r) \in Nat /\ Len(q) \in Nat
  BY ConcatProperties, LenProperties
<1>2. \A i \in 1..Len(s) : s[i] = IF i <= Len(r) THEN r[i] ELSE q[i - Len(r)]
  BY ConcatProperties
<1>3. \A i \in 1..Len(r) : i \in 1..Len(s) /\ s[i] = r[i]
  BY <1>1, <1>2
<1>4. \A i \in 1..Len(q) : i + Len(r) \in 1..Len(s) /\ s[i + Len(r)] = q[i]
  <2> SUFFICES ASSUME NEW i \in 1..Len(q)
               PROVE  i + Len(r) \in 1..Len(s) /\ s[i + Len(r)] = q[i]
    OBVIOUS
  <2>1. i + Len(r) \in 1..Len(s) /\ ~(i + Len(r) <= Len(r)) /\ (i + Len(r)) - Len(r) = i
    BY <1>1
  <2> QED BY <1>2, <2>1
<1>5. \A i \in 1..Len(s) : i \in 1..Len(r) \/ (i - Len(r) \in 1..Len(q) /\ s[i] = q[i - Len(r)])
  BY <1>1, <1>2
<1> HIDE DEF s
<1>6. \A x : In(x, s) <=> In(x, r) \/ In(x, q)
  BY <1>3, <1>4, <1>5 DEF In
<1>7. Once(r) /\ Once(q) /\ (\A x : ~(In(x, r) /\ In(x, q))) => Once(s)
  <2> SUFFICES ASSUME Once(r), Once(q), \A x : ~(In(x, r) /\ In(x, q)),
                      NEW i \in 1..Len(s), NEW j \in 1..Len(s), s[i] = s[j]
               PROVE  i = j
    BY DEF Once
  <2>1. CASE i \in 1..Len(r) /\ j \in 1..Len(r)
    BY <1>3, <2>1 DEF Once
  <2>2. CASE i \in 1..Len(r) /\ j \notin 1..Len(r)
    BY <1>3, <1>5, <2>2 DEF In
  <2>3. CASE i \notin 1..Len(r) /\ j \in 1..Len(r)
    BY <1>3, <1>5, <2>3 DEF In
  <2>4. CASE i \notin 1..Len(r) /\ j \notin 1..Len(r)
    <3>1. i - Len(r) = j - Len(r)
      BY <1>5, <2>4 DEF Once
    <3> QED BY <1>1, <3>1
  <2> QED BY <2>1, <2>2, <2>3, <2>4
<1>8. \A x, y : Ahead(x, y, r) => Ahead(x, y, s)
  BY <1>3 DEF Ahead
<1>9. ASSUME NEW x, NEW y, In(x, r), In(y, q) PROVE Ahead(x, y, s)
  <2>1. PICK i \in 1..Len(r) : r[i] = x
    BY <1>9 DEF In
  <2>2. PICK j \in 1..Len(q) : q[j] = y
    BY <1>9 DEF In
  <2>3. i < j + Len(r)
    BY <1>1
  <2> QED BY <1>3, <1>4, <2>1, <2>2, <2>3 DEF Ahead
<1>10. r # <<>> => s # <<>> /\ Head(s) = Head(r)
  <2> HAVE r # <<>>
  <2>1. 1 \in 1..Len(r) /\ Head(r) = r[1]
    BY HeadTailProperties, EmptySeq, LenProperties
  <2>2. 1 \in 1..Len(s) /\ s[1] = r[1]
    BY <1>3, <2>1
  <2>3. s # <<>>
    BY <2>2, EmptySeq
  <2>4. Head(s) = s[1]
    BY <1>1, <2>3, HeadTailProperties
  <2> QED BY <2>1, <2>2, <2>3, <2>4
<1> QED BY <1>1, <1>6, <1>7, <1>8, <1>9, <1>10 DEF s

\* Sequences of tasks are put together in any order.
LEMMA ConcatTasks ==
  \A r, q, w \in Seq(Task) : q \o w \in Seq(Task) /\ r \o q \o w = r \o (q \o w)
BY ConcatAssociative

\* The task that gives up the loop leaves the queue.
LEMMA InTail ==
  ASSUME NEW r \in Seq(Task), r # <<>>, Once(r)
  PROVE  /\ Tail(r) \in Seq(Task) /\ Once(Tail(r)) /\ In(Head(r), r)
         /\ \A x : In(x, Tail(r)) <=> In(x, r) /\ x # Head(r)
         /\ \A x, y : Ahead(x, y, r) /\ x # Head(r) => Ahead(x, y, Tail(r))
<1> DEFINE s == Tail(r)
<1>1. s \in Seq(Task) /\ Len(s) = Len(r) - 1 /\ Len(r) \in Nat /\ Len(r) >= 1 /\ Head(r) = r[1]
  BY HeadTailProperties, EmptySeq, LenProperties
<1>2. \A i \in 1..Len(s) : i + 1 \in 1..Len(r) /\ s[i] = r[i + 1]
  BY <1>1, HeadTailProperties
<1>3. \A i \in 1..Len(r) : i = 1 \/ (i - 1 \in 1..Len(s) /\ s[i - 1] = r[i])
  <2> SUFFICES ASSUME NEW i \in 1..Len(r), i # 1
               PROVE  i - 1 \in 1..Len(s) /\ s[i - 1] = r[i]
    OBVIOUS
  <2>1. i - 1 \in 1..Len(s) /\ (i - 1) + 1 = i
    BY <1>1
  <2> QED BY <1>2, <2>1
<1>4. 1 \in 1..Len(r)
  BY <1>1
<1> HIDE DEF s
<1>5. In(Head(r), r)
  BY <1>1, <1>4 DEF In
<1>6. Once(s)
  <2> SUFFICES ASSUME NEW i \in 1..Len(s), NEW j \in 1..Len(s), s[i] = s[j]
               PROVE  i = j
    BY DEF Once
  <2>1. i + 1 = j + 1
    BY <1>2 DEF Once
  <2> QED BY <1>1, <2>1
<1>7. ASSUME NEW x PROVE In(x, s) <=> In(x, r) /\ x # Head(r)
  <2>1. ASSUME NEW i \in 1..Len(s), s[i] = x PROVE In(x, r) /\ x # Head(r)
    <3>1. i + 1 \in 1..Len(r) /\ r[i + 1] = x /\ i + 1 # 1
      BY <1>1, <1>2, <2>1
    <3> QED BY <1>1, <1>4, <3>1 DEF In, Once
  <2>2. ASSUME NEW i \in 1..Len(r), r[i] = x, x # Head(r) PROVE In(x, s)
    BY <1>1, <1>3, <2>2 DEF In
  <2> QED BY <2>1, <2>2 DEF In
<1>8. ASSUME NEW x, NEW y, Ahead(x, y, r), x # Head(r) PROVE Ahead(x, y, s)
  <2>1. PICK i \in 1..Len(r), j \in 1..Len(r) : i < j /\ r[i] = x /\ r[j] = y
    BY <1>8 DEF Ahead
  <2>2. i # 1 /\ j # 1 /\ i - 1 < j - 1
    BY <1>1, <1>8, <2>1
  <2> QED BY <1>3, <2>1, <2>2 DEF Ahead
<1> QED BY <1>1, <1>5, <1>6, <1>7, <1>8 DEF s

\* Those who are woken together are each on the queue once, in whatever order.
LEMMA OrdersFacts ==
  ASSUME NEW S \in SUBSET Proc, NEW w \in Orders(S)
  PROVE  /\ w \in Seq(Task) /\ Once(w)
         /\ \A x : In(x, w) <=> \E p \in S : x = ProcTask(p)
<1> DEFINE T == {ProcTask(p) : p \in S}
           n == Cardinality(S)
<1>1. IsFiniteSet(S) /\ n \in Nat
  BY ProcFinite, FS_Subset, FS_CardinalityType
<1>2. w \in Seq(Task)
  BY OrdersType
<1>3. w \in [1..n -> T] /\ \A i, j \in 1..n : w[i] = w[j] => i = j
  BY DEF Orders
<1>4. Len(w) = n
  BY <1>1, <1>3, <1>2, LenProperties
<1>5. Once(w)
  BY <1>3, <1>4 DEF Once
<1>6. IsFiniteSet(T) /\ Cardinality(T) = n
  <2> DEFINE f == [p \in S |-> ProcTask(p)]
  <2>1. f \in Bijection(S, T)
    BY DEF Bijection, Injection, Surjection, IsInjective, ProcTask
  <2>2. ExistsBijection(S, T)
    BY <2>1 DEF ExistsBijection
  <2> QED BY <1>1, <2>2, FS_Bijection
<1>7. w \in Injection(1..n, T)
  BY <1>3 DEF Injection, IsInjective
<1>8. Cardinality(1..n) = n
  BY <1>1, FS_Interval
<1>9. w \in Surjection(1..n, T)
  BY <1>6, <1>7, <1>8, FS_Injection
<1>10. \A x \in T : \E i \in 1..n : w[i] = x
  BY <1>9 DEF Surjection
<1>11. \A x : In(x, w) <=> \E p \in S : x = ProcTask(p)
  BY <1>3, <1>4, <1>10 DEF In
<1> QED BY <1>2, <1>5, <1>11

-----------------------------------------------------------------------------
(* The event loop: its queue. *)
\* Labels behind an await of a tone, of a playback; those a task only passes through,
\* which it does in one step of the loop; and those at which it is runnable or awaits.
OnHold   == {"play", "enter", "unheard", "stop playback"}

\* Where a task may await a cut playback.
OnPlay   == {"barge in", "sentinel", "stop turn"}

\* Segments that are always reached without suspending.
Passing  == {"announced", "greeted", "final", "line", "answered", "spoken", "act", "listen",
             "closing", "hung up"}

\* A task in front of one of these is on the queue, unless it awaits another task.
Runnable == OnHold \cup OnPlay \cup {"join consumer", "stop hold", "settle", "start", "loop",
                                     "again", "hangup"}

\* A playback task that is on the queue.
Pending  == {"new", "stopping", "stillborn"}

\* x is on the queue.
Here(x)    == In(x, ready)

\* x is the task that runs.
Leads(x)   == ready # <<>> /\ Head(ready) = x

\* The places a running task passes without giving up the loop.
PassesBy(p, l) ==
  \/ l \in Passing
  \/ p \in {"run", "watchdog"} /\ l = "enter"
  \/ p \in Turns \cup {"watchdog"} /\ l = "hangup"

\* A task that can still be awaited, and who may await what, where.
Alive(x) ==
  \/ \E s \in Speaker : x = PlayTask(s) /\ play[s] \in {"stopping", "stillborn"}
  \/ \E t \in Turns : x = HoldTask(t) /\ hold[t] = "stopping"
  \/ \E p \in Proc : x = ProcTask(p) /\ Live(p)

\* Whom a task may await, and where.
MayAwait(p, l, x) ==
  \/ l \in OnPlay /\ \E s \in Speaker : x = PlayTask(s)
  \/ l \in OnHold /\ \E t \in Turns : x = HoldTask(t)
  \/ p = "run" /\ l = "join consumer" /\ x = ProcTask("watchdog")
  \/ p = "run" /\ l = "stop hold" /\ x = ProcTask("consumer")
  \/ p = "run" /\ l = "settle" /\ \E t \in Turns : x = ProcTask(t)
  \/ p = "reader" /\ l \in {"bounded", "expired"} /\ x = ProcTask("run")

\* A task is on the queue, or awaits one that lives, or is where something else wakes it.
InPlace(p) ==
  /\ Here(ProcTask(p)) => Live(p) /\ joining[p] = NoTask
  /\ joining[p] # NoTask => MayAwait(p, pc[p], joining[p]) /\ Alive(joining[p])
  /\ pc[p] \in Runnable => Here(ProcTask(p)) \/ joining[p] # NoTask
  /\ PassesBy(p, pc[p]) => Leads(ProcTask(p)) /\ p \notin cancelled
  /\ p \in cancelled => Here(ProcTask(p))

\* The event loop: a task is queued once, while it is alive and awaits nobody; a task that is
\* awaited is alive; nothing that was woken is left out of the queue.
QueueInv ==
  /\ Once(ready)
  /\ \A p \in Proc : InPlace(p)
  /\ \A s \in Speaker : Here(PlayTask(s)) <=> play[s] \in Pending
  /\ \A t \in Turns : Here(HoldTask(t)) <=> hold[t] = "stopping"
  /\ pc["consumer"] = "get" /\ inbox # <<>> => Here(ProcTask("consumer"))

\* What is awaited is no task's own name for something else.
LEMMA Names ==
  /\ \A p, s : ProcTask(p) # PlayTask(s) /\ ProcTask(p) # HoldTask(s) /\ PlayTask(p) # HoldTask(s)
  /\ \A p, q : /\ ProcTask(p) = ProcTask(q) <=> p = q
               /\ PlayTask(p) = PlayTask(q) <=> p = q
               /\ HoldTask(p) = HoldTask(q) <=> p = q
  /\ \A p : NoTask # ProcTask(p) /\ NoTask # PlayTask(p) /\ NoTask # HoldTask(p)
BY DEF ProcTask, PlayTask, HoldTask, NoTask

\* The running task goes on.
LEMMA QueueContinue ==
  ASSUME TypeOK, QueueInv, NEW p \in Proc, NEW l, l \notin {"idle", "done"},
         Leads(ProcTask(p)), Continue(p, l), UNCHANGED <<play, hold>>,
         inbox' = inbox \/ p = "consumer"
  PROVE  QueueInv'
<1>1. /\ pc'[p] = l /\ \A w \in Proc \ {p} : pc'[w] = pc[w]
      /\ joining'[p] = NoTask /\ \A w \in Proc \ {p} : joining'[w] = joining[w]
      /\ ready' = ready /\ cancelled' = cancelled \ {p}
  BY DEF Continue, TypeOK, ControlOK
<1>2. Here(ProcTask(p)) /\ Live(p)
  <2>1. Here(ProcTask(p))
    BY InTail DEF Leads, Here, QueueInv, TypeOK, ControlOK
  <2> QED BY <2>1 DEF QueueInv, InPlace
<1>3. \A x : (Here(x))' <=> Here(x)
  BY <1>1 DEF Here
<1>4. \A w \in Proc : Live(w) => (Live(w))'
  BY <1>1 DEF Live
<1>5. \A x : Alive(x) => (Alive(x))'
  BY <1>4 DEF Alive
<1>6. ASSUME NEW w \in Proc PROVE (InPlace(w))'
  <2>1. CASE w = p
    BY <1>1, <1>2, <1>3, <1>4, <2>1 DEF InPlace, Leads, Live
  <2>2. CASE w # p
    BY <1>1, <1>3, <1>4, <1>5, <2>2 DEF QueueInv, InPlace, Leads
  <2> QED BY <2>1, <2>2
<1>7. Once(ready)'
  BY <1>1 DEF QueueInv
<1>8. (pc["consumer"] = "get" /\ inbox # <<>> => Here(ProcTask("consumer")))'
  BY <1>1, <1>2, <1>3 DEF QueueInv, Proc, Service
<1> QED
  BY <1>3, <1>6, <1>7, <1>8 DEF QueueInv

\* What a step does to the sounds: those cancelled in mid-air are put on the queue q.
SoundsCut(q) ==
  /\ \A s \in Speaker :
       \/ play'[s] = play[s] /\ ~In(PlayTask(s), q)
       \/ play[s] = "playing" /\ play'[s] = "stopping" /\ In(PlayTask(s), q)
       \/ play[s] \in Pending /\ play'[s] \in {"stopping", "stillborn"} /\ ~In(PlayTask(s), q)
  /\ \A t \in Turns :
       \/ hold'[t] = hold[t] /\ ~In(HoldTask(t), q)
       \/ hold[t] = "on" /\ hold'[t] = "stopping" /\ In(HoldTask(t), q)
       \/ hold[t] = "over" /\ hold'[t] = "on" /\ ~In(HoldTask(t), q)

\* Tasks that may be put on the queue: not on it, alive, and awaiting nobody.
Fresh(q) ==
  /\ q \in Seq(Task) /\ Once(q)
  /\ \A x : In(x, q) => ~Here(x)

\* The running task awaits something, or suspends until something wakes it; on its way
\* it may cancel tasks C, and put tasks q on the queue.
LEMMA QueueSuspend ==
  ASSUME TypeOK, QueueInv, NEW p \in Proc, NEW l, NEW x, NEW q, NEW C \in SUBSET (Proc \ {p}),
         Leads(ProcTask(p)), Fresh(q), SoundsCut(q),
         l \notin {"idle", "done"}, ~PassesBy(p, l),
         pc' = [pc EXCEPT ![p] = l], joining' = [joining EXCEPT ![p] = x],
         cancelled' = (cancelled \cup C) \ {p}, ready' = Tail(ready) \o q,
         x = NoTask => l \notin Runnable /\ (l = "get" => inbox = <<>>),
         x # NoTask => MayAwait(p, l, x) /\ (Alive(x))',
         \A w \in C : Live(w) /\ joining[w] = NoTask /\ (Here(ProcTask(w)) \/ In(ProcTask(w), q)),
         \A w \in Proc : In(ProcTask(w), q) => w \in C,
         inbox' = inbox \/ (p = "consumer" /\ l # "get")
  PROVE  QueueInv'
<1>1. /\ pc'[p] = l /\ \A w \in Proc \ {p} : pc'[w] = pc[w]
      /\ joining'[p] = x /\ \A w \in Proc \ {p} : joining'[w] = joining[w]
  BY DEF TypeOK, ControlOK
<1>2. Tail(ready) \in Seq(Task) /\ Once(Tail(ready)) /\ Here(ProcTask(p))
      /\ \A y : In(y, Tail(ready)) <=> Here(y) /\ y # ProcTask(p)
  BY InTail DEF Leads, Here, QueueInv, TypeOK, ControlOK
<1>3. /\ Once(ready')
      /\ \A y : In(y, ready') <=> (Here(y) /\ y # ProcTask(p)) \/ In(y, q)
  BY <1>2, InConcat DEF Fresh
<1>4. \A y : (Here(y))' <=> (Here(y) /\ y # ProcTask(p)) \/ In(y, q)
  BY <1>3 DEF Here
<1>5. \A w \in Proc : Live(w) => (Live(w))'
  BY <1>1 DEF Live
<1>6. \A y : Alive(y) => (Alive(y))'
  <2> SUFFICES ASSUME NEW y, Alive(y) PROVE (Alive(y))'
    OBVIOUS
  <2>1. \A s \in Speaker : play[s] \in {"stopping", "stillborn"} => play'[s] \in {"stopping", "stillborn"}
    BY DEF SoundsCut
  <2>2. \A t \in Turns : hold[t] = "stopping" => hold'[t] = "stopping"
    BY DEF SoundsCut
  <2> QED BY <1>5, <2>1, <2>2 DEF Alive
<1>7. ASSUME NEW w \in Proc PROVE (InPlace(w))'
  <2>1. CASE w = p
    <3>1. ~(Here(ProcTask(p)))'
      BY <1>2, <1>4 DEF Fresh
    <3> QED BY <1>1, <2>1, <3>1 DEF InPlace
  <2>2. CASE w # p
    <3>1. InPlace(w) /\ pc'[w] = pc[w] /\ joining'[w] = joining[w]
      BY <1>1, <2>2 DEF QueueInv
    <3>2. (Here(ProcTask(w)))' <=> Here(ProcTask(w)) \/ In(ProcTask(w), q)
      BY <1>4, <2>2, Names
    <3>3. ~PassesBy(w, pc[w])
      BY <2>2, <3>1, Names DEF InPlace, Leads
    <3>4. w \in C => (Here(ProcTask(w)))' /\ Live(w) /\ joining[w] = NoTask
      BY <3>2
    <3>5. In(ProcTask(w), q) => Live(w) /\ joining[w] = NoTask
      BY <3>4
    <3>6. w \in cancelled' => w \in cancelled \/ w \in C
      OBVIOUS
    <3>7. (Live(w))' <=> Live(w)
      BY <3>1 DEF Live
    <3> HIDE DEF PassesBy, MayAwait, Alive, Here, Live
    <3> QED BY <1>6, <3>1, <3>2, <3>3, <3>4, <3>5, <3>6, <3>7 DEF InPlace
  <2> QED BY <2>1, <2>2
<1>8. \A s \in Speaker : (Here(PlayTask(s)))' <=> play'[s] \in Pending
  <2> SUFFICES ASSUME NEW s \in Speaker PROVE (Here(PlayTask(s)))' <=> play'[s] \in Pending
    OBVIOUS
  <2>1. (Here(PlayTask(s)))' <=> Here(PlayTask(s)) \/ In(PlayTask(s), q)
    BY <1>4, Names
  <2> QED BY <2>1 DEF SoundsCut, QueueInv, Pending
<1>9. \A t \in Turns : (Here(HoldTask(t)))' <=> hold'[t] = "stopping"
  <2> SUFFICES ASSUME NEW t \in Turns PROVE (Here(HoldTask(t)))' <=> hold'[t] = "stopping"
    OBVIOUS
  <2>1. (Here(HoldTask(t)))' <=> Here(HoldTask(t)) \/ In(HoldTask(t), q)
    BY <1>4, Names
  <2> QED BY <2>1 DEF SoundsCut, QueueInv
<1>10. pc'["consumer"] = "get" /\ inbox' # <<>> => (Here(ProcTask("consumer")))'
  <2>1. CASE p = "consumer"
    <3>1. l = "get" => x = NoTask
      BY <2>1 DEF MayAwait, OnPlay, OnHold
    <3> QED BY <1>1, <2>1, <3>1
  <2>2. CASE p # "consumer"
    BY <1>1, <1>4, <2>2, Names DEF QueueInv, Proc, Service
  <2> QED BY <2>1, <2>2
<1> QED
  BY <1>3, <1>7, <1>8, <1>9, <1>10 DEF QueueInv

\* The running task x is over, and leaves awake whoever awaited it.
LEMMA QueueOver ==
  ASSUME TypeOK, QueueInv, NEW x, NEW q, Leads(x), TaskOver(x, q), Fresh(q),
         \A y : In(y, q) => \E w \in Proc : y = ProcTask(w) /\ Live(w) /\ joining[w] = NoTask,
         \A w \in Proc : pc'[w] = IF x = ProcTask(w) THEN "done" ELSE pc[w],
         \A w \in Proc : w \in cancelled' <=> w \in cancelled /\ x # ProcTask(w),
         \A s \in Speaker : play'[s] = IF x = PlayTask(s) THEN "over" ELSE play[s],
         \A t \in Turns : hold'[t] = IF x = HoldTask(t) THEN "over" ELSE hold[t],
         inbox' = inbox \/ x = ProcTask("consumer")
  PROVE  QueueInv'
<1>1. PICK woken \in Orders(Joiners(x)) : ready' = Tail(ready) \o q \o woken
  BY DEF TaskOver
<1>2. /\ woken \in Seq(Task) /\ Once(woken)
      /\ \A y : In(y, woken) <=> \E w \in Proc : y = ProcTask(w) /\ joining[w] = x
  <2>1. Joiners(x) \in SUBSET Proc
    BY DEF Joiners
  <2> QED BY <1>1, <2>1, OrdersFacts DEF Joiners
<1>3. \A w \in Proc : joining'[w] = IF joining[w] = x THEN NoTask ELSE joining[w]
  BY DEF TaskOver
<1>4. Tail(ready) \in Seq(Task) /\ Once(Tail(ready)) /\ Here(x)
      /\ \A y : In(y, Tail(ready)) <=> Here(y) /\ y # x
  BY InTail DEF Leads, Here, QueueInv, TypeOK, ControlOK
<1>5. x # NoTask
  <2>1. x \in Task
    BY HeadTailProperties DEF Leads, TypeOK, ControlOK
  <2> QED BY <2>1, Names DEF Task
<1>6. \A w \in Proc : joining[w] = x => ~Here(ProcTask(w)) /\ Live(w) /\ x # ProcTask(w)
  <2> SUFFICES ASSUME NEW w \in Proc, joining[w] = x
               PROVE  ~Here(ProcTask(w)) /\ Live(w) /\ x # ProcTask(w)
    OBVIOUS
  <2>1. ~Here(ProcTask(w))
    BY <1>5 DEF QueueInv, InPlace
  <2>2. MayAwait(w, pc[w], x)
    BY <1>5 DEF QueueInv, InPlace
  <2>3. Live(w)
    BY <2>2 DEF MayAwait, OnPlay, OnHold, Live
  <2> QED BY <1>4, <2>1, <2>3
<1>7. /\ Tail(ready) \o q \in Seq(Task) /\ Once(Tail(ready) \o q)
      /\ \A y : In(y, Tail(ready) \o q) <=> (Here(y) /\ y # x) \/ In(y, q)
  BY <1>4, InConcat DEF Fresh
<1>8. /\ Once(ready')
      /\ \A y : In(y, ready') <=> (Here(y) /\ y # x) \/ In(y, q) \/ In(y, woken)
  <2>1. \A y : ~(In(y, Tail(ready) \o q) /\ In(y, woken))
    <3> SUFFICES ASSUME NEW y, In(y, woken) PROVE ~In(y, Tail(ready) \o q)
      OBVIOUS
    <3>1. PICK w \in Proc : y = ProcTask(w) /\ joining[w] = x
      BY <1>2
    <3>2. ~In(y, q)
      BY <1>5, <3>1, Names
    <3> QED BY <1>6, <1>7, <3>1, <3>2
  <2> QED BY <1>1, <1>2, <1>7, <2>1, InConcat
<1>9. \A y : (Here(y))' <=> (Here(y) /\ y # x) \/ In(y, q) \/ In(y, woken)
  BY <1>8 DEF Here
<1>10. \A w \in Proc : Live(w) /\ x # ProcTask(w) => (Live(w))'
  BY DEF Live
<1>11. \A y : Alive(y) /\ y # x => (Alive(y))'
  BY <1>10, Names DEF Alive
<1>12. \A w \in Proc : (Here(ProcTask(w)))' <=>
         (Here(ProcTask(w)) /\ x # ProcTask(w)) \/ In(ProcTask(w), q) \/ joining[w] = x
  BY <1>2, <1>9, Names
<1>13. ASSUME NEW w \in Proc PROVE (InPlace(w))'
  <2>1. CASE x = ProcTask(w)
    <3>1. ~(Here(ProcTask(w)))' /\ w \notin cancelled' /\ pc'[w] = "done"
      BY <1>4, <1>6, <1>12, <2>1 DEF Fresh
    <3>2. joining'[w] = NoTask
      BY <1>3, <1>4, <2>1 DEF QueueInv, InPlace
    <3> QED BY <3>1, <3>2 DEF InPlace, PassesBy, Runnable, OnHold, OnPlay, Passing
  <2>2. CASE x # ProcTask(w)
    <3>1. InPlace(w) /\ pc'[w] = pc[w] /\ (w \in cancelled' <=> w \in cancelled)
      BY <2>2 DEF QueueInv
    <3>2. ~PassesBy(w, pc[w])
      BY <2>2, <3>1, Names DEF InPlace, Leads
    <3>3. (Live(w))' <=> Live(w)
      BY <3>1 DEF Live
    <3>4. In(ProcTask(w), q) => Live(w) /\ joining[w] = NoTask
      BY Names
    <3>5. CASE joining[w] = x
      <4>1. joining'[w] = NoTask /\ (Here(ProcTask(w)))' /\ Live(w)
        BY <1>3, <1>6, <1>12, <3>5
      <4> HIDE DEF PassesBy, MayAwait, Alive, Here, Live
      <4> QED BY <3>1, <3>2, <3>3, <4>1 DEF InPlace
    <3>6. CASE joining[w] # x
      <4>1. joining'[w] = joining[w]
        BY <1>3, <3>6
      <4>2. (Here(ProcTask(w)))' <=> Here(ProcTask(w)) \/ In(ProcTask(w), q)
        BY <1>12, <2>2, <3>6
      <4> HIDE DEF PassesBy, MayAwait, Alive, Here, Live
      <4> QED BY <1>11, <3>1, <3>2, <3>3, <3>4, <3>6, <4>1, <4>2 DEF InPlace
    <3> QED BY <3>5, <3>6
  <2> QED BY <2>1, <2>2
<1>14. \A y : In(y, q) \/ In(y, woken) => \E w \in Proc : y = ProcTask(w)
  BY <1>2
<1>15. \A s \in Speaker : (Here(PlayTask(s)))' <=> play'[s] \in Pending
  BY <1>9, <1>14, Names DEF QueueInv, Pending
<1>16. \A t \in Turns : (Here(HoldTask(t)))' <=> hold'[t] = "stopping"
  BY <1>9, <1>14, Names DEF QueueInv
<1>17. pc'["consumer"] = "get" /\ inbox' # <<>> => (Here(ProcTask("consumer")))'
  <2>1. "consumer" \in Proc
    BY DEF Proc, Service
  <2> QED BY <1>12, <2>1 DEF QueueInv
<1> QED
  BY <1>8, <1>13, <1>15, <1>16, <1>17 DEF QueueInv

\* Tasks q are put on the queue behind those that are there; the tasks A, all of them on
\* it, move within one step, and the tasks C are cancelled.
LEMMA QueueGrows ==
  ASSUME TypeOK, QueueInv, NEW q, NEW A \in SUBSET Proc, NEW C \in SUBSET Proc,
         Fresh(q), ready' = ready \o q,
         \A w \in Proc \ A :
           /\ joining'[w] = joining[w]
           /\ pc'[w] = pc[w] \/ (w = "reader" /\ pc[w] = "bounded" /\ pc'[w] = "expired"),
         \A w \in A :
           /\ joining'[w] = NoTask /\ pc'[w] \notin {"idle", "done"}
           /\ Here(ProcTask(w)) \/ In(ProcTask(w), q)
           /\ PassesBy(w, pc'[w]) => Leads(ProcTask(w)) /\ w \notin cancelled',
         \A w \in C :
           /\ Here(ProcTask(w)) \/ In(ProcTask(w), q)
           /\ ~PassesBy(w, pc[w]) \/ w \in A,
         cancelled' \subseteq cancelled \cup C,
         \A w \in Proc : In(ProcTask(w), q) => w \in A \/ (Live(w) /\ joining[w] = NoTask),
         \A s \in Speaker :
           \/ play'[s] = play[s] /\ ~In(PlayTask(s), q)
           \/ play[s] = "playing" /\ play'[s] = "over" /\ ~In(PlayTask(s), q)
           \/ play[s] \notin Pending /\ play'[s] = "new" /\ In(PlayTask(s), q),
         \A t \in Turns : ~In(HoldTask(t), q), hold' = hold,
         pc'["consumer"] = "get" => inbox' = inbox \/ Here(ProcTask("consumer"))
                                                   \/ In(ProcTask("consumer"), q)
  PROVE  QueueInv'
<1>1. /\ Once(ready') /\ ready' \in Seq(Task)
      /\ \A y : In(y, ready') <=> Here(y) \/ In(y, q)
      /\ ready # <<>> => ready' # <<>> /\ Head(ready') = Head(ready)
  BY InConcat DEF Fresh, QueueInv, TypeOK, ControlOK, Here
<1>2. \A y : (Here(y))' <=> Here(y) \/ In(y, q)
  BY <1>1 DEF Here
<1>3. \A w \in Proc : Live(w) => (Live(w))'
  BY DEF Live
<1>4. \A y : Alive(y) => (Alive(y))'
  BY <1>3, Names DEF Alive, Pending
<1>5. \A y : Leads(y) => (Leads(y))'
  BY <1>1 DEF Leads
<1>6. ASSUME NEW w \in Proc PROVE (InPlace(w))'
  <2>1. InPlace(w)
    BY DEF QueueInv
  <2>2. CASE w \in A
    <3>1. (Here(ProcTask(w)))' /\ joining'[w] = NoTask /\ (Live(w))'
      BY <1>2, <2>2 DEF Live
    <3>2. PassesBy(w, pc'[w]) => (Leads(ProcTask(w)))' /\ w \notin cancelled'
      BY <1>5, <2>2
    <3> HIDE DEF PassesBy, MayAwait, Alive, Here, Live, Leads
    <3> QED BY <3>1, <3>2 DEF InPlace
  <2>3. CASE w \notin A /\ pc'[w] = pc[w]
    <3>1. joining'[w] = joining[w] /\ ((Live(w))' <=> Live(w))
      BY <2>3 DEF Live
    <3>2. (Here(ProcTask(w)))' <=> Here(ProcTask(w)) \/ In(ProcTask(w), q)
      BY <1>2
    <3>3. In(ProcTask(w), q) => Live(w) /\ joining[w] = NoTask
      BY <2>3
    <3>4. w \in cancelled' => (Here(ProcTask(w)))' /\ (w \in cancelled \/ ~PassesBy(w, pc[w]))
      BY <2>1, <2>3, <3>2 DEF InPlace
    <3> HIDE DEF PassesBy, MayAwait, Alive, Here, Live, Leads
    <3> QED BY <1>4, <1>5, <2>1, <2>3, <3>1, <3>2, <3>3, <3>4 DEF InPlace
  <2>4. CASE w = "reader" /\ w \notin A /\ pc[w] = "bounded" /\ pc'[w] = "expired"
    <3>1. joining'[w] = joining[w] /\ Live(w) /\ (Live(w))'
      BY <2>4 DEF Live
    <3>2. (Here(ProcTask(w)))' <=> Here(ProcTask(w)) \/ In(ProcTask(w), q)
      BY <1>2
    <3>3. In(ProcTask(w), q) => joining[w] = NoTask
      BY <2>4
    <3>4. w \in cancelled' => (Here(ProcTask(w)))'
      BY <2>1, <3>2 DEF InPlace
    <3>5. MayAwait(w, pc[w], joining[w]) => MayAwait(w, pc'[w], joining[w])
      BY <2>4 DEF MayAwait, OnPlay, OnHold
    <3>6. ~PassesBy(w, pc'[w]) /\ pc'[w] \notin Runnable
      BY <2>4 DEF PassesBy, Passing, Runnable, OnHold, OnPlay
    <3> HIDE DEF PassesBy, MayAwait, Alive, Here, Live, Leads
    <3> QED BY <1>4, <2>1, <3>1, <3>2, <3>3, <3>4, <3>5, <3>6 DEF InPlace
  <2> QED BY <2>2, <2>3, <2>4
<1>7. \A s \in Speaker : (Here(PlayTask(s)))' <=> play'[s] \in Pending
  BY <1>2 DEF QueueInv, Pending
<1>8. \A t \in Turns : (Here(HoldTask(t)))' <=> hold'[t] = "stopping"
  BY <1>2 DEF QueueInv
<1>9. pc'["consumer"] = "get" /\ inbox' # <<>> => (Here(ProcTask("consumer")))'
  <2>1. "consumer" \in Proc
    BY DEF Proc, Service
  <2>2. CASE "consumer" \in A
    BY <1>2, <2>1, <2>2
  <2>3. CASE "consumer" \notin A
    BY <1>2, <2>1, <2>3 DEF QueueInv
  <2> QED BY <2>2, <2>3
<1> QED
  BY <1>1, <1>6, <1>7, <1>8, <1>9 DEF QueueInv

\* Nothing, or one task that is not queued yet, may be put on the queue.
LEMMA FreshNone == Fresh(<<>>) /\ \A x : ~In(x, <<>>)
BY DEF Fresh, Once, In

\* One task that is not queued yet may be put on the queue.
LEMMA FreshOne ==
  ASSUME NEW x \in Task, ~Here(x)
  PROVE  Fresh(<<x>>) /\ \A y : In(y, <<x>>) <=> y = x
<1>1. <<x>> \in Seq(Task) /\ Len(<<x>>) = 1 /\ <<x>>[1] = x
  OBVIOUS
<1> DEFINE q == <<x>>
<1> HIDE DEF q
<1>2. q \in Seq(Task) /\ Len(q) = 1 /\ q[1] = x
  BY <1>1 DEF q
<1>3. Fresh(q) /\ \A y : In(y, q) <=> y = x
  BY <1>2 DEF Fresh, Once, In
<1> QED BY <1>3 DEF q

\* A task that runs leads the queue.
LEMMA RunsLeads ==
  ASSUME NEW p, NEW l, Runs(p, l)
  PROVE  Leads(ProcTask(p)) /\ pc[p] = l /\ (p \in cancelled => l \in Suppressing)
BY DEF Runs, Leads

\* A plain await: nothing is put on the queue.
LEMMA QueueAwaits ==
  ASSUME TypeOK, QueueInv, NEW p \in Proc, NEW l, Leads(ProcTask(p)),
         Suspend(p, l, NoTask, <<>>), ~PassesBy(p, l), l \notin {"idle", "done"} \cup Runnable,
         l = "get" => inbox = <<>>,
         \A s \in Speaker : play'[s] = play[s],
         \A t \in Turns : hold'[t] = hold[t] \/ (hold[t] = "over" /\ hold'[t] = "on"),
         inbox' = inbox
  PROVE  QueueInv'
<1> DEFINE none == {}
<1>1. none \in SUBSET (Proc \ {p}) /\ \A w : w \notin none
  OBVIOUS
<1>2. SoundsCut(<<>>)
  BY FreshNone DEF SoundsCut
<1>3. /\ pc' = [pc EXCEPT ![p] = l] /\ joining' = [joining EXCEPT ![p] = NoTask]
      /\ cancelled' = (cancelled \cup none) \ {p} /\ ready' = Tail(ready) \o <<>>
  BY DEF Suspend
<1>4. /\ \A w \in none : Live(w) /\ joining[w] = NoTask /\ (Here(ProcTask(w)) \/ In(ProcTask(w), <<>>))
      /\ \A w \in Proc : In(ProcTask(w), <<>>) => w \in none
  BY FreshNone
<1> HIDE DEF none
<1> QED
  BY <1>1, <1>2, <1>3, <1>4, FreshNone, QueueSuspend, Zenon

\* _stop_hold leaves the queue in order,
LEMMA QueueStopHold ==
  ASSUME TypeOK, QueueInv, NEW p \in Proc, NEW l \in OnHold, ~PassesBy(p, l),
         Leads(ProcTask(p)), StopHold(p, l), play' = play, inbox' = inbox
  PROVE  QueueInv'
<1>1. CASE holdTask # None /\ hold[holdTask] # "over"
  <2> DEFINE q == IF hold[holdTask] = "on" THEN <<HoldTask(holdTask)>> ELSE <<>>
             none == {}
  <2>1. PICK h \in Turns : h = holdTask
    BY <1>1 DEF TypeOK, SoundOK
  <2>2. HoldTask(h) \in Task
    BY <2>1, TaskNames
  <2>3. hold' = [hold EXCEPT ![h] = "stopping"] /\ Suspend(p, l, HoldTask(h), q)
    BY <1>1, <2>1 DEF StopHold
  <2>4. Fresh(q) /\ \A y : In(y, q) <=> y = HoldTask(h) /\ hold[h] = "on"
    <3>1. CASE hold[h] = "on"
      <4>1. ~Here(HoldTask(h))
        BY <2>1, <3>1 DEF QueueInv
      <4> QED BY <2>1, <2>2, <3>1, <4>1, FreshOne
    <3>2. CASE hold[h] # "on"
      BY <2>1, <3>2, FreshNone
    <3> QED BY <3>1, <3>2
  <2>5. SoundsCut(q)
    <3>1. \A s \in Speaker : ~In(PlayTask(s), q)
      BY <2>4, Names
    <3>2. hold[h] \in {"on", "stopping"}
      BY <1>1, <2>1 DEF TypeOK, SoundOK
    <3>3. \A t \in Turns : hold'[t] = IF t = h THEN "stopping" ELSE hold[t]
      BY <2>1, <2>3 DEF TypeOK, SoundOK
    <3>4. \A t \in Turns : In(HoldTask(t), q) <=> t = h /\ hold[h] = "on"
      BY <2>4, Names
    <3> HIDE DEF q
    <3> QED BY <3>1, <3>2, <3>3, <3>4 DEF SoundsCut
  <2>6. none \in SUBSET (Proc \ {p}) /\ \A w : w \notin none
    OBVIOUS
  <2>7. /\ pc' = [pc EXCEPT ![p] = l] /\ joining' = [joining EXCEPT ![p] = HoldTask(h)]
        /\ cancelled' = (cancelled \cup none) \ {p} /\ ready' = Tail(ready) \o q
    BY <2>3 DEF Suspend
  <2>8. MayAwait(p, l, HoldTask(h)) /\ (Alive(HoldTask(h)))' /\ HoldTask(h) # NoTask
    <3>1. hold'[h] = "stopping"
      BY <2>3 DEF TypeOK, SoundOK
    <3> QED BY <2>1, <3>1, Names DEF MayAwait, Alive
  <2>9. /\ \A w \in none : Live(w) /\ joining[w] = NoTask /\ (Here(ProcTask(w)) \/ In(ProcTask(w), q))
        /\ \A w \in Proc : In(ProcTask(w), q) => w \in none
    BY <2>4, Names
  <2>10. l \notin {"idle", "done"}
    BY DEF OnHold
  <2> HIDE DEF q, none
  <2> QED BY <2>4, <2>5, <2>6, <2>7, <2>8, <2>9, <2>10, QueueSuspend, Zenon
<1>2. CASE ~(holdTask # None /\ hold[holdTask] # "over")
  <2>1. hold' = hold /\ Continue(p, l)
    BY <1>2 DEF StopHold
  <2> QED BY <2>1, QueueContinue DEF OnHold
<1> QED BY <1>1, <1>2

\* ... and so does _cancel_playback.
LEMMA QueueCancelPlayback ==
  ASSUME TypeOK, QueueInv, NEW p \in Proc, NEW l \in OnPlay, Leads(ProcTask(p)),
         CancelPlayback(p, l), hold' = hold, inbox' = inbox \/ p = "consumer"
  PROVE  QueueInv'
<1>1. CASE speaking # None /\ play[speaking] # "over"
  <2> DEFINE q == IF play[speaking] = "playing" THEN <<PlayTask(speaking)>> ELSE <<>>
             none == {}
  <2>1. PICK h \in Speaker : h = speaking
    BY <1>1 DEF TypeOK, SoundOK
  <2>2. PlayTask(h) \in Task
    BY <2>1, TaskNames
  <2>3. /\ play' = [play EXCEPT ![h] = IF @ \in {"new", "stillborn"} THEN "stillborn" ELSE "stopping"]
        /\ Suspend(p, l, PlayTask(h), q)
    BY <1>1, <2>1 DEF CancelPlayback
  <2>4. Fresh(q) /\ \A y : In(y, q) <=> y = PlayTask(h) /\ play[h] = "playing"
    <3>1. CASE play[h] = "playing"
      <4>1. ~Here(PlayTask(h))
        BY <2>1, <3>1 DEF QueueInv, Pending
      <4> QED BY <2>1, <2>2, <3>1, <4>1, FreshOne
    <3>2. CASE play[h] # "playing"
      BY <2>1, <3>2, FreshNone
    <3> QED BY <3>1, <3>2
  <2>5. play[h] \in {"new", "playing", "stopping", "stillborn"}
    BY <1>1, <2>1 DEF TypeOK, SoundOK
  <2>6. SoundsCut(q)
    <3>1. \A t \in Turns : ~In(HoldTask(t), q)
      BY <2>4, Names
    <3>2. \A s \in Speaker : play'[s] =
            IF s = h THEN IF play[h] \in {"new", "stillborn"} THEN "stillborn" ELSE "stopping"
                     ELSE play[s]
      BY <2>1, <2>3 DEF TypeOK, SoundOK
    <3>3. \A s \in Speaker : In(PlayTask(s), q) <=> s = h /\ play[h] = "playing"
      BY <2>4, Names
    <3> HIDE DEF q
    <3> QED BY <2>5, <3>1, <3>2, <3>3 DEF SoundsCut, Pending
  <2>7. none \in SUBSET (Proc \ {p}) /\ \A w : w \notin none
    OBVIOUS
  <2>8. /\ pc' = [pc EXCEPT ![p] = l] /\ joining' = [joining EXCEPT ![p] = PlayTask(h)]
        /\ cancelled' = (cancelled \cup none) \ {p} /\ ready' = Tail(ready) \o q
    BY <2>3 DEF Suspend
  <2>9. MayAwait(p, l, PlayTask(h)) /\ (Alive(PlayTask(h)))' /\ PlayTask(h) # NoTask
    <3>1. play'[h] \in {"stopping", "stillborn"}
      BY <2>3 DEF TypeOK, SoundOK
    <3> QED BY <2>1, <3>1, Names DEF MayAwait, Alive
  <2>10. /\ \A w \in none : Live(w) /\ joining[w] = NoTask /\ (Here(ProcTask(w)) \/ In(ProcTask(w), q))
         /\ \A w \in Proc : In(ProcTask(w), q) => w \in none
    BY <2>4, Names
  <2>11. l \notin {"idle", "done"} /\ ~PassesBy(p, l) /\ l # "get"
    BY DEF OnPlay, PassesBy, Passing
  <2> HIDE DEF q, none
  <2> QED BY <2>4, <2>6, <2>7, <2>8, <2>9, <2>10, <2>11, QueueSuspend, Zenon
<1>2. CASE ~(speaking # None /\ play[speaking] # "over")
  <2>1. play' = play /\ Continue(p, l)
    BY <1>2 DEF CancelPlayback
  <2> QED BY <2>1, QueueContinue DEF OnPlay
<1> QED BY <1>1, <1>2

\* A task that returns wakes those who await it.
LEMMA QueueReturn ==
  ASSUME TypeOK, QueueInv, NEW p \in Proc, NEW q, Leads(ProcTask(p)), Return(p, q), Fresh(q),
         \A y : In(y, q) => \E w \in Proc : y = ProcTask(w) /\ Live(w) /\ joining[w] = NoTask,
         UNCHANGED <<play, hold>>, inbox' = inbox \/ p = "consumer"
  PROVE  QueueInv'
<1> DEFINE x == ProcTask(p)
<1>1. \A w \in Proc : pc'[w] = IF x = ProcTask(w) THEN "done" ELSE pc[w]
  BY Names DEF Return, TypeOK, ControlOK
<1>2. \A w \in Proc : w \in cancelled' <=> w \in cancelled /\ x # ProcTask(w)
  BY Names DEF Return
<1>3. /\ \A s \in Speaker : play'[s] = IF x = PlayTask(s) THEN "over" ELSE play[s]
      /\ \A t \in Turns : hold'[t] = IF x = HoldTask(t) THEN "over" ELSE hold[t]
  BY Names
<1>4. TaskOver(x, q) /\ Leads(x) /\ (inbox' = inbox \/ x = ProcTask("consumer"))
  BY DEF Return
<1> HIDE DEF x
<1> QED BY <1>1, <1>2, <1>3, <1>4, QueueOver

\* The wake-ups of run(), the consumer and a speaker are of tasks that may be woken.
LEMMA WakesFresh ==
  ASSUME TypeOK, QueueInv
  PROVE  /\ Fresh(WakeRun) /\ Fresh(WakeConsumer) /\ \A s \in Speaker : Fresh(WakeSpeaker(s))
         /\ \A y : In(y, WakeRun) <=>
              y = ProcTask("run") /\ pc["run"] = "waiting" /\ ~Here(y)
         /\ \A y : In(y, WakeConsumer) <=>
              y = ProcTask("consumer") /\ pc["consumer"] = "get" /\ ~Here(y)
         /\ \A s \in Speaker : \A y : In(y, WakeSpeaker(s)) <=>
              y = ProcTask(s) /\ pc[s] = "speaking" /\ ~Here(y)
         /\ \A w \in Proc : pc[w] \in {"waiting", "get", "speaking"} => Live(w) /\ joining[w] = NoTask
<1>1. ASSUME NEW w \in Proc, NEW l, NEW q,
             q = IF pc[w] = l /\ ~Queued(ProcTask(w)) THEN <<ProcTask(w)>> ELSE <<>>
      PROVE  Fresh(q) /\ \A y : In(y, q) <=> y = ProcTask(w) /\ pc[w] = l /\ ~Here(y)
  <2>1. Queued(ProcTask(w)) <=> Here(ProcTask(w))
    BY DEF Queued, Here, In
  <2>2. CASE pc[w] = l /\ ~Here(ProcTask(w))
    <3>1. ProcTask(w) \in Task
      BY TaskNames
    <3> QED BY <1>1, <2>1, <2>2, <3>1, FreshOne
  <2>3. CASE ~(pc[w] = l /\ ~Here(ProcTask(w)))
    BY <1>1, <2>1, <2>3, FreshNone
  <2> QED BY <2>2, <2>3
<1>2. {"run", "consumer"} \subseteq Proc /\ Speaker \subseteq Proc
  BY TaskNames DEF Proc, Service
<1>3. Fresh(WakeRun) /\ \A y : In(y, WakeRun) <=>
              y = ProcTask("run") /\ pc["run"] = "waiting" /\ ~Here(y)
  BY <1>1, <1>2 DEF WakeRun
<1>4. Fresh(WakeConsumer) /\ \A y : In(y, WakeConsumer) <=>
              y = ProcTask("consumer") /\ pc["consumer"] = "get" /\ ~Here(y)
  BY <1>1, <1>2 DEF WakeConsumer
<1>5. \A s \in Speaker : Fresh(WakeSpeaker(s)) /\ \A y : In(y, WakeSpeaker(s)) <=>
              y = ProcTask(s) /\ pc[s] = "speaking" /\ ~Here(y)
  BY <1>1, <1>2 DEF WakeSpeaker
<1>6. ASSUME NEW w \in Proc, pc[w] \in {"waiting", "get", "speaking"}
      PROVE  Live(w) /\ joining[w] = NoTask
  <2>1. ~MayAwait(w, pc[w], joining[w])
    BY <1>6 DEF MayAwait, OnPlay, OnHold
  <2> QED BY <1>6, <2>1 DEF QueueInv, InPlace, Live
<1> QED BY <1>3, <1>4, <1>5, <1>6

-----------------------------------------------------------------------------
(* The event loop: the places of the tasks. *)

\* Before run() has connected.
Early    == {"start", "connected"}

\* Where a turn has yet to speak its line.
Unspoken == {"start", "stt", "unheard", "line", "respond", "answered", "enter", "play"}

\* A speaker that waits for its line to end.
Talking(s) == pc[s] \in {"announced", "speaking"}

\* Who can be where.
Roles ==
  /\ pc["run"] \in {"start", "connected", "enter", "play", "announced", "speaking", "greeted",
                    "waiting", "final", "join consumer", "stop hold", "stop playback",
                    "stop turn", "settle", "summarised", "commit", "done"}
  /\ pc["consumer"] \in {"idle", "loop", "get", "barge in", "listen", "done"}
  /\ pc["watchdog"] \in {"idle", "again", "tick", "enter", "play", "announced", "speaking",
                         "closing", "hangup", "sentinel", "hung up", "done"}
  /\ \A t \in Turns : pc[t] \in Unspoken \cup {"idle", "announced", "speaking", "spoken", "act",
                                              "hangup", "sentinel", "hung up", "done"}
  /\ \A h \in Hanger : pc[h] \in {"idle", "hangup", "sentinel", "hung up", "bounded",
                                  "expired", "done"}

\* Where a speaker goes on after its line.
Resumes(s) == CASE s = "run"      -> {"greeted"}
                [] s = "watchdog" -> {"again", "closing"}
                [] OTHER          -> {"spoken", "act"}

\* What a speaker is to do after its line is something its kind of task does.
Plans ==
  \A s \in Speaker :
    pc[s] \in {"line", "answered", "enter", "play", "announced", "speaking"} => then[s] \in Resumes(s)

\* No line is begun over one of the same task that is still to be stopped.
Silent ==
  /\ \A t \in Turns : /\ pc[t] \in Unspoken \cup {"idle"} => play[t] = "over"
                      /\ pc[t] \in {"idle", "start"} => hold[t] = "over"
  /\ pc["run"] \in Early \cup {"enter", "play"} => play["run"] = "over"
  /\ pc["watchdog"] \in {"enter", "play"} => play["watchdog"] \notin Pending
  /\ ~Talking("watchdog") /\ play["watchdog"] \in Pending => idle = 0
  /\ \A s \in Speaker : speaking = s => Talking(s)

\* Until run() has connected there is nobody else.
Alone ==
  pc["run"] \in Early =>
    pc["consumer"] = "idle" /\ pc["watchdog"] = "idle" /\ \A t \in Turns : pc[t] = "idle"

\* Where the tasks may be, one with another.
RoleInv == Roles /\ Plans /\ Silent /\ Alone

\* The invariant of the event loop and of the tasks in it.
LoopInv == QueueInv /\ RoleInv

\* The kinds of task are different, and each is a task.
LEMMA Kinds ==
  /\ {"run", "consumer", "watchdog"} \subseteq Proc /\ Turns \subseteq Proc /\ Hanger \subseteq Proc
  /\ {"run", "watchdog"} \subseteq Speaker /\ Turns \subseteq Speaker /\ Speaker \subseteq Proc
  /\ \A s \in Speaker : s = "run" \/ s = "watchdog" \/ s \in Turns
  /\ \A p \in Proc : p \in {"run", "consumer", "watchdog"} \/ p \in Turns \/ p \in Hanger
  /\ Turns \cap {"run", "consumer", "watchdog", "reader", "operator", "none"} = {}
  /\ Hanger \subseteq {"reader", "operator"} /\ Turns \cap Hanger = {}
  /\ "none" \notin Speaker
BY TurnNames, HangerAssumption DEF Proc, Service, Speaker

\* A task that leads is alive and awaits nobody.
LEMMA LeadsLives ==
  ASSUME TypeOK, QueueInv, NEW p \in Proc, Leads(ProcTask(p))
  PROVE  Live(p) /\ joining[p] = NoTask /\ Here(ProcTask(p))
<1>1. Here(ProcTask(p))
  BY InTail DEF Leads, Here, QueueInv, TypeOK, ControlOK
<1> QED BY <1>1 DEF QueueInv, InPlace

\* One task moves, and nothing is said: roles are kept if it goes where it may.
LEMMA RolesMove ==
  ASSUME TypeOK, RoleInv, NEW p \in Proc, NEW l, pc' = [pc EXCEPT ![p] = l],
         p \notin Hanger => pc[p] \notin {"idle"},
         p = "run" => l \in {"connected", "play", "announced", "speaking", "greeted",
                    "waiting", "final", "join consumer", "stop hold", "stop playback",
                    "stop turn", "settle", "summarised", "commit", "done"},
         p = "consumer" => l \in {"loop", "get", "barge in", "listen", "done"},
         p = "watchdog" => l \in {"again", "tick", "enter", "play", "announced", "speaking",
                         "closing", "hangup", "sentinel", "hung up", "done"},
         p \in Turns => l \in Unspoken \cup {"announced", "speaking", "spoken", "act",
                                              "hangup", "sentinel", "hung up", "done"},
         p \in Turns => l # "start",
         p \in Hanger => l \in {"idle", "hangup", "sentinel", "hung up", "bounded",
                                  "expired", "done"},
         p = "run" /\ l \in Early => pc[p] \in Early
  PROVE  Roles' /\ Alone'
<1>1. pc'[p] = l /\ \A w \in Proc \ {p} : pc'[w] = pc[w]
  BY DEF TypeOK, ControlOK
<1>2. Roles'
  <2>1. /\ p # "run" => pc'["run"] = pc["run"]
        /\ p # "consumer" => pc'["consumer"] = pc["consumer"]
        /\ p # "watchdog" => pc'["watchdog"] = pc["watchdog"]
        /\ \A w \in Turns \cup Hanger : w # p => pc'[w] = pc[w]
    BY <1>1, Kinds
  <2>2. pc'["run"] \in {"start", "connected", "enter", "play", "announced", "speaking", "greeted",
                        "waiting", "final", "join consumer", "stop hold", "stop playback",
                        "stop turn", "settle", "summarised", "commit", "done"}
    BY <1>1, <2>1 DEF RoleInv, Roles
  <2>3. pc'["consumer"] \in {"idle", "loop", "get", "barge in", "listen", "done"}
    BY <1>1, <2>1 DEF RoleInv, Roles
  <2>4. pc'["watchdog"] \in {"idle", "again", "tick", "enter", "play", "announced", "speaking",
                             "closing", "hangup", "sentinel", "hung up", "done"}
    BY <1>1, <2>1 DEF RoleInv, Roles
  <2>5. \A t \in Turns : pc'[t] \in Unspoken \cup {"idle", "announced", "speaking", "spoken", "act",
                                                   "hangup", "sentinel", "hung up", "done"}
    <3>1. ASSUME NEW t \in Turns, t = p
          PROVE  pc'[t] \in Unspoken \cup {"announced", "speaking", "spoken", "act",
                                            "hangup", "sentinel", "hung up", "done"}
      BY <1>1, <3>1
    <3>2. ASSUME NEW t \in Turns, t # p
          PROVE  pc'[t] \in Unspoken \cup {"idle", "announced", "speaking", "spoken", "act",
                                            "hangup", "sentinel", "hung up", "done"}
      <4>1. pc'[t] = pc[t]
        BY <2>1, <3>2
      <4> QED BY <4>1 DEF RoleInv, Roles
    <3> QED BY <3>1, <3>2
  <2>6. \A h \in Hanger : pc'[h] \in {"idle", "hangup", "sentinel", "hung up", "bounded",
                                       "expired", "done"}
    BY <1>1, <2>1 DEF RoleInv, Roles
  <2> QED BY <2>2, <2>3, <2>4, <2>5, <2>6 DEF Roles
<1>3. Alone'
  <2>1. /\ pc["run"] \in Early /\ p # "run" => p \in Hanger
        /\ {"run", "consumer", "watchdog"} \cap Hanger = {} /\ Turns \cap Hanger = {}
        /\ "run" \notin Turns
    BY Kinds DEF RoleInv, Alone
  <2>2. p # "run" => pc'["run"] = pc["run"]
    BY <1>1, Kinds
  <2>3. pc'["run"] \in Early => pc["run"] \in Early
    BY <1>1, <2>2
  <2>4. pc["run"] \in Early =>
          pc'["consumer"] = "idle" /\ pc'["watchdog"] = "idle" /\ \A t \in Turns : pc'[t] = "idle"
    BY <1>1, <2>1, Kinds DEF RoleInv, Alone
  <2> QED BY <2>3, <2>4 DEF Alone
<1> QED BY <1>2, <1>3

\* The places from which `then` is still to be read.
Spoken == {"line", "answered", "enter", "play", "announced", "speaking"}

\* What a step may do to the sounds without beginning a line.
SoundsFade(p, l) ==
  /\ \A s \in Speaker :
       \/ play'[s] = play[s]
       \/ play[s] # "over" /\ (speaking = s \/ play'[s] \in {"over", "playing"})
  /\ \A t \in Turns : hold[t] = "over" => hold'[t] = "over" \/ (p = t /\ l # "start")
  /\ speaking' \in {speaking, None}
  /\ idle' \in {idle, 0}

\* One task moves where it may go, and begins no line.
LEMMA RoleMoves ==
  ASSUME TypeOK, RoleInv, NEW p \in Proc, NEW l, pc' = [pc EXCEPT ![p] = l],
         SoundsFade(p, l),
         p \notin Hanger => pc[p] # "idle",
         p = "run" => l \in {"connected", "play", "speaking", "greeted",
                    "waiting", "final", "join consumer", "stop hold", "stop playback",
                    "stop turn", "settle", "summarised", "commit", "done"},
         p = "run" /\ l = "connected" => pc[p] \in Early,
         p = "run" /\ l = "play" => pc[p] = "enter",
         p = "consumer" => l \in {"loop", "get", "barge in", "listen", "done"},
         p = "watchdog" => l \in {"again", "tick", "enter", "play", "speaking",
                         "closing", "hangup", "sentinel", "hung up", "done"},
         p = "watchdog" /\ l = "play" => pc[p] = "enter",
         p = "watchdog" /\ l = "enter" => idle # 0 /\ ~Talking(p),
         p \in Turns => l \in Unspoken \cup {"speaking", "spoken", "act",
                                              "hangup", "sentinel", "hung up", "done"},
         p \in Turns => l # "start",
         p \in Turns /\ l \in Unspoken => pc[p] \in Unspoken,
         p \in Hanger => l \in {"hangup", "sentinel", "hung up", "bounded", "expired", "done"},
         l = "speaking" => Talking(p),
         p \in Speaker /\ Talking(p) /\ l # "speaking" => idle' = 0 /\ speaking' = None,
         p \in Speaker /\ l \in Spoken => then'[p] \in Resumes(p),
         \A s \in Speaker \ {p} : then'[s] = then[s]
  PROVE  RoleInv'
<1>1. pc'[p] = l /\ \A w \in Proc \ {p} : pc'[w] = pc[w]
  BY DEF TypeOK, ControlOK
<1>2. Roles' /\ Alone'
  <2>1. p = "run" /\ l \in Early => pc[p] \in Early
    BY DEF Early
  <2> QED BY <2>1, RolesMove
<1>3. Plans'
  BY <1>1, Kinds DEF RoleInv, Plans, Spoken
<1>4. ASSUME NEW t \in Turns
      PROVE  /\ pc'[t] \in Unspoken \cup {"idle"} => play'[t] = "over"
             /\ pc'[t] \in {"idle", "start"} => hold'[t] = "over"
  <2>1. pc'[t] \in Unspoken \cup {"idle"} => pc[t] \in Unspoken \cup {"idle"}
    BY <1>1, Kinds DEF Unspoken
  <2>2. play[t] = "over" => play'[t] = "over"
    BY Kinds DEF SoundsFade
  <2>3. pc'[t] \in {"idle", "start"} => pc[t] \in {"idle", "start"} /\ p # t
    BY <1>1, Kinds DEF Unspoken
  <2> QED BY <2>1, <2>2, <2>3 DEF RoleInv, Silent, SoundsFade
<1>5. pc'["run"] \in Early \cup {"enter", "play"} => play'["run"] = "over"
  <2>1. pc'["run"] \in Early \cup {"enter", "play"} => pc["run"] \in Early \cup {"enter", "play"}
    BY <1>1, Kinds DEF Early
  <2> QED BY <2>1, Kinds DEF RoleInv, Silent, SoundsFade
<1>6. pc'["watchdog"] \in {"enter", "play"} => play'["watchdog"] \notin Pending
  <2> SUFFICES ASSUME pc'["watchdog"] \in {"enter", "play"}
               PROVE  play'["watchdog"] \notin Pending
    OBVIOUS
  <2>1. ~Talking("watchdog") /\ (pc["watchdog"] \in {"enter", "play"} \/ idle # 0)
    BY <1>1, Kinds DEF Talking
  <2>2. speaking # "watchdog"
    BY <2>1, Kinds DEF RoleInv, Silent
  <2>3. play["watchdog"] \notin Pending
    BY <2>1, Kinds DEF RoleInv, Silent
  <2> QED BY <2>2, <2>3, Kinds DEF SoundsFade, Pending
<1>7. ~(Talking("watchdog"))' /\ play'["watchdog"] \in Pending => idle' = 0
  <2> SUFFICES ASSUME ~(Talking("watchdog"))', play'["watchdog"] \in Pending
               PROVE  idle' = 0
    OBVIOUS
  <2>1. CASE Talking("watchdog")
    <3>1. p = "watchdog" /\ l # "speaking"
      BY <1>1, <2>1, Kinds DEF Talking
    <3> QED BY <2>1, <3>1, Kinds
  <2>2. CASE ~Talking("watchdog")
    <3>1. speaking # "watchdog"
      BY <2>2, Kinds DEF RoleInv, Silent
    <3>2. play["watchdog"] \in Pending
      BY <3>1, Kinds DEF SoundsFade, Pending
    <3> QED BY <2>2, <3>2 DEF RoleInv, Silent, SoundsFade
  <2> QED BY <2>1, <2>2
<1>8. \A s \in Speaker : speaking' = s => (Talking(s))'
  <2> SUFFICES ASSUME NEW s \in Speaker, speaking' = s PROVE (Talking(s))'
    OBVIOUS
  <2>1. speaking = s /\ speaking' # None
    BY Kinds DEF SoundsFade, None
  <2>2. Talking(s)
    BY <2>1 DEF RoleInv, Silent
  <2> QED BY <1>1, <2>1, <2>2, Kinds DEF Talking
<1> QED
  BY <1>2, <1>3, <1>4, <1>5, <1>6, <1>7, <1>8 DEF RoleInv, Silent

\* Where a task goes on to from a send.
Sends == {"greeted", "again", "closing", "spoken", "act", "hangup", "loop", "listen", "line",
          "answered", "announced"}

\* No send is held up, neither before the step nor after it.
Unhindered == \A p \in Proc : ~HeldUp(p) /\ ~HeldUp(p)'

\* Then a send did not suspend: whoever suspends in one is not on the queue after it.
LEMMA SendContinues ==
  ASSUME TypeOK, LoopInv, Unhindered, NEW p \in Proc, NEW l \in Sends, Leads(ProcTask(p)), Send(p, l)
  PROVE  Continue(p, l)
<1> SUFFICES ASSUME p \in SlowSender, Suspend(p, l, NoTask, <<>>)
             PROVE  FALSE
  BY DEF Send
<1>1. pc'[p] = l /\ ready' = Tail(ready)
  BY DEF Suspend, TypeOK, ControlOK
<1>2. ~Queued(ProcTask(p))'
  <2>1. \A i \in 1..Len(Tail(ready)) : Tail(ready)[i] # ProcTask(p)
    BY DEF Leads, LoopInv, QueueInv, Once, TypeOK, ControlOK
  <2> QED BY <1>1, <2>1 DEF Queued
<1>3. HeldUp(p)'
  BY <1>1, <1>2 DEF HeldUp, Sends
<1> QED BY <1>3 DEF Unhindered

\* Nor did the one that announces a line.
LEMMA PlayContinues ==
  ASSUME TypeOK, LoopInv, Unhindered, NEW s \in Speaker, s \in Proc, Leads(ProcTask(s)), SpeakPlay(s)
  PROVE  ready' = Append(ready, PlayTask(s))
<1> SUFFICES ASSUME s \in SlowSender, ready' = Append(Tail(ready), PlayTask(s))
             PROVE  FALSE
  BY DEF SpeakPlay
<1>1. pc'[s] = "announced" /\ PlayTask(s) # ProcTask(s) /\ PlayTask(s) \in Task
  BY Names DEF SpeakPlay, TypeOK, ControlOK, Task
<1>2. ~Queued(ProcTask(s))'
  <2>1. \A i \in 1..Len(Tail(ready)) : Tail(ready)[i] # ProcTask(s)
    BY DEF Leads, LoopInv, QueueInv, Once, TypeOK, ControlOK
  <2>2. Tail(ready) \in Seq(Task)
    BY DEF Leads, TypeOK, ControlOK
  <2> QED BY <1>1, <2>1, <2>2 DEF Queued
<1>3. HeldUp(s)'
  BY <1>1, <1>2 DEF HeldUp
<1> QED BY <1>3 DEF Unhindered

\* Wherever a task goes on, it is the only one to move.
LEMMA GoesTo ==
  /\ \A p, l : Continue(p, l) => pc' = [pc EXCEPT ![p] = l]
  /\ \A p, l, x, q : Suspend(p, l, x, q) => pc' = [pc EXCEPT ![p] = l]
  /\ \A p, q : Return(p, q) => pc' = [pc EXCEPT ![p] = "done"]
  /\ \A p, l : StopHold(p, l) => pc' = [pc EXCEPT ![p] = l]
  /\ \A p, l : CancelPlayback(p, l) => pc' = [pc EXCEPT ![p] = l]
BY DEF Continue, Suspend, Return, StopHold, CancelPlayback

\* Stopping the tone and cancelling a playback begin no line.
LEMMA Fades ==
  ASSUME TypeOK
  PROVE  /\ \A p, l, m : StopHold(p, l) /\ play' = play /\ speaking' = speaking /\ idle' \in {idle, 0}
                => SoundsFade(p, m)
         /\ \A p, l, m : CancelPlayback(p, l) /\ hold' = hold /\ speaking' = speaking /\ idle' \in {idle, 0}
                => SoundsFade(p, m)
         /\ \A p, m : play' = play /\ hold' = hold /\ speaking' \in {speaking, None} /\ idle' \in {idle, 0}
                => SoundsFade(p, m)
<1>1. ASSUME NEW p, NEW l, NEW m, StopHold(p, l), play' = play, speaking' = speaking, idle' \in {idle, 0}
      PROVE  SoundsFade(p, m)
  BY <1>1 DEF StopHold, SoundsFade, TypeOK, SoundOK
<1>2. ASSUME NEW p, NEW l, NEW m, CancelPlayback(p, l), hold' = hold, speaking' = speaking, idle' \in {idle, 0}
      PROVE  SoundsFade(p, m)
  BY <1>2 DEF CancelPlayback, SoundsFade, TypeOK, SoundOK
<1> QED BY <1>1, <1>2 DEF SoundsFade

\* _speak keeps the loop in order.
LEMMA SpeakLoop ==
  ASSUME TypeOK, LoopInv, Unhindered, NEW s \in Speaker,
         SpeakEnter(s) \/ SpeakPlay(s) \/ SpeakAwait(s) \/ SpeakReturn(s)
  PROVE  LoopInv'
<1>1. s \in Proc /\ s \notin Hanger /\ s # "consumer"
  BY Kinds
<1>2. Runs(s, "enter") \/ Runs(s, "play") \/ Runs(s, "announced") \/ Runs(s, "speaking")
  BY DEF SpeakEnter, SpeakPlay, SpeakAwait, SpeakReturn
<1>3. Leads(ProcTask(s)) /\ pc[s] \in {"enter", "play", "announced", "speaking"}
  BY <1>2, RunsLeads
<1>4. Here(ProcTask(s)) /\ then[s] \in Resumes(s)
  BY <1>1, <1>3, LeadsLives DEF LoopInv, RoleInv, Plans
<1>5. then[s] \in {"greeted", "again", "closing", "spoken", "act"}
  BY <1>4, Kinds DEF Resumes
<1>6. CASE SpeakEnter(s)
  <2>1. pc[s] = "enter" /\ then' = then /\ UNCHANGED <<play, speaking, idle, inbox>>
    BY <1>6, RunsLeads DEF SpeakEnter, plan, voice, caller, patience
  <2>2. CASE Continue(s, then[s]) /\ UNCHANGED tone
    <3>1. QueueInv'
      BY <1>1, <1>3, <1>5, <2>1, <2>2, QueueContinue DEF LoopInv, tone
    <3>2. SoundsFade(s, then[s])
      BY <2>1, <2>2, Fades DEF tone
    <3>3. RoleInv'
      <4>1. pc' = [pc EXCEPT ![s] = then[s]]
        BY <2>2, GoesTo
      <4>2. PICK l \in Resumes(s) : l = then[s]
        BY <1>4
      <4>3. l \in {"greeted", "again", "closing", "spoken", "act"}
        BY <1>5, <4>2
      <4>4. /\ s = "run" => l = "greeted"
            /\ s = "watchdog" => l \in {"again", "closing"}
            /\ s \in Turns => l \in {"spoken", "act"}
        BY <4>2, Kinds DEF Resumes
      <4> QED BY <1>1, <2>1, <3>2, <4>1, <4>2, <4>3, <4>4, Kinds, RoleMoves DEF LoopInv, Spoken, Talking, Unspoken
    <3> QED BY <3>1, <3>3 DEF LoopInv
  <2>3. CASE StopHold(s, "play")
    <3>1. QueueInv'
      <4>1. "play" \in OnHold /\ ~PassesBy(s, "play")
        BY DEF OnHold, PassesBy, Passing
      <4> QED BY <1>1, <1>3, <2>1, <2>3, <4>1, QueueStopHold DEF LoopInv
    <3>2. SoundsFade(s, "play")
      BY <2>1, <2>3, Fades
    <3>3. pc' = [pc EXCEPT ![s] = "play"]
      BY <2>3, GoesTo
    <3>4. RoleInv'
      BY <1>1, <1>4, <2>1, <3>2, <3>3, Kinds, RoleMoves DEF LoopInv, Spoken, Talking, Unspoken
    <3> QED BY <3>1, <3>4 DEF LoopInv
  <2> QED BY <1>6, <2>2, <2>3 DEF SpeakEnter
<1>7. CASE SpeakPlay(s)
  <2>1. /\ pc[s] = "play" /\ then' = then /\ idle' = idle /\ inbox' = inbox /\ hold' = hold
        /\ play' = [play EXCEPT ![s] = "new"] /\ speaking' = s
        /\ pc' = [pc EXCEPT ![s] = "announced"] /\ joining' = [joining EXCEPT ![s] = NoTask]
        /\ cancelled' = cancelled \ {s}
    BY <1>7, RunsLeads DEF SpeakPlay, plan, tone, caller, patience
  <2>2. ready' = ready \o <<PlayTask(s)>>
    <3>1. ready' = Append(ready, PlayTask(s))
      BY <1>1, <1>3, <1>7, PlayContinues
    <3> QED BY <3>1, AppendIsConcat DEF TypeOK, ControlOK
  <2>3. /\ pc'[s] = "announced" /\ \A w \in Proc \ {s} : pc'[w] = pc[w]
        /\ joining'[s] = NoTask /\ \A w \in Proc \ {s} : joining'[w] = joining[w]
        /\ play'[s] = "new" /\ \A w \in Speaker \ {s} : play'[w] = play[w]
    BY <1>1, <2>1 DEF TypeOK, ControlOK, SoundOK
  <2>4. play[s] \notin Pending
    BY <2>1, Kinds DEF LoopInv, RoleInv, Silent, Unspoken, Pending
  <2>5. Fresh(<<PlayTask(s)>>) /\ \A y : In(y, <<PlayTask(s)>>) <=> y = PlayTask(s)
    BY <2>4, FreshOne, TaskNames DEF LoopInv, QueueInv
  <2>6. QueueInv'
    <3> DEFINE A == {s}
               C == {}
               q == <<PlayTask(s)>>
    <3>1. A \in SUBSET Proc /\ C \in SUBSET Proc /\ (\A w : w \in A <=> w = s) /\ (\A w : w \notin C)
      BY <1>1
    <3>2. Fresh(q) /\ ready' = ready \o q /\ \A y : In(y, q) <=> y = PlayTask(s)
      BY <2>2, <2>5
    <3> HIDE DEF A, C, q
    <3>3. \A w \in Proc \ A : joining'[w] = joining[w] /\ pc'[w] = pc[w]
      BY <2>3, <3>1
    <3>4. \A w \in A :
           /\ joining'[w] = NoTask /\ pc'[w] \notin {"idle", "done"}
           /\ Here(ProcTask(w)) /\ Leads(ProcTask(w)) /\ w \notin cancelled'
      BY <1>3, <1>4, <2>1, <2>3, <3>1
    <3>5. cancelled' \subseteq cancelled \cup C
      BY <2>1
    <3>6. \A w : ~In(ProcTask(w), q) /\ ~In(HoldTask(w), q) /\ (In(PlayTask(w), q) <=> w = s)
      BY <3>2, Names
    <3>7. \A w \in Speaker :
           \/ play'[w] = play[w] /\ ~In(PlayTask(w), q)
           \/ play[w] \notin Pending /\ play'[w] = "new" /\ In(PlayTask(w), q)
      BY <2>3, <2>4, <3>6
    <3> QED BY <2>1, <3>1, <3>2, <3>3, <3>4, <3>5, <3>6, <3>7, QueueGrows DEF LoopInv
  <2>7. Roles' /\ Alone'
    BY <1>1, <2>1, Kinds, RolesMove DEF LoopInv, Early, Unspoken
  <2>8. Plans'
    BY <1>4, <2>1, <2>3, Kinds DEF LoopInv, RoleInv, Plans
  <2>9. Silent'
    <3>1. \A t \in Turns : pc'[t] \in Unspoken \cup {"idle"} => t # s
      BY <2>3 DEF Unspoken
    <3>2. pc'["run"] \in Early \cup {"enter", "play"} => "run" # s
      BY <2>3 DEF Early
    <3> QED BY <2>1, <2>3, <3>1, <3>2, Kinds DEF LoopInv, RoleInv, Silent, Talking, Unspoken
  <2> QED BY <2>6, <2>7, <2>8, <2>9 DEF LoopInv, RoleInv
<1>8. CASE SpeakAwait(s)
  <2>1. pc[s] = "announced" /\ then' = then /\ UNCHANGED <<play, hold, speaking, idle, inbox>>
    BY <1>8, RunsLeads DEF SpeakAwait, plan, voice, tone, caller, patience
  <2>2. Continue(s, "speaking") \/ Suspend(s, "speaking", NoTask, <<>>)
    BY <1>8 DEF SpeakAwait
  <2>3. QueueInv'
    <3>1. ~PassesBy(s, "speaking") /\ "speaking" \notin {"idle", "done", "get"} \cup Runnable
      BY DEF PassesBy, Passing, Runnable, OnHold, OnPlay
    <3> QED BY <1>1, <1>3, <2>1, <2>2, <3>1, QueueContinue, QueueAwaits DEF LoopInv
  <2>4. SoundsFade(s, "speaking")
    BY <2>1, Fades
  <2>5. pc' = [pc EXCEPT ![s] = "speaking"]
    BY <2>2, GoesTo
  <2>6. RoleInv'
    BY <1>1, <1>4, <2>1, <2>4, <2>5, Kinds, RoleMoves DEF LoopInv, Spoken, Talking, Unspoken
  <2> QED BY <2>3, <2>6 DEF LoopInv
<1>9. CASE SpeakReturn(s)
  <2>1. pc[s] = "speaking" /\ then' = then /\ UNCHANGED <<play, hold, inbox>> /\ speaking' = None /\ idle' = 0
    BY <1>9, RunsLeads DEF SpeakReturn, plan, tone
  <2>2. PICK l \in Resumes(s) : l = then[s]
    BY <1>4
  <2>3. Continue(s, l)
    BY <1>1, <1>3, <1>5, <1>9, <2>2, SendContinues DEF SpeakReturn, Sends
  <2>4. l \in {"greeted", "again", "closing", "spoken", "act"}
    BY <1>5, <2>2
  <2>5. QueueInv'
    BY <1>1, <1>3, <2>1, <2>3, <2>4, QueueContinue DEF LoopInv
  <2>6. SoundsFade(s, l)
    BY <2>1, Fades
  <2>7. pc' = [pc EXCEPT ![s] = l]
    BY <2>3, GoesTo
  <2>8. /\ s = "run" => l = "greeted"
        /\ s = "watchdog" => l \in {"again", "closing"}
        /\ s \in Turns => l \in {"spoken", "act"}
    BY <2>2, Kinds DEF Resumes
  <2>9. RoleInv'
    BY <1>1, <2>1, <2>4, <2>6, <2>7, <2>8, Kinds, RoleMoves DEF LoopInv, Spoken, Talking, Unspoken
  <2> QED BY <2>5, <2>9 DEF LoopInv
<1> QED
  BY <1>6, <1>7, <1>8, <1>9

\* No task moves and no line begins: the roles are kept.
LEMMA RolesStay ==
  ASSUME TypeOK, RoleInv, UNCHANGED <<pc, then>>,
         \A s \in Speaker : play'[s] = play[s] \/ (play[s] # "over" /\ play'[s] \in {"over", "playing"}),
         \A t \in Turns : hold[t] = "over" => hold'[t] = "over",
         speaking' \in {speaking, None}, idle' \in {idle, 0} \/ play["watchdog"] \notin Pending
  PROVE  RoleInv'
<1>1. Roles' /\ Plans' /\ Alone'
  <2>1. Roles'
    BY DEF RoleInv, Roles
  <2>2. Plans'
    BY DEF RoleInv, Plans, Resumes
  <2>3. Alone'
    BY DEF RoleInv, Alone
  <2> QED BY <2>1, <2>2, <2>3
<1>2. \A t \in Turns : /\ pc'[t] \in Unspoken \cup {"idle"} => play'[t] = "over"
                       /\ pc'[t] \in {"idle", "start"} => hold'[t] = "over"
  BY Kinds DEF RoleInv, Silent
<1>3. pc'["run"] \in Early \cup {"enter", "play"} => play'["run"] = "over"
  BY Kinds DEF RoleInv, Silent
<1>4. /\ pc'["watchdog"] \in {"enter", "play"} => play'["watchdog"] \notin Pending
      /\ ~(Talking("watchdog"))' /\ play'["watchdog"] \in Pending => idle' = 0
  BY Kinds DEF RoleInv, Silent, Pending, Talking
<1>5. \A s \in Speaker : speaking' = s => (Talking(s))'
  BY Kinds DEF RoleInv, Silent, Talking, None
<1> QED BY <1>1, <1>2, <1>3, <1>4, <1>5 DEF RoleInv, Silent

\* The playback and tone tasks keep the loop in order.
LEMMA SoundLoop ==
  ASSUME TypeOK, LoopInv
  PROVE  /\ \A s \in Speaker : PlayStarts(s) \/ PlayCancelled(s) \/ ChunkSent(s) \/ PlayEnds(s) => LoopInv'
         /\ \A t \in Turns : HoldStops(t) => LoopInv'
<1>1. ASSUME NEW s \in Speaker, PlayStarts(s) PROVE LoopInv'
  <2>1. /\ Leads(PlayTask(s)) /\ play[s] = "new" /\ play' = [play EXCEPT ![s] = "playing"]
        /\ ready' = Tail(ready)
        /\ UNCHANGED <<pc, then, joining, cancelled, hold, speaking, idle, inbox>>
    BY <1>1 DEF PlayStarts, Leads, plan, tone, caller, patience
  <2>2. Once(ready') /\ \A y : (Here(y))' <=> Here(y) /\ y # PlayTask(s)
    BY <2>1, InTail DEF LoopInv, QueueInv, TypeOK, ControlOK, Leads, Here
  <2>3. \A w \in Speaker : play'[w] = IF w = s THEN "playing" ELSE play[w]
    BY <2>1 DEF TypeOK, SoundOK
  <2>4. \A w \in Proc : (Here(ProcTask(w)))' <=> Here(ProcTask(w))
    BY <2>2, Names
  <2>5. \A y : Alive(y) => (Alive(y))'
    <3>1. \A w \in Speaker : play[w] \in {"stopping", "stillborn"} => play'[w] = play[w]
      BY <2>1, <2>3
    <3> QED BY <2>1, <3>1 DEF Alive, Live
  <2>6. ASSUME NEW w \in Proc PROVE (InPlace(w))'
    <3>1. ~PassesBy(w, pc[w])
      BY <2>1, Names DEF LoopInv, QueueInv, InPlace, Leads
    <3>2. (Live(w))' <=> Live(w)
      BY <2>1 DEF Live
    <3> HIDE DEF PassesBy, MayAwait, Alive, Here, Live
    <3> QED BY <2>1, <2>4, <2>5, <3>1, <3>2 DEF LoopInv, QueueInv, InPlace
  <2>7. \A w \in Speaker : (Here(PlayTask(w)))' <=> play'[w] \in Pending
    BY <2>2, <2>3, Names DEF LoopInv, QueueInv, Pending
  <2>8. \A t \in Turns : (Here(HoldTask(t)))' <=> hold'[t] = "stopping"
    BY <2>1, <2>2, Names DEF LoopInv, QueueInv
  <2>9. QueueInv'
    BY <2>1, <2>2, <2>4, <2>6, <2>7, <2>8, Kinds DEF LoopInv, QueueInv
  <2>10. RoleInv'
    BY <2>1, <2>3, RolesStay DEF LoopInv
  <2> QED BY <2>9, <2>10 DEF LoopInv
<1>2. ASSUME NEW s \in Speaker, PlayCancelled(s) PROVE LoopInv'
  <2> DEFINE q == IF play[s] = "stopping" THEN WakeSpeaker(s) ELSE <<>>
             x == PlayTask(s)
  <2>1. /\ Leads(x) /\ play[s] # "over" /\ play' = [play EXCEPT ![s] = "over"] /\ TaskOver(x, q)
        /\ UNCHANGED <<pc, then, cancelled, hold, speaking, idle, inbox>>
    BY <1>2 DEF PlayCancelled, Leads, plan, tone, caller, patience
  <2>2. Fresh(q) /\ \A y : In(y, q) => \E w \in Proc : y = ProcTask(w) /\ Live(w) /\ joining[w] = NoTask
    <3>1. CASE play[s] = "stopping"
      BY <3>1, WakesFresh, Kinds DEF LoopInv
    <3>2. CASE play[s] # "stopping"
      BY <3>2, FreshNone
    <3> QED BY <3>1, <3>2
  <2>3. \A w \in Speaker : play'[w] = IF w = s THEN "over" ELSE play[w]
    BY <2>1 DEF TypeOK, SoundOK
  <2>4. /\ \A w \in Proc : x # ProcTask(w)
        /\ \A t \in Turns : x # HoldTask(t)
        /\ \A w \in Speaker : x = PlayTask(w) <=> w = s
    BY Names
  <2>5. RoleInv'
    BY <2>1, <2>3, RolesStay DEF LoopInv
  <2> HIDE DEF q, x
  <2>6. /\ \A w \in Proc : pc'[w] = IF x = ProcTask(w) THEN "done" ELSE pc[w]
        /\ \A w \in Proc : w \in cancelled' <=> w \in cancelled /\ x # ProcTask(w)
        /\ \A w \in Speaker : play'[w] = IF x = PlayTask(w) THEN "over" ELSE play[w]
        /\ \A t \in Turns : hold'[t] = IF x = HoldTask(t) THEN "over" ELSE hold[t]
        /\ inbox' = inbox
    BY <2>1, <2>3, <2>4
  <2>7. QueueInv'
    BY <2>1, <2>2, <2>6, QueueOver DEF LoopInv
  <2> QED BY <2>5, <2>7 DEF LoopInv
<1>3. ASSUME NEW s \in Speaker, ChunkSent(s) PROVE LoopInv'
  <2>1. UNCHANGED <<pc, then, ready, joining, cancelled, play, hold, speaking, idle, inbox>>
    BY <1>3 DEF ChunkSent, plan, loop, tone, caller, patience
  <2>2. RoleInv'
    BY <2>1, RolesStay DEF LoopInv
  <2>3. /\ \A w \in Proc : (Live(w))' <=> Live(w)
        /\ \A y : ((Here(y))' <=> Here(y)) /\ ((Leads(y))' <=> Leads(y))
    BY <2>1 DEF Live, Here, Leads
  <2>4. \A y : (Alive(y))' <=> Alive(y)
    BY <2>1, <2>3 DEF Alive
  <2>5. QueueInv'
    <3> HIDE DEF Here, Alive, Live, Leads
    <3> QED BY <2>1, <2>3, <2>4 DEF LoopInv, QueueInv, InPlace
  <2> QED BY <2>2, <2>5 DEF LoopInv
<1>4. ASSUME NEW s \in Speaker, PlayEnds(s) PROVE LoopInv'
  <2> DEFINE q == WakeSpeaker(s)
             A == {}
             C == {}
  <2>1. /\ play[s] = "playing" /\ play' = [play EXCEPT ![s] = "over"] /\ ready' = ready \o q
        /\ UNCHANGED <<pc, then, joining, cancelled, hold, speaking, idle, inbox>>
    BY <1>4 DEF PlayEnds, plan, tone, caller, patience
  <2>2. Fresh(q) /\ (\A y : In(y, q) => \E w \in Proc : y = ProcTask(w) /\ Live(w) /\ joining[w] = NoTask)
    BY WakesFresh, Kinds DEF LoopInv
  <2>3. \A w \in Speaker : play'[w] = IF w = s THEN "over" ELSE play[w]
    BY <2>1 DEF TypeOK, SoundOK
  <2>4. A \in SUBSET Proc /\ C \in SUBSET Proc /\ (\A w : w \notin A /\ w \notin C)
    OBVIOUS
  <2>5. RoleInv'
    BY <2>1, <2>3, RolesStay DEF LoopInv
  <2> HIDE DEF q, A, C
  <2>6. /\ \A w \in Proc : In(ProcTask(w), q) => Live(w) /\ joining[w] = NoTask
        /\ \A w : ~In(PlayTask(w), q) /\ ~In(HoldTask(w), q)
    BY <2>2, Names
  <2>7. /\ \A w \in Proc \ A : joining'[w] = joining[w] /\ pc'[w] = pc[w]
        /\ \A w \in Speaker :
           \/ play'[w] = play[w] /\ ~In(PlayTask(w), q)
           \/ play[w] = "playing" /\ play'[w] = "over" /\ ~In(PlayTask(w), q)
        /\ cancelled' \subseteq cancelled \cup C
    BY <2>1, <2>3, <2>6
  <2>8. QueueInv'
    BY <2>1, <2>2, <2>4, <2>6, <2>7, QueueGrows DEF LoopInv
  <2> QED BY <2>5, <2>8 DEF LoopInv
<1>5. ASSUME NEW t \in Turns, HoldStops(t) PROVE LoopInv'
  <2> DEFINE x == HoldTask(t)
  <2>1. /\ Leads(x) /\ hold' = [hold EXCEPT ![t] = "over"] /\ TaskOver(x, <<>>)
        /\ UNCHANGED <<pc, then, cancelled, play, speaking, idle, inbox>>
    BY <1>5 DEF HoldStops, Leads, plan, voice, caller, patience
  <2>2. \A w \in Turns : hold'[w] = IF w = t THEN "over" ELSE hold[w]
    BY <2>1 DEF TypeOK, SoundOK
  <2>3. /\ \A w \in Proc : x # ProcTask(w)
        /\ \A w \in Speaker : x # PlayTask(w)
        /\ \A w \in Turns : x = HoldTask(w) <=> w = t
    BY Names
  <2>4. RoleInv'
    BY <2>1, <2>2, RolesStay DEF LoopInv
  <2> HIDE DEF x
  <2>5. /\ \A w \in Proc : pc'[w] = IF x = ProcTask(w) THEN "done" ELSE pc[w]
        /\ \A w \in Proc : w \in cancelled' <=> w \in cancelled /\ x # ProcTask(w)
        /\ \A w \in Speaker : play'[w] = IF x = PlayTask(w) THEN "over" ELSE play[w]
        /\ \A w \in Turns : hold'[w] = IF x = HoldTask(w) THEN "over" ELSE hold[w]
        /\ inbox' = inbox
    BY <2>1, <2>2, <2>3
  <2>6. QueueInv'
    BY <2>1, <2>5, FreshNone, QueueOver DEF LoopInv
  <2> QED BY <2>4, <2>6 DEF LoopInv
<1> QED BY <1>1, <1>2, <1>3, <1>4, <1>5

\* Where a task that runs may go.
MayGo(p, l) ==
  /\ p = "run" => l \in {"connected", "play", "speaking", "greeted", "waiting", "final",
                         "join consumer", "stop hold", "stop playback", "stop turn", "settle",
                         "summarised", "commit", "done"}
  /\ p = "run" /\ l = "connected" => pc[p] \in Early
  /\ p = "run" /\ l = "play" => pc[p] = "enter"
  /\ p = "consumer" => l \in {"loop", "get", "barge in", "listen", "done"}
  /\ p = "watchdog" => l \in {"again", "tick", "enter", "play", "speaking", "closing", "hangup",
                              "sentinel", "hung up", "done"}
  /\ p = "watchdog" /\ l = "play" => pc[p] = "enter"
  /\ p = "watchdog" /\ l = "enter" => idle # 0
  /\ p \in Turns => l \in (Unspoken \ {"start"}) \cup {"speaking", "spoken", "act", "hangup",
                                                      "sentinel", "hung up", "done"}
  /\ p \in Turns /\ l \in Unspoken => pc[p] \in Unspoken
  /\ p \in Hanger => l \in {"hangup", "sentinel", "hung up", "bounded", "expired", "done"}
  /\ l \in {"speaking", "enter"} => (Talking(p) <=> l = "speaking")
  /\ p \in Speaker /\ Talking(p) /\ l # "speaking" => idle' = 0 /\ speaking' = None
  /\ p \in Speaker /\ l \in Spoken => then'[p] \in Resumes(p)
  /\ \A s \in Speaker \ {p} : then'[s] = then[s]

\* A move to a place of its kind keeps the roles.
LEMMA RoleGoes ==
  ASSUME TypeOK, RoleInv, NEW p \in Proc, NEW l, pc' = [pc EXCEPT ![p] = l],
         SoundsFade(p, l), p \notin Hanger => pc[p] # "idle", MayGo(p, l)
  PROVE  RoleInv'
<1>1. /\ p = "watchdog" /\ l = "enter" => idle # 0 /\ ~Talking(p)
      /\ p \in Turns => l # "start" /\ l \in Unspoken \cup {"speaking", "spoken", "act", "hangup",
                                                      "sentinel", "hung up", "done"}
      /\ l = "speaking" => Talking(p)
  BY DEF MayGo
<1> QED BY <1>1, RoleMoves DEF MayGo

\* The running task goes on, or awaits something of the world's.
LEMMA LoopMoves ==
  ASSUME TypeOK, LoopInv, NEW p \in Proc, NEW l, Leads(ProcTask(p)), MayGo(p, l),
         l \notin {"idle", "done"},
         \/ Continue(p, l) /\ hold' = hold
         \/ Suspend(p, l, NoTask, <<>>) /\ l \notin Runnable /\ ~PassesBy(p, l) /\ l # "get",
         play' = play, speaking' \in {speaking, None}, idle' \in {idle, 0},
         \A t \in Turns : hold'[t] = hold[t] \/ (hold[t] = "over" /\ hold'[t] = "on" /\ p = t /\ l # "start"),
         inbox' = inbox \/ (p = "consumer" /\ hold' = hold /\ Continue(p, l))
  PROVE  LoopInv'
<1>1. QueueInv'
  <2>1. CASE Continue(p, l) /\ hold' = hold
    BY <2>1, QueueContinue DEF LoopInv
  <2>2. CASE Suspend(p, l, NoTask, <<>>) /\ l \notin Runnable /\ ~PassesBy(p, l) /\ l # "get"
             /\ inbox' = inbox
    BY <2>2, QueueAwaits DEF LoopInv
  <2> QED BY <2>1, <2>2
<1>2. SoundsFade(p, l)
  BY DEF SoundsFade
<1>3. pc' = [pc EXCEPT ![p] = l] /\ pc[p] # "idle"
  BY GoesTo, LeadsLives DEF LoopInv, Live
<1> QED BY <1>1, <1>2, <1>3, RoleGoes DEF LoopInv

\* The running task returns.
LEMMA LoopReturns ==
  ASSUME TypeOK, LoopInv, NEW p \in Proc, NEW q, Leads(ProcTask(p)), Return(p, q),
         q = <<>> \/ (q = WakeRun /\ p # "run"),
         p \in Speaker => ~Talking(p),
         UNCHANGED <<play, hold, speaking, idle, then>>, inbox' = inbox \/ p = "consumer"
  PROVE  LoopInv'
<1>1. Fresh(q) /\ \A y : In(y, q) => \E w \in Proc : y = ProcTask(w) /\ Live(w) /\ joining[w] = NoTask
  BY FreshNone, WakesFresh, Kinds DEF LoopInv
<1>2. QueueInv'
  BY <1>1, QueueReturn DEF LoopInv
<1>3. SoundsFade(p, "done") /\ pc' = [pc EXCEPT ![p] = "done"] /\ pc[p] # "idle"
  BY GoesTo, Fades, LeadsLives DEF LoopInv, Live
<1>4. MayGo(p, "done")
  BY DEF MayGo, Early, Unspoken, Spoken
<1> QED BY <1>2, <1>3, <1>4, RoleGoes DEF LoopInv

\* Two lots of tasks that may be queued may be queued together.
LEMMA FreshConcat ==
  ASSUME NEW q, NEW r, Fresh(q), Fresh(r), \A y : ~(In(y, q) /\ In(y, r))
  PROVE  Fresh(q \o r) /\ \A y : In(y, q \o r) <=> In(y, q) \/ In(y, r)
BY InConcat DEF Fresh

\* hangup() keeps the loop in order.
LEMMA HangupLoop ==
  ASSUME TypeOK, LoopInv, Unhindered, HangupStep
  PROVE  LoopInv'
<1>1. ASSUME NEW p \in Proc \ {"run", "consumer"}, Hangup(p) PROVE LoopInv'
  <2>1. pc[p] = "hangup" /\ Leads(ProcTask(p)) /\ UNCHANGED <<hold, speaking, idle, then, inbox>>
    BY <1>1, RunsLeads DEF Hangup, plan, tone, caller, patience
  <2>2. CASE Continue(p, "hung up") /\ play' = play
    <3>1. MayGo(p, "hung up")
      BY <2>1, Kinds DEF MayGo, Early, Unspoken, Spoken, Talking
    <3> QED BY <2>1, <2>2, <3>1, LoopMoves
  <2>3. CASE CancelPlayback(p, "sentinel")
    <3>1. QueueInv'
      <4>1. "sentinel" \in OnPlay
        BY DEF OnPlay
      <4> QED BY <2>1, <2>3, <4>1, QueueCancelPlayback DEF LoopInv
    <3>2. MayGo(p, "sentinel")
      BY <2>1, Kinds DEF MayGo, Early, Unspoken, Spoken, Talking
    <3>3. SoundsFade(p, "sentinel") /\ pc' = [pc EXCEPT ![p] = "sentinel"]
      BY <2>1, <2>3, GoesTo, Fades
    <3> QED BY <2>1, <3>1, <3>2, <3>3, RoleGoes DEF LoopInv
  <2> QED BY <1>1, <2>2, <2>3 DEF Hangup
<1>2. ASSUME NEW p \in Proc \ {"run", "consumer"}, HangupSentinel(p) PROVE LoopInv'
  <2> DEFINE q == WakeConsumer \o WakeRun
             A == {p}
             C == {}
  <2>1. /\ pc[p] = "sentinel" /\ Leads(ProcTask(p)) /\ UNCHANGED <<play, hold, idle, then>>
        /\ speaking' = None /\ ready' = ready \o q /\ cancelled' = cancelled \ {p}
        /\ pc' = [pc EXCEPT ![p] = "hung up"] /\ joining' = [joining EXCEPT ![p] = NoTask]
    <3>1. ready' = ready \o (WakeConsumer \o WakeRun)
      <4>1. /\ ready \in Seq(Task) /\ WakeConsumer \in Seq(Task) /\ WakeRun \in Seq(Task)
            /\ ready' = ready \o WakeConsumer \o WakeRun
        BY <1>2, WakeTypes DEF HangupSentinel, TypeOK, ControlOK
      <4> QED BY <4>1, ConcatAssociative
    <3> QED BY <1>2, <3>1, RunsLeads DEF HangupSentinel, plan, tone, patience
  <2>2. Fresh(q) /\ \A y : In(y, q) <=> In(y, WakeConsumer) \/ In(y, WakeRun)
    <3>1. \A y : ~(In(y, WakeConsumer) /\ In(y, WakeRun))
      BY WakesFresh, Names DEF LoopInv
    <3> QED BY <3>1, WakesFresh, FreshConcat DEF LoopInv
  <2>3. /\ \A y : In(y, q) => \E w \in Proc : y = ProcTask(w) /\ Live(w) /\ joining[w] = NoTask
        /\ pc["consumer"] = "get" => Here(ProcTask("consumer")) \/ In(ProcTask("consumer"), q)
    BY <2>2, WakesFresh, Kinds DEF LoopInv
  <2>4. A \in SUBSET Proc /\ C \in SUBSET Proc /\ (\A w : w \notin C) /\ (\A w : w \in A <=> w = p)
    OBVIOUS
  <2>5. /\ pc'[p] = "hung up" /\ \A w \in Proc \ {p} : pc'[w] = pc[w]
        /\ joining'[p] = NoTask /\ \A w \in Proc \ {p} : joining'[w] = joining[w]
    BY <2>1 DEF TypeOK, ControlOK
  <2>6. Here(ProcTask(p))
    BY <2>1, LeadsLives DEF LoopInv
  <2> HIDE DEF q, A, C
  <2>7. /\ \A w \in Proc : In(ProcTask(w), q) => Live(w) /\ joining[w] = NoTask
        /\ \A w : ~In(PlayTask(w), q) /\ ~In(HoldTask(w), q)
    BY <2>3, Names
  <2>8. /\ \A w \in Proc \ A : joining'[w] = joining[w] /\ pc'[w] = pc[w]
        /\ \A w \in A :
           /\ joining'[w] = NoTask /\ pc'[w] \notin {"idle", "done"}
           /\ Here(ProcTask(w)) /\ Leads(ProcTask(w)) /\ w \notin cancelled'
        /\ cancelled' \subseteq cancelled \cup C
    BY <2>1, <2>4, <2>5, <2>6
  <2>9. pc'["consumer"] = "get" => Here(ProcTask("consumer")) \/ In(ProcTask("consumer"), q)
    BY <2>3, <2>5, Kinds
  <2>10. QueueInv'
    BY <2>1, <2>2, <2>4, <2>7, <2>8, <2>9, QueueGrows DEF LoopInv
  <2>11. MayGo(p, "hung up")
    BY <2>1, Kinds DEF MayGo, Early, Unspoken, Spoken, Talking
  <2>12. SoundsFade(p, "hung up")
    BY <2>1, Fades
  <2> QED BY <2>1, <2>10, <2>11, <2>12, RoleGoes DEF LoopInv
<1>3. ASSUME NEW p \in Proc \ {"run", "consumer"}, HungUp(p) PROVE LoopInv'
  <2>1. /\ pc[p] = "hung up" /\ Leads(ProcTask(p))
        /\ UNCHANGED <<play, hold, speaking, idle, then, inbox>>
    BY <1>3, RunsLeads DEF HungUp, plan, voice, tone, caller, patience
  <2>2. CASE Return(p, <<>>)
    BY <2>1, <2>2, LoopReturns DEF Talking
  <2>3. CASE p = "reader" /\ Live("run") /\ Suspend("reader", "bounded", ProcTask("run"), <<>>)
    <3> DEFINE none == {}
    <3>1. none \in SUBSET (Proc \ {p}) /\ \A w : w \notin none
      OBVIOUS
    <3>2. SoundsCut(<<>>)
      BY <2>1, FreshNone DEF SoundsCut
    <3>3. /\ pc' = [pc EXCEPT ![p] = "bounded"] /\ joining' = [joining EXCEPT ![p] = ProcTask("run")]
          /\ cancelled' = (cancelled \cup none) \ {p} /\ ready' = Tail(ready) \o <<>>
      BY <2>3 DEF Suspend
    <3>4. /\ \A w \in none : Live(w) /\ joining[w] = NoTask /\ (Here(ProcTask(w)) \/ In(ProcTask(w), <<>>))
          /\ \A w \in Proc : In(ProcTask(w), <<>>) => w \in none
      BY FreshNone
    <3>5. pc'["run"] = pc["run"] /\ p \in Hanger
      BY <2>3, <3>3, Kinds DEF TypeOK, ControlOK
    <3>6. MayAwait(p, "bounded", ProcTask("run")) /\ (Alive(ProcTask("run")))' /\ ProcTask("run") # NoTask
      BY <2>3, <3>5, Names, Kinds DEF MayAwait, Alive, Live
    <3>7. ~PassesBy(p, "bounded") /\ "bounded" \notin {"idle", "done"}
      BY DEF PassesBy, Passing
    <3> HIDE DEF none
    <3>8. QueueInv'
      BY <2>1, <3>1, <3>2, <3>3, <3>4, <3>6, <3>7, FreshNone, QueueSuspend DEF LoopInv
    <3>9. MayGo(p, "bounded")
      BY <2>1, <3>5, Kinds DEF MayGo, Early, Unspoken, Spoken, Talking
    <3>10. SoundsFade(p, "bounded")
      BY <2>1, Fades
    <3> QED BY <3>3, <3>5, <3>8, <3>9, <3>10, RoleGoes DEF LoopInv
  <2> QED BY <1>3, <2>2, <2>3 DEF HungUp
<1>4. CASE ReaderDone
  <2>1. /\ pc["reader"] \in {"bounded", "expired"} /\ Leads(ProcTask("reader")) /\ "reader" \in Proc
        /\ UNCHANGED <<play, hold, speaking, idle, then, inbox>> /\ Return("reader", <<>>)
    BY <1>4, RunsLeads, Kinds DEF ReaderDone, plan, voice, tone, caller, patience
  <2> QED BY <2>1, LoopReturns DEF Talking
<1> QED BY <1>1, <1>2, <1>3, <1>4 DEF HangupStep

\* task.cancel() strikes a task that is alive and awaits nobody, and wakes it if it sleeps.
LEMMA CancelFacts ==
  ASSUME TypeOK, QueueInv, NEW p \in Proc
  PROVE  /\ Reached(p) \in Proc /\ Struck(p) \in SUBSET Proc
         /\ \A w \in Struck(p) : w = Reached(p) /\ Live(w) /\ joining[w] = NoTask
                                 /\ (Here(ProcTask(w)) \/ In(ProcTask(w), Woken(p)))
         /\ Fresh(Woken(p))
         /\ \A y : In(y, Woken(p)) => y = ProcTask(Reached(p)) /\ Reached(p) \in Struck(p)
<1>1. Reached(p) \in Proc
  <2>1. joining[p] \in Task \cup {NoTask}
    BY DEF TypeOK, ControlOK
  <2>2. CASE joining[p][1] = "proc"
    <3>1. joining[p] \in {ProcTask(q) : q \in Proc}
      BY <2>1, <2>2 DEF Task, NoTask, ProcTask, PlayTask, HoldTask
    <3> QED BY <2>2, <3>1 DEF Reached, ProcTask
  <2> QED BY <2>2 DEF Reached
<1>2. /\ \A w : w \in Struck(p) <=> w = Reached(p) /\ Live(w) /\ joining[w] = NoTask
      /\ Queued(ProcTask(Reached(p))) <=> Here(ProcTask(Reached(p)))
  BY DEF Struck, Queued, Here, In
<1>3. Struck(p) # {} <=> Reached(p) \in Struck(p)
  BY <1>2
<1>4. CASE Struck(p) # {} /\ ~Here(ProcTask(Reached(p)))
  <2>1. Woken(p) = <<ProcTask(Reached(p))>>
    BY <1>2, <1>4 DEF Woken
  <2>2. Fresh(Woken(p)) /\ \A y : In(y, Woken(p)) <=> y = ProcTask(Reached(p))
    BY <1>1, <1>4, <2>1, FreshOne, TaskNames
  <2> QED BY <1>1, <1>2, <1>3, <1>4, <2>2
<1>5. CASE ~(Struck(p) # {} /\ ~Here(ProcTask(Reached(p))))
  <2>1. Woken(p) = <<>>
    BY <1>2, <1>5 DEF Woken
  <2>2. Fresh(Woken(p)) /\ \A y : ~In(y, Woken(p))
    BY <2>1, FreshNone
  <2> QED BY <1>1, <1>2, <1>5, <2>2
<1> QED BY <1>4, <1>5

\* The consumer keeps the loop in order when it opens a turn.
LEMMA TurnOpensLoop ==
  ASSUME TypeOK, LoopInv, NEW t \in Turns, TurnOpens(t)
  PROVE  LoopInv'
<1> DEFINE cut == turnTask # None /\ Live(turnTask)
           C == IF cut THEN Struck(turnTask) ELSE {}
           q == (IF cut THEN Woken(turnTask) ELSE <<>>) \o <<ProcTask(t)>>
           A == {"consumer", t}
<1>1. /\ pc["consumer"] = "get" /\ Leads(ProcTask("consumer")) /\ pc[t] = "idle"
      /\ UNCHANGED <<play, hold, speaking, then>> /\ idle' = 0 /\ "consumer" \notin cancelled
  <2>1. Runs("consumer", "get")
    BY DEF TurnOpens, TakesFrame
  <2>2. UNCHANGED <<play, hold, speaking, then>> /\ idle' = 0 /\ pc[t] = "idle"
    BY DEF TurnOpens, voice, tone, plan
  <2>3. "get" \notin Suppressing
    BY DEF Suppressing
  <2> QED BY <2>1, <2>2, <2>3, RunsLeads
<1>2. /\ pc' = [pc EXCEPT !["consumer"] = "loop", ![t] = "start"]
      /\ joining' = [joining EXCEPT !["consumer"] = NoTask]
  BY DEF TurnOpens, TakesFrame
<1>3. /\ pc'["consumer"] = "loop" /\ pc'[t] = "start" /\ \A w \in Proc \ {"consumer", t} : pc'[w] = pc[w]
      /\ joining'["consumer"] = NoTask /\ \A w \in Proc \ {"consumer"} : joining'[w] = joining[w]
  BY <1>2, Kinds DEF TypeOK, ControlOK
<1>4. joining[t] = NoTask /\ ~Here(ProcTask(t)) /\ Here(ProcTask("consumer"))
  <2>1. ~MayAwait(t, pc[t], joining[t]) /\ ~Live(t)
    BY <1>1 DEF MayAwait, OnPlay, OnHold, Live
  <2> QED BY <1>1, <2>1, Kinds, LeadsLives DEF LoopInv, QueueInv, InPlace
<1>5. /\ C \in SUBSET Proc
      /\ \A w \in C : Live(w) /\ joining[w] = NoTask
      /\ Fresh(IF cut THEN Woken(turnTask) ELSE <<>>)
      /\ \A w \in C : Here(ProcTask(w)) \/ In(ProcTask(w), IF cut THEN Woken(turnTask) ELSE <<>>)
      /\ \A y : In(y, IF cut THEN Woken(turnTask) ELSE <<>>) => \E w \in C : y = ProcTask(w)
  <2>1. CASE cut
    <3>1. turnTask \in Proc
      BY <2>1, Kinds DEF TypeOK, CallerOK
    <3> QED BY <2>1, <3>1, CancelFacts DEF LoopInv
  <2>2. CASE ~cut
    BY <2>2, FreshNone
  <2> QED BY <2>1, <2>2
<1>6. Fresh(q) /\ \A y : In(y, q) <=> y = ProcTask(t) \/ In(y, IF cut THEN Woken(turnTask) ELSE <<>>)
  <2>1. Fresh(<<ProcTask(t)>>) /\ \A y : In(y, <<ProcTask(t)>>) <=> y = ProcTask(t)
    BY <1>4, FreshOne, TaskNames, Kinds
  <2>2. \A y : ~(In(y, IF cut THEN Woken(turnTask) ELSE <<>>) /\ In(y, <<ProcTask(t)>>))
    BY <1>1, <1>5, <2>1, Names DEF Live
  <2> QED BY <1>5, <2>1, <2>2, FreshConcat
<1>7. ready' = ready \o q /\ cancelled' \subseteq cancelled \cup C
  <2>1. CASE cut
    <3>1. /\ ready \in Seq(Task) /\ Woken(turnTask) \in Seq(Task) /\ <<ProcTask(t)>> \in Seq(Task)
          /\ ready' = ready \o Woken(turnTask) \o <<ProcTask(t)>>
      BY <1>5, <2>1, TaskNames, Kinds DEF TurnOpens, Fresh, TypeOK, ControlOK
    <3> QED BY <2>1, <3>1, ConcatAssociative DEF TurnOpens
  <2>2. CASE ~cut
    <3>1. ready' = Append(ready, ProcTask(t)) /\ cancelled' = cancelled
      BY <2>2 DEF TurnOpens
    <3>2. <<>> \o <<ProcTask(t)>> = <<ProcTask(t)>>
      BY TaskNames, Kinds
    <3>3. Append(ready, ProcTask(t)) = ready \o <<ProcTask(t)>>
      BY AppendIsConcat, TaskNames, Kinds DEF TypeOK, ControlOK
    <3>4. q = <<ProcTask(t)>> /\ C = {}
      BY <2>2, <3>2, Zenon
    <3> HIDE DEF q, C
    <3> QED BY <3>1, <3>3, <3>4
  <2> QED BY <2>1, <2>2
<1>8. A \in SUBSET Proc /\ \A w : w \in A <=> w = "consumer" \/ w = t
  BY Kinds
<1>9. \A w \in C : Here(ProcTask(w)) \/ In(ProcTask(w), q)
  BY <1>5, <1>6
<1>10. \A w : In(ProcTask(w), q) => w = t \/ w \in C
  BY <1>5, <1>6, Names
<1>11. \A w : ~In(PlayTask(w), q) /\ ~In(HoldTask(w), q)
  BY <1>5, <1>6, Names
<1>12. In(ProcTask(t), q)
  BY <1>6
<1>13. t \notin cancelled'
  <2>1. t \notin C
    BY <1>1, <1>5 DEF Live
  <2> QED BY <1>4, <1>7, <2>1, Kinds DEF LoopInv, QueueInv, InPlace
<1> HIDE DEF q, A, C, cut
<1>14. QueueInv'
  <2>1. \A w \in Proc \ A : joining'[w] = joining[w] /\ pc'[w] = pc[w]
    BY <1>3, <1>8
  <2>2. \A w \in A :
           /\ joining'[w] = NoTask /\ pc'[w] \notin {"idle", "done"}
           /\ Here(ProcTask(w)) \/ In(ProcTask(w), q)
           /\ ~PassesBy(w, pc'[w])
    BY <1>3, <1>4, <1>8, <1>12, Kinds DEF PassesBy, Passing
  <2>3. \A w \in C : ~PassesBy(w, pc[w]) \/ w \in A
    <3> SUFFICES ASSUME NEW w \in C, PassesBy(w, pc[w]) PROVE w \in A
      OBVIOUS
    <3>1. InPlace(w)
      BY <1>5 DEF LoopInv, QueueInv
    <3>2. Leads(ProcTask(w))
      BY <3>1 DEF InPlace
    <3> QED BY <1>1, <1>8, <3>2, Names DEF Leads
  <2>4. \A w \in Proc : In(ProcTask(w), q) => w \in A \/ (Live(w) /\ joining[w] = NoTask)
    BY <1>5, <1>8, <1>10
  <2>5. pc'["consumer"] # "get"
    BY <1>3
  <2>6. QueueInv /\ A \in SUBSET Proc /\ C \in SUBSET Proc
    BY <1>5, <1>8 DEF LoopInv
  <2>7. \A w \in C : /\ Here(ProcTask(w)) \/ In(ProcTask(w), q)
                     /\ ~PassesBy(w, pc[w]) \/ w \in A
    BY <1>9, <2>3
  <2>8. /\ \A s \in Speaker : play'[s] = play[s] /\ ~In(PlayTask(s), q)
        /\ \A u \in Turns : ~In(HoldTask(u), q)
        /\ hold' = hold
    BY <1>1, <1>11
  <2>9. Fresh(q)
    BY <1>6
  <2> HIDE DEF PassesBy, Here, Live, Leads, Fresh, LoopInv, QueueInv, In, ProcTask, PlayTask, HoldTask
  <2> QED BY <1>7, <2>1, <2>2, <2>4, <2>5, <2>6, <2>7, <2>8, <2>9, QueueGrows
<1>15. Roles' /\ Alone'
  <2>1. Roles'
    <3>1. /\ pc'["run"] = pc["run"] /\ pc'["watchdog"] = pc["watchdog"] /\ pc'["consumer"] = "loop"
          /\ \A h \in Hanger : pc'[h] = pc[h]
          /\ \A u \in Turns : pc'[u] = pc[u] \/ pc'[u] = "start"
      BY <1>1, <1>3, Kinds
    <3> QED BY <3>1 DEF LoopInv, RoleInv, Roles, Unspoken
  <2>2. Alone'
    BY <1>1, <1>3, Kinds DEF LoopInv, RoleInv, Alone
  <2> QED BY <2>1, <2>2
<1>16. Plans'
  BY <1>1, <1>3, Kinds DEF LoopInv, RoleInv, Plans
<1>17. Silent'
  <2>1. play[t] = "over" /\ hold[t] = "over"
    BY <1>1 DEF LoopInv, RoleInv, Silent
  <2> QED BY <1>1, <1>3, <2>1, Kinds DEF LoopInv, RoleInv, Silent, Talking
<1> QED BY <1>14, <1>15, <1>16, <1>17 DEF LoopInv, RoleInv

\* _consume() keeps the loop in order.
LEMMA ConsumerLoop ==
  ASSUME TypeOK, LoopInv, Unhindered, ConsumerStep
  PROVE  LoopInv'
<1> DEFINE p == "consumer"
<1>p. p \in Proc /\ p \notin Speaker /\ p \notin Turns /\ p \notin Hanger
  BY Kinds
<1>1. CASE ConsumerLoops
  <2>1. /\ pc[p] = "loop" /\ Leads(ProcTask(p)) /\ UNCHANGED <<play, hold, speaking, idle, then, inbox>>
    BY <1>1, RunsLeads DEF ConsumerLoops, plan, voice, tone, caller, patience
  <2>2. CASE Return(p, WakeRun)
    BY <1>p, <2>1, <2>2, LoopReturns
  <2>3. MayGo(p, "get")
    BY <1>p, <2>1 DEF MayGo, Early, Unspoken, Spoken, Talking
  <2>4. CASE inbox = <<>> /\ Suspend(p, "get", NoTask, <<>>)
    <3>1. "get" \notin Runnable /\ ~PassesBy(p, "get")
      BY DEF Runnable, OnHold, OnPlay, PassesBy, Passing
    <3>2. QueueInv'
      BY <1>p, <2>1, <2>4, <3>1, QueueAwaits DEF LoopInv
    <3>3. SoundsFade(p, "get") /\ pc' = [pc EXCEPT ![p] = "get"]
      BY <2>1, <2>4, Fades, GoesTo
    <3> QED BY <1>p, <2>1, <2>3, <3>2, <3>3, RoleGoes DEF LoopInv
  <2>5. CASE Continue(p, "get")
    BY <1>p, <2>1, <2>3, <2>5, LoopMoves
  <2> QED BY <1>1, <2>2, <2>4, <2>5 DEF ConsumerLoops
<1>2. CASE ConsumerEnds
  <2>1. /\ pc[p] = "get" /\ Leads(ProcTask(p)) /\ UNCHANGED <<play, hold, speaking, idle, then>>
        /\ Return(p, WakeRun)
    BY <1>2, RunsLeads DEF ConsumerEnds, plan, voice, tone, patience
  <2> QED BY <1>p, <2>1, LoopReturns
<1>3. CASE FrameDropped
  <2>1. /\ pc[p] = "get" /\ Leads(ProcTask(p)) /\ UNCHANGED <<play, hold, speaking, idle, then>>
        /\ Continue(p, "loop")
    BY <1>3, RunsLeads DEF FrameDropped, TakesFrame, plan, voice, tone, patience
  <2>2. MayGo(p, "loop")
    BY <1>p, <2>1 DEF MayGo, Early, Unspoken, Spoken, Talking
  <2> QED BY <1>p, <2>1, <2>2, LoopMoves
<1>4. CASE BargeIn
  <2>1. /\ pc[p] = "get" /\ Leads(ProcTask(p)) /\ UNCHANGED <<hold, speaking, idle, then>>
        /\ CancelPlayback(p, "barge in")
    BY <1>4, RunsLeads DEF BargeIn, TakesFrame, plan, tone, patience
  <2>2. QueueInv'
    <3>1. "barge in" \in OnPlay
      BY DEF OnPlay
    <3> QED BY <1>p, <2>1, <3>1, QueueCancelPlayback DEF LoopInv
  <2>3. MayGo(p, "barge in")
    BY <1>p, <2>1 DEF MayGo, Early, Unspoken, Spoken, Talking
  <2>4. SoundsFade(p, "barge in") /\ pc' = [pc EXCEPT ![p] = "barge in"]
    BY <2>1, Fades, GoesTo
  <2> QED BY <1>p, <2>1, <2>2, <2>3, <2>4, RoleGoes DEF LoopInv
<1>5. CASE BargeInSent
  <2>1. /\ pc[p] = "barge in" /\ Leads(ProcTask(p)) /\ UNCHANGED <<play, hold, idle, then, inbox>>
        /\ speaking' = None /\ Continue(p, "listen")
    BY <1>p, <1>5, RunsLeads, SendContinues DEF Sends, BargeInSent, plan, tone, caller, patience
  <2>2. MayGo(p, "listen")
    BY <1>p, <2>1 DEF MayGo, Early, Unspoken, Spoken, Talking
  <2> QED BY <1>p, <2>1, <2>2, LoopMoves
<1>6. CASE BargeInListens
  <2>1. /\ pc[p] = "listen" /\ Leads(ProcTask(p)) /\ UNCHANGED <<play, hold, speaking, then, inbox>>
        /\ idle' = 0 /\ Continue(p, "loop")
    BY <1>p, <1>6, RunsLeads, SendContinues DEF Sends, BargeInListens, plan, tone, voice
  <2>2. MayGo(p, "loop")
    BY <1>p, <2>1 DEF MayGo, Early, Unspoken, Spoken, Talking
  <2> QED BY <1>p, <2>1, <2>2, LoopMoves
<1>7. CASE FrameHeard
  <2>1. /\ pc[p] = "get" /\ Leads(ProcTask(p)) /\ UNCHANGED <<play, hold, speaking, then>>
        /\ idle' \in {idle, 0} /\ Continue(p, "loop")
    BY <1>p, <1>7, RunsLeads, SendContinues DEF Sends, FrameHeard, TakesFrame, plan, tone, voice, patience
  <2>2. MayGo(p, "loop")
    BY <1>p, <2>1 DEF MayGo, Early, Unspoken, Spoken, Talking
  <2> QED BY <1>p, <2>1, <2>2, LoopMoves
<1>8. ASSUME NEW t \in Turns, TurnOpens(t) PROVE LoopInv'
  BY <1>8, TurnOpensLoop
<1> QED BY <1>1, <1>2, <1>3, <1>4, <1>5, <1>6, <1>7, <1>8 DEF ConsumerStep

\* Stopping the tone on the way somewhere.
LEMMA LoopStopsHold ==
  ASSUME TypeOK, LoopInv, NEW p \in Proc, NEW l \in OnHold, ~PassesBy(p, l), MayGo(p, l),
         Leads(ProcTask(p)), StopHold(p, l), UNCHANGED <<play, speaking, idle, inbox>>
  PROVE  LoopInv'
<1>1. QueueInv'
  BY QueueStopHold DEF LoopInv
<1>2. SoundsFade(p, l) /\ pc' = [pc EXCEPT ![p] = l] /\ pc[p] # "idle"
  BY Fades, GoesTo, LeadsLives DEF LoopInv, Live
<1> QED BY <1>1, <1>2, RoleGoes DEF LoopInv

\* _process_turn() keeps the loop in order.
LEMMA TurnLoop ==
  ASSUME TypeOK, LoopInv, Unhindered, TurnStep
  PROVE  LoopInv'
<1> PICK t \in Turns :
      \/ TurnStarts(t) \/ TurnEmpty(t) \/ TurnUnheard(t) \/ TurnFixedLine(t)
      \/ TurnLine(t) \/ TurnAsks(t) \/ TurnAnswered(t) \/ TurnFailed(t)
      \/ TurnSpeaks(t) \/ TurnRecorded(t)
      \/ TurnListens(t) \/ TurnTransfers(t) \/ TurnEndsCall(t)
  BY DEF TurnStep
<1>t. t \in Proc /\ t \in Speaker /\ t \notin Hanger /\ t \notin {"run", "consumer", "watchdog", "reader"}
  BY Kinds
<1>a. Resumes(t) = {"spoken", "act"}
  BY <1>t DEF Resumes
<1>b. ASSUME NEW l \in {"unheard", "line", "enter", "spoken", "act", "hangup", "stt", "respond", "answered"},
             pc[t] \in Unspoken \/ (l \notin Unspoken /\ pc[t] \in {"spoken", "act"}),
             l \in Spoken => then'[t] \in Resumes(t),
             \A s \in Speaker \ {t} : then'[s] = then[s]
      PROVE  MayGo(t, l)
  <2>1. ~Talking(t)
    BY <1>b DEF Talking, Unspoken
  <2>2. l \in (Unspoken \ {"start"}) \cup {"spoken", "act", "hangup"} /\ l # "speaking"
    BY <1>b DEF Unspoken
  <2> QED BY <1>t, <1>b, <2>1, <2>2 DEF MayGo
<1>c. ASSUME NEW l \in {"line", "answered", "enter", "spoken", "act", "hangup"}, NEW m, Runs(t, m),
             pc[t] \in Unspoken \/ (l \notin Unspoken /\ pc[t] \in {"spoken", "act"}),
             l \in Spoken => then'[t] \in Resumes(t),
             \A s \in Speaker \ {t} : then'[s] = then[s],
             Continue(t, l), UNCHANGED <<play, hold, speaking, idle, inbox>>
      PROVE  LoopInv'
  <2>1. MayGo(t, l)
    BY <1>b, <1>c
  <2> QED BY <1>t, <1>c, <2>1, LoopMoves, RunsLeads
<1>d. ASSUME NEW l \in {"unheard", "enter"}, NEW m, Runs(t, m), pc[t] \in Unspoken,
             l \in Spoken => then[t] \in Resumes(t),
             StopHold(t, l), UNCHANGED <<play, speaking, idle, inbox, then>>
      PROVE  LoopInv'
  <2>1. MayGo(t, l) /\ l \in OnHold /\ ~PassesBy(t, l)
    BY <1>b, <1>d, <1>t DEF PassesBy, Passing, OnHold
  <2> QED BY <1>t, <1>d, <2>1, LoopStopsHold, RunsLeads
<1>e. ASSUME NEW l \in {"stt", "respond"}, NEW m, Runs(t, m), pc[t] \in Unspoken,
             Suspend(t, l, NoTask, <<>>), UNCHANGED <<play, speaking, idle, inbox, then>>,
             hold' = hold \/ (m = "start" /\ l = "stt" /\ hold' = [hold EXCEPT ![t] = "on"])
      PROVE  LoopInv'
  <2>1. l \notin Spoken /\ l \notin Runnable /\ ~PassesBy(t, l) /\ l \notin {"idle", "done", "get", "start"}
    BY <1>t DEF Spoken, Runnable, OnHold, OnPlay, PassesBy, Passing
  <2>2. MayGo(t, l)
    BY <1>b, <1>e, <2>1
  <2>3. Leads(ProcTask(t)) /\ pc[t] = m
    BY <1>e, RunsLeads
  <2>4. \A w \in Turns : hold'[w] = hold[w] \/ (hold[w] = "over" /\ hold'[w] = "on" /\ t = w /\ l # "start")
    <3>1. CASE hold' = hold
      BY <3>1
    <3>2. CASE m = "start" /\ l = "stt" /\ hold' = [hold EXCEPT ![t] = "on"]
      BY <2>3, <3>2 DEF LoopInv, RoleInv, Silent, TypeOK, SoundOK
    <3> QED BY <1>e, <3>1, <3>2
  <2> QED BY <1>t, <1>e, <2>1, <2>2, <2>3, <2>4, LoopMoves
<1>f. ASSUME NEW m, m \notin {"announced", "speaking"}, Runs(t, m), Return(t, <<>>),
             UNCHANGED <<play, hold, speaking, idle, inbox, then>>
      PROVE  LoopInv'
  BY <1>t, <1>f, LoopReturns, RunsLeads DEF Talking
<1>g. {"start", "stt", "respond", "line", "answered"} \subseteq Unspoken
  BY DEF Unspoken
<1>1. CASE TurnStarts(t)
  <2>1. Runs(t, "start") /\ Suspend(t, "stt", NoTask, <<>>) /\ UNCHANGED <<play, speaking, idle, inbox, then>>
    BY <1>1 DEF TurnStarts, plan, voice, caller, patience
  <2>2. hold' = hold \/ hold' = [hold EXCEPT ![t] = "on"]
    BY <1>1 DEF TurnStarts, tone
  <2> QED BY <1>e, <1>g, <2>1, <2>2, RunsLeads
<1>2. CASE TurnEmpty(t)
  <2>1. Runs(t, "stt") /\ StopHold(t, "unheard") /\ UNCHANGED <<play, speaking, idle, inbox, then>>
    BY <1>2 DEF TurnEmpty, plan, voice, caller, patience
  <2>2. "unheard" \notin Spoken
    BY DEF Spoken
  <2> QED BY <1>d, <1>g, <2>1, <2>2, RunsLeads
<1>3. CASE TurnUnheard(t)
  <2>1. Runs(t, "unheard") /\ Return(t, <<>>) /\ UNCHANGED <<play, hold, speaking, idle, inbox, then>>
    BY <1>3 DEF TurnUnheard, plan, voice, tone, caller, patience
  <2> QED BY <1>f, <2>1
<1>4. CASE TurnFixedLine(t)
  <2>1. Runs(t, "stt") /\ Continue(t, "line") /\ UNCHANGED <<play, hold, speaking, idle, inbox>>
    BY <1>t, <1>4, RunsLeads, SendContinues DEF Sends, TurnFixedLine, voice, tone, patience
  <2>2. then' = [then EXCEPT ![t] = "act"] \/ then' = [then EXCEPT ![t] = "spoken"]
    BY <1>4 DEF TurnFixedLine
  <2>3. then'[t] \in Resumes(t) /\ \A s \in Speaker \ {t} : then'[s] = then[s]
    BY <1>t, <1>a, <2>2 DEF TypeOK, PlanOK
  <2> QED BY <1>c, <1>g, <2>1, <2>3, RunsLeads
<1>5. CASE TurnLine(t)
  <2>1. Runs(t, "line") /\ StopHold(t, "enter") /\ UNCHANGED <<play, speaking, idle, inbox, then>>
    BY <1>5 DEF TurnLine, plan, voice, caller, patience
  <2>2. then[t] \in Resumes(t)
    BY <1>t, <2>1, RunsLeads DEF LoopInv, RoleInv, Plans
  <2> QED BY <1>d, <1>g, <2>1, <2>2, RunsLeads
<1>6. CASE TurnAsks(t)
  <2>1. Runs(t, "stt") /\ Suspend(t, "respond", NoTask, <<>>) /\ UNCHANGED <<play, hold, speaking, idle, inbox, then>>
    BY <1>6 DEF TurnAsks, plan, voice, tone, caller, patience
  <2> QED BY <1>e, <1>g, <2>1, RunsLeads
<1>7. CASE TurnAnswered(t)
  <2>1. Runs(t, "respond") /\ Continue(t, "answered") /\ UNCHANGED <<play, hold, speaking, idle, inbox>>
        /\ then' = [then EXCEPT ![t] = "spoken"]
    BY <1>t, <1>7, RunsLeads, SendContinues DEF Sends, TurnAnswered, voice, tone, patience
  <2>2. then'[t] \in Resumes(t) /\ \A s \in Speaker \ {t} : then'[s] = then[s]
    BY <1>t, <1>a, <2>1 DEF TypeOK, PlanOK
  <2> QED BY <1>c, <1>g, <2>1, <2>2, RunsLeads
<1>8. CASE TurnFailed(t)
  <2>1. Runs(t, "respond") /\ Continue(t, "line") /\ UNCHANGED <<play, hold, speaking, idle, inbox>>
        /\ then' = [then EXCEPT ![t] = "act"]
    BY <1>t, <1>8, RunsLeads, SendContinues DEF Sends, TurnFailed, voice, tone, caller, patience
  <2>2. then'[t] \in Resumes(t) /\ \A s \in Speaker \ {t} : then'[s] = then[s]
    BY <1>t, <1>a, <2>1 DEF TypeOK, PlanOK
  <2> QED BY <1>c, <1>g, <2>1, <2>2, RunsLeads
<1>9. CASE TurnSpeaks(t)
  <2>1. Runs(t, "answered") /\ (Continue(t, "enter") \/ Continue(t, "spoken"))
        /\ UNCHANGED <<play, hold, speaking, idle, inbox, then>>
    BY <1>9 DEF TurnSpeaks, plan, voice, tone, caller, patience
  <2>2. then'[t] \in Resumes(t)
    BY <1>t, <2>1, RunsLeads DEF LoopInv, RoleInv, Plans
  <2> QED BY <1>c, <1>g, <2>1, <2>2, RunsLeads
<1>10. CASE TurnRecorded(t)
  <2>1. Runs(t, "spoken") /\ Continue(t, "act") /\ UNCHANGED <<play, hold, speaking, idle, inbox, then>>
    BY <1>t, <1>10, RunsLeads, SendContinues DEF Sends, TurnRecorded, plan, voice, tone, patience
  <2>2. "act" \notin Spoken /\ "act" \notin Unspoken
    BY DEF Spoken, Unspoken
  <2> QED BY <1>c, <2>1, <2>2, RunsLeads
<1>11. CASE TurnListens(t)
  <2>1. Runs(t, "act") /\ Return(t, <<>>) /\ UNCHANGED <<play, hold, speaking, idle, inbox, then>>
    BY <1>11 DEF TurnListens, plan, voice, tone, caller, patience
  <2> QED BY <1>f, <2>1
<1>12. CASE TurnTransfers(t) \/ TurnEndsCall(t)
  <2>1. Runs(t, "act") /\ Continue(t, "hangup") /\ UNCHANGED <<play, hold, speaking, idle, inbox, then>>
    BY <1>t, <1>12, RunsLeads, SendContinues DEF Sends, TurnTransfers, TurnEndsCall, plan, voice, tone, caller, patience
  <2>2. "hangup" \notin Spoken /\ "hangup" \notin Unspoken
    BY DEF Spoken, Unspoken
  <2> QED BY <1>c, <2>1, <2>2, RunsLeads
<1> QED
  BY <1>1, <1>2, <1>3, <1>4, <1>5, <1>6, <1>7, <1>8, <1>9, <1>10, <1>11, <1>12

\* _watchdog() keeps the loop in order.
LEMMA WatchdogLoop ==
  ASSUME TypeOK, LoopInv, Unhindered, WatchdogStep
  PROVE  LoopInv'
<1> DEFINE p == "watchdog"
<1>p. p \in Proc /\ p \in Speaker /\ p \notin Turns /\ p \notin Hanger
  BY Kinds
<1>u. UNCHANGED <<play, hold, speaking, idle, inbox>>
  BY DEF WatchdogStep, WatchdogLoops, WatchdogTimesOut, WatchdogPasses, WatchdogAsks, WatchdogClosing,
         WatchdogCloses, voice, tone, caller, patience
<1>a. Resumes(p) = {"again", "closing"}
  BY DEF Resumes
<1>1. CASE WatchdogLoops
  <2>1. pc[p] = "again" /\ Leads(ProcTask(p)) /\ then' = then
    BY <1>1, RunsLeads DEF WatchdogLoops, plan
  <2>2. CASE Return(p, <<>>)
    BY <1>p, <1>u, <2>1, <2>2, LoopReturns DEF Talking
  <2>3. CASE Suspend(p, "tick", NoTask, <<>>)
    <3>1. MayGo(p, "tick") /\ "tick" \notin Runnable /\ ~PassesBy(p, "tick")
      BY <1>p, <1>u, <2>1 DEF MayGo, Runnable, OnHold, OnPlay, PassesBy, Passing, Spoken, Unspoken, Talking
    <3> QED BY <1>p, <1>u, <2>1, <2>3, <3>1, LoopMoves
  <2> QED BY <1>1, <2>2, <2>3 DEF WatchdogLoops
<1>2. CASE WatchdogTimesOut \/ WatchdogPasses \/ WatchdogCloses
  <2>1. pc[p] \in {"tick", "closing"} /\ Leads(ProcTask(p)) /\ then' = then
        /\ (Continue(p, "hangup") \/ Continue(p, "again"))
    BY <1>2, RunsLeads DEF WatchdogTimesOut, WatchdogPasses, WatchdogCloses, plan
  <2>2. MayGo(p, "hangup") /\ MayGo(p, "again")
    BY <1>p, <1>u, <2>1 DEF MayGo, Spoken, Unspoken, Talking
  <2> QED BY <1>p, <1>u, <2>1, <2>2, LoopMoves
<1>3. CASE WatchdogAsks \/ WatchdogClosing
  <2>1. /\ pc[p] = "tick" /\ Leads(ProcTask(p)) /\ Continue(p, "enter")
        /\ then' = [then EXCEPT ![p] = "again"] \/ then' = [then EXCEPT ![p] = "closing"]
    BY <1>3, RunsLeads DEF WatchdogAsks, WatchdogClosing
  <2>2. idle # 0
    <3>1. PromptAfter \in {1, 2} /\ HangupAfter \in {1, 2}
      BY PatienceAssumption
    <3>2. idle >= PromptAfter \/ idle >= HangupAfter
      BY <1>3 DEF WatchdogAsks, WatchdogClosing, MustAsk, MustClose
    <3>3. idle \in 0..2
      BY DEF TypeOK, CallerOK
    <3> QED BY <3>1, <3>2, <3>3
  <2>3. then'[p] \in Resumes(p) /\ \A s \in Speaker \ {p} : then'[s] = then[s]
    BY <1>p, <1>a, <2>1 DEF TypeOK, PlanOK
  <2>4. MayGo(p, "enter")
    BY <1>p, <1>u, <2>1, <2>2, <2>3 DEF MayGo, Spoken, Unspoken, Talking
  <2> QED BY <1>p, <1>u, <2>1, <2>4, LoopMoves
<1> QED BY <1>1, <1>2, <1>3 DEF WatchdogStep

\* No run(), consumer or watchdog is ever awaited by the watchdog or the consumer, so that
\* cancelling these strikes them themselves.
LEMMA ReachedSelf ==
  ASSUME TypeOK, QueueInv, NEW p \in {"watchdog", "consumer"}
  PROVE  Reached(p) = p
<1>1. p \in Proc
  BY Kinds
<1>2. joining[p] = NoTask \/ (\E s \in Speaker : joining[p] = PlayTask(s)) \/ (\E t \in Turns : joining[p] = HoldTask(t))
  BY <1>1 DEF QueueInv, InPlace, MayAwait
<1> QED BY <1>2 DEF Reached, NoTask, PlayTask, HoldTask

\* The finally block keeps the loop in order when it cancels the watchdog and the consumer.
LEMMA RunFinalLoop ==
  ASSUME TypeOK, LoopInv, RunFinal
  PROVE  LoopInv'
<1> DEFINE C == Struck("watchdog") \cup Struck("consumer")
           q == Woken("watchdog") \o Woken("consumer")
           r == "run"
<1>p. r \in Proc /\ r \notin Hanger /\ r \notin Turns /\ "watchdog" \in Proc /\ "consumer" \in Proc
  BY Kinds
<1>1. /\ pc[r] \in {"final", "waiting"} /\ Leads(ProcTask(r))
      /\ UNCHANGED <<play, hold, speaking, idle, then, inbox>>
      /\ cancelled' = (cancelled \cup C) \ {r}
      /\ pc' = [pc EXCEPT ![r] = "join consumer"]
      /\ joining' = [joining EXCEPT ![r] = IF Live("watchdog") THEN ProcTask("watchdog") ELSE NoTask]
  BY RunsLeads DEF RunFinal, plan, voice, tone, caller, patience
<1>2. /\ pc'[r] = "join consumer" /\ \A w \in Proc \ {r} : pc'[w] = pc[w]
      /\ joining'[r] = IF Live("watchdog") THEN ProcTask("watchdog") ELSE NoTask
      /\ \A w \in Proc \ {r} : joining'[w] = joining[w]
  BY <1>1, <1>p DEF TypeOK, ControlOK
<1>3. /\ C \in SUBSET (Proc \ {r})
      /\ \A w \in C : Live(w) /\ joining[w] = NoTask
      /\ \A w \in C : Here(ProcTask(w)) \/ In(ProcTask(w), Woken("watchdog")) \/ In(ProcTask(w), Woken("consumer"))
      /\ \A y : In(y, Woken("watchdog")) => y = ProcTask("watchdog") /\ "watchdog" \in C
      /\ \A y : In(y, Woken("consumer")) => y = ProcTask("consumer") /\ "consumer" \in C
      /\ Fresh(Woken("watchdog")) /\ Fresh(Woken("consumer"))
  BY <1>p, ReachedSelf, CancelFacts DEF LoopInv
<1>4. Fresh(q) /\ \A y : In(y, q) <=> In(y, Woken("watchdog")) \/ In(y, Woken("consumer"))
  <2>1. \A y : ~(In(y, Woken("watchdog")) /\ In(y, Woken("consumer")))
    BY <1>3, Names
  <2> QED BY <1>3, <2>1, FreshConcat
<1>5. ready' = (IF Live("watchdog") THEN Tail(ready) ELSE ready) \o q
  <2>1. /\ ready \in Seq(Task) /\ Tail(ready) \in Seq(Task)
        /\ Woken("watchdog") \in Seq(Task) /\ Woken("consumer") \in Seq(Task)
    BY <1>1, <1>3, HeadTailProperties DEF Leads, Fresh, TypeOK, ControlOK
  <2>2. ready' = (IF Live("watchdog") THEN Tail(ready) ELSE ready) \o Woken("watchdog") \o Woken("consumer")
    BY DEF RunFinal
  <2> DEFINE r0 == IF Live("watchdog") THEN Tail(ready) ELSE ready
             v0 == Woken("watchdog")
             v1 == Woken("consumer")
  <2>3. r0 \in Seq(Task) /\ v0 \in Seq(Task) /\ v1 \in Seq(Task)
    BY <2>1
  <2>4. ready' = (r0 \o v0) \o v1
    BY <2>2
  <2> HIDE DEF r0, v0, v1
  <2>5. (r0 \o v0) \o v1 = r0 \o (v0 \o v1)
    BY <2>3, ConcatAssociative
  <2> QED BY <2>4, <2>5 DEF r0, v0, v1
<1>6. /\ \A w \in C : Here(ProcTask(w)) \/ In(ProcTask(w), q)
      /\ \A w \in Proc : In(ProcTask(w), q) => w \in C
      /\ \A w : ~In(PlayTask(w), q) /\ ~In(HoldTask(w), q)
  BY <1>3, <1>4, Names
<1>7. SoundsFade(r, "join consumer") /\ MayGo(r, "join consumer")
  BY <1>1, <1>p, Fades DEF MayGo, Spoken, Unspoken, Talking, Early
<1>8. Here(ProcTask(r)) /\ pc[r] # "idle" /\ ~PassesBy(r, "join consumer")
  BY <1>1, <1>p, LeadsLives DEF LoopInv, PassesBy, Passing
<1> HIDE DEF q, C
<1>9. QueueInv'
  <2>1. CASE Live("watchdog")
    <3>1. SoundsCut(q)
      BY <1>1, <1>6 DEF SoundsCut
    <3>2. MayAwait(r, "join consumer", ProcTask("watchdog")) /\ (Alive(ProcTask("watchdog")))'
          /\ ProcTask("watchdog") # NoTask
      <4>1. pc'["watchdog"] = pc["watchdog"]
        BY <1>2, <1>p
      <4> QED BY <2>1, <4>1, <1>p, Names DEF MayAwait, Alive, Live
    <3>3. /\ joining' = [joining EXCEPT ![r] = ProcTask("watchdog")] /\ ready' = Tail(ready) \o q
          /\ "join consumer" \notin {"idle", "done"}
      BY <1>1, <1>5, <2>1
    <3>4. \A w \in C : Live(w) /\ joining[w] = NoTask /\ (Here(ProcTask(w)) \/ In(ProcTask(w), q))
      BY <1>3, <1>6
    <3> QED BY <1>p, <1>1, <1>3, <1>4, <1>6, <1>8, <3>1, <3>2, <3>3, <3>4, QueueSuspend DEF LoopInv
  <2>2. CASE ~Live("watchdog")
    <3> DEFINE A == {r}
    <3>1. A \in SUBSET Proc /\ C \in SUBSET Proc /\ \A w : w \in A <=> w = r
      BY <1>p, <1>3
    <3> HIDE DEF A
    <3>2. /\ ready' = ready \o q /\ joining'[r] = NoTask
      BY <1>2, <1>5, <2>2
    <3>3. \A w \in Proc \ A : joining'[w] = joining[w] /\ pc'[w] = pc[w]
      BY <1>2, <3>1
    <3>4. \A w \in A :
           /\ joining'[w] = NoTask /\ pc'[w] \notin {"idle", "done"}
           /\ Here(ProcTask(w)) /\ ~PassesBy(w, pc'[w])
      BY <1>2, <1>8, <3>1, <3>2
    <3>5. \A w \in C : ~PassesBy(w, pc[w]) \/ w \in A
      <4> SUFFICES ASSUME NEW w \in C, PassesBy(w, pc[w]) PROVE w \in A
        OBVIOUS
      <4>1. InPlace(w)
        BY <1>3 DEF LoopInv, QueueInv
      <4>2. Leads(ProcTask(w))
        BY <4>1 DEF InPlace
      <4>3. \A u : Leads(ProcTask(u)) => u = r
        BY <1>1, Names DEF Leads
      <4> QED BY <3>1, <4>2, <4>3
    <3>6. \A w \in Proc : In(ProcTask(w), q) => Live(w) /\ joining[w] = NoTask
      BY <1>3, <1>6
    <3>7. cancelled' \subseteq cancelled \cup C
      BY <1>1
    <3>8. /\ \A w \in Proc \ A :
              /\ joining'[w] = joining[w]
              /\ pc'[w] = pc[w] \/ (w = "reader" /\ pc[w] = "bounded" /\ pc'[w] = "expired")
          /\ \A w \in A :
              /\ joining'[w] = NoTask /\ pc'[w] \notin {"idle", "done"}
              /\ Here(ProcTask(w)) \/ In(ProcTask(w), q)
              /\ PassesBy(w, pc'[w]) => Leads(ProcTask(w)) /\ w \notin cancelled'
      BY <3>3, <3>4
    <3>9. /\ \A w \in C :
              /\ Here(ProcTask(w)) \/ In(ProcTask(w), q)
              /\ ~PassesBy(w, pc[w]) \/ w \in A
          /\ \A w \in Proc : In(ProcTask(w), q) => w \in A \/ (Live(w) /\ joining[w] = NoTask)
      BY <1>6, <3>5, <3>6
    <3>10. /\ \A s \in Speaker : play'[s] = play[s] /\ ~In(PlayTask(s), q)
           /\ \A t \in Turns : ~In(HoldTask(t), q)
           /\ hold' = hold /\ inbox' = inbox /\ Fresh(q) /\ ready' = ready \o q
      BY <1>1, <1>4, <1>6, <3>2
    <3> QED BY <3>1, <3>7, <3>8, <3>9, <3>10, QueueGrows DEF LoopInv
  <2> QED BY <2>1, <2>2
<1>10. RoleInv'
  BY <1>p, <1>1, <1>7, <1>8, RoleGoes DEF LoopInv
<1> QED BY <1>9, <1>10 DEF LoopInv

\* _finish() keeps the loop in order when it cancels the turn in flight.
LEMMA FinishTurnLoop ==
  ASSUME TypeOK, LoopInv, FinishTurn
  PROVE  LoopInv'
<1> DEFINE r == "run"
<1>p. r \in Proc /\ r \notin Hanger /\ r \notin Turns
  BY Kinds
<1>1. /\ pc[r] = "stop turn" /\ Leads(ProcTask(r)) /\ speaking' = None
      /\ UNCHANGED <<play, hold, idle, then, inbox>>
  BY RunsLeads DEF FinishTurn, plan, tone, caller, patience
<1>2. MayGo(r, "settle")
  BY <1>p, <1>1 DEF MayGo, Spoken, Unspoken, Talking, Early
<1>3. CASE Continue(r, "settle")
  BY <1>p, <1>1, <1>2, <1>3, LoopMoves
<1>4. CASE turnTask # None /\ Live(turnTask)
  <2>1. PICK t \in Turns : t = turnTask
    BY <1>4 DEF TypeOK, CallerOK
  <2> DEFINE C == Struck(t)
             q == Woken(t)
  <2>2. /\ cancelled' = (cancelled \cup C) \ {r} /\ pc' = [pc EXCEPT ![r] = "settle"]
        /\ joining' = [joining EXCEPT ![r] = ProcTask(t)] /\ ready' = Tail(ready) \o q
    BY <1>4, <2>1 DEF FinishTurn
  <2>3. Reached(t) # r
    <3>1. ~(t = "run" \/ t = "reader")
      BY Kinds
    <3>2. joining[t] = NoTask \/ (\E s \in Speaker : joining[t] = PlayTask(s)) \/ (\E h \in Turns : joining[t] = HoldTask(h))
      BY <3>1, Kinds DEF LoopInv, QueueInv, InPlace, MayAwait
    <3>3. Reached(t) = t
      BY <3>2 DEF Reached, NoTask, PlayTask, HoldTask
    <3> QED BY <3>1, <3>3
  <2>4. /\ C \in SUBSET (Proc \ {r}) /\ Fresh(q)
        /\ \A w \in C : Live(w) /\ joining[w] = NoTask /\ (Here(ProcTask(w)) \/ In(ProcTask(w), q))
        /\ \A y : In(y, q) => \E w \in C : y = ProcTask(w)
    BY <2>3, CancelFacts, Kinds DEF LoopInv
  <2> HIDE DEF C, q
  <2>5. /\ \A w \in Proc : In(ProcTask(w), q) => w \in C
        /\ \A w : ~In(PlayTask(w), q) /\ ~In(HoldTask(w), q)
    BY <2>4, Names
  <2>6. SoundsCut(q)
    BY <1>1, <2>5 DEF SoundsCut
  <2>7. MayAwait(r, "settle", ProcTask(t)) /\ (Alive(ProcTask(t)))' /\ ProcTask(t) # NoTask
    <3>1. pc'[t] = pc[t]
      BY <2>2, Kinds DEF TypeOK, ControlOK
    <3> QED BY <1>4, <2>1, <3>1, Kinds, Names DEF MayAwait, Alive, Live
  <2>8. ~PassesBy(r, "settle") /\ "settle" \notin {"idle", "done"}
    BY <1>p DEF PassesBy, Passing
  <2>9. QueueInv'
    BY <1>p, <1>1, <2>2, <2>4, <2>5, <2>6, <2>7, <2>8, QueueSuspend DEF LoopInv
  <2>10. SoundsFade(r, "settle") /\ pc[r] # "idle"
    BY <1>1, Fades
  <2> QED BY <1>p, <1>2, <2>2, <2>9, <2>10, RoleGoes DEF LoopInv
<1> QED BY <1>3, <1>4 DEF FinishTurn

\* run() keeps the loop in order when it starts the watchdog and the consumer.
LEMMA RunStartsLoop ==
  ASSUME TypeOK, LoopInv, RunStarts
  PROVE  LoopInv'
<1> DEFINE q == <<ProcTask("watchdog"), ProcTask("consumer")>>
           A == {"run", "watchdog", "consumer"}
           none == {}
<1>1. /\ pc["run"] = "connected" /\ Leads(ProcTask("run")) /\ "run" \notin cancelled
      /\ UNCHANGED <<play, hold, speaking, idle, inbox, joining, cancelled>>
      /\ then' = [then EXCEPT !["run"] = "greeted"] /\ ready' = ready \o q
  <2>1. Runs("run", "connected") /\ "connected" \notin Suppressing
    BY DEF RunStarts, Suppressing
  <2> QED BY <2>1, RunsLeads DEF RunStarts, voice, tone, caller, patience
<1>2. /\ pc'["run"] = "enter" /\ pc'["watchdog"] = "again" /\ pc'["consumer"] = "loop"
      /\ \A w \in Proc \ A : pc'[w] = pc[w]
  BY Kinds DEF RunStarts, TypeOK, ControlOK
<1>3. pc["watchdog"] = "idle" /\ pc["consumer"] = "idle" /\ \A t \in Turns : pc[t] = "idle"
  BY <1>1 DEF LoopInv, RoleInv, Alone, Early
<1>4. \A w \in {"watchdog", "consumer"} : joining[w] = NoTask /\ ~Here(ProcTask(w))
  <2>1. \A w \in {"watchdog", "consumer"} : ~MayAwait(w, pc[w], joining[w]) /\ ~Live(w)
    BY <1>3 DEF MayAwait, OnPlay, OnHold, Live
  <2> QED BY <2>1, Kinds DEF LoopInv, QueueInv, InPlace
<1>5. joining["run"] = NoTask /\ Here(ProcTask("run"))
  BY <1>1, Kinds, LeadsLives DEF LoopInv
<1>6. Fresh(q) /\ \A y : In(y, q) <=> y = ProcTask("watchdog") \/ y = ProcTask("consumer")
  <2>1. /\ Fresh(<<ProcTask("watchdog")>>) /\ \A y : In(y, <<ProcTask("watchdog")>>) <=> y = ProcTask("watchdog")
        /\ Fresh(<<ProcTask("consumer")>>) /\ \A y : In(y, <<ProcTask("consumer")>>) <=> y = ProcTask("consumer")
    <3>1. ProcTask("watchdog") \in Task /\ ProcTask("consumer") \in Task
      BY TaskNames, Kinds
    <3> QED BY <1>4, <3>1, FreshOne
  <2>2. q = <<ProcTask("watchdog")>> \o <<ProcTask("consumer")>>
    OBVIOUS
  <2>3. ProcTask("watchdog") # ProcTask("consumer")
    BY Names
  <2>4. \A y : ~(In(y, <<ProcTask("watchdog")>>) /\ In(y, <<ProcTask("consumer")>>))
    BY <2>1, <2>3
  <2> DEFINE a == <<ProcTask("watchdog")>>
             b == <<ProcTask("consumer")>>
  <2>5. /\ Fresh(a) /\ Fresh(b) /\ q = a \o b /\ \A y : ~(In(y, a) /\ In(y, b))
        /\ \A y : In(y, a) <=> y = ProcTask("watchdog")
        /\ \A y : In(y, b) <=> y = ProcTask("consumer")
    BY <2>1, <2>2, <2>4
  <2> HIDE DEF a, b, q
  <2>6. Fresh(a \o b) /\ \A y : In(y, a \o b) <=> In(y, a) \/ In(y, b)
    BY <2>5, FreshConcat
  <2> QED BY <2>5, <2>6
<1>7. A \in SUBSET Proc /\ \A w : w \in A <=> w = "run" \/ w = "watchdog" \/ w = "consumer"
  BY Kinds
<1>8. none \in SUBSET Proc /\ \A w : w \notin none
  OBVIOUS
<1>9. cancelled' \subseteq cancelled \cup none
  BY <1>1
<1> HIDE DEF q, A, none
<1>10. QueueInv'
  <2>1. \A w \in Proc \ A :
          /\ joining'[w] = joining[w]
          /\ pc'[w] = pc[w] \/ (w = "reader" /\ pc[w] = "bounded" /\ pc'[w] = "expired")
    BY <1>1, <1>2
  <2>2. \A w \in A :
           /\ joining'[w] = NoTask /\ pc'[w] \notin {"idle", "done"}
           /\ Here(ProcTask(w)) \/ In(ProcTask(w), q)
           /\ PassesBy(w, pc'[w]) => Leads(ProcTask(w)) /\ w \notin cancelled'
    BY <1>1, <1>2, <1>4, <1>5, <1>6, <1>7, Kinds DEF PassesBy, Passing
  <2>3. \A w \in none :
           /\ Here(ProcTask(w)) \/ In(ProcTask(w), q)
           /\ ~PassesBy(w, pc[w]) \/ w \in A
    BY <1>8
  <2>4. \A w \in Proc : In(ProcTask(w), q) => w \in A \/ (Live(w) /\ joining[w] = NoTask)
    BY <1>6, <1>7, Names
  <2>5. /\ \A s \in Speaker : play'[s] = play[s] /\ ~In(PlayTask(s), q)
        /\ \A t \in Turns : ~In(HoldTask(t), q)
        /\ hold' = hold
    BY <1>1, <1>6, Names
  <2>6. pc'["consumer"] # "get"
    BY <1>2
  <2> QED BY <1>1, <1>6, <1>7, <1>8, <1>9, <2>1, <2>2, <2>3, <2>4, <2>5, <2>6, QueueGrows DEF LoopInv
<1>11. \A t \in Turns : pc'[t] = "idle"
  BY <1>2, <1>3, <1>7, Kinds
<1>12. \A h \in Hanger : pc'[h] = pc[h]
  BY <1>2, <1>7, Kinds
<1>13. Roles' /\ Alone'
  BY <1>2, <1>11, <1>12 DEF LoopInv, RoleInv, Roles, Alone, Early
<1>14. Plans'
  <2>1. then'["run"] = "greeted"
    BY <1>1, Kinds DEF TypeOK, PlanOK
  <2>2. \A s \in Speaker : s # "run" => pc'[s] \in {"again", "idle"}
    BY <1>2, <1>11, Kinds
  <2> QED BY <2>1, <2>2 DEF Plans, Resumes
<1>15. Silent'
  <2>1. play["run"] = "over"
    BY <1>1 DEF LoopInv, RoleInv, Silent, Early
  <2>2. play["watchdog"] \in Pending => idle = 0
    BY <1>3 DEF LoopInv, RoleInv, Silent, Talking
  <2>3. \A t \in Turns : play[t] = "over" /\ hold[t] = "over"
    BY <1>3 DEF LoopInv, RoleInv, Silent
  <2>4. speaking \notin Speaker
    BY <1>1, <1>3, Kinds DEF LoopInv, RoleInv, Silent, Talking
  <2> QED BY <1>1, <1>2, <2>1, <2>2, <2>3, <2>4 DEF Silent
<1> QED BY <1>10, <1>13, <1>14, <1>15 DEF LoopInv, RoleInv

\* run() keeps the loop in order.
LEMMA RunLoop ==
  ASSUME TypeOK, LoopInv, RunStep
  PROVE  LoopInv'
<1> DEFINE p == "run"
<1>p. p \in Proc /\ p \in Speaker /\ p \notin Turns /\ p \notin Hanger
  BY Kinds
<1>a. ASSUME NEW l \in {"connected", "waiting", "final", "stop hold", "stop playback", "stop turn",
                        "settle", "summarised", "commit"},
             l = "connected" => pc[p] \in Early, ~Talking(p), then' = then
      PROVE  MayGo(p, l)
  BY <1>p, <1>a DEF MayGo, Spoken, Unspoken
<1>b. ASSUME NEW l \in {"final", "stop hold", "settle", "summarised"}
      PROVE  l \notin {"idle", "done"}
  OBVIOUS
<1>c. ASSUME NEW l \in {"connected", "waiting", "summarised", "commit"}
      PROVE  l \notin Runnable /\ ~PassesBy(p, l) /\ l \notin {"idle", "done", "get"}
  BY <1>p DEF Runnable, OnHold, OnPlay, PassesBy, Passing
<1>1. CASE RunConnects
  <2>1. /\ pc[p] = "start" /\ Leads(ProcTask(p)) /\ UNCHANGED <<play, hold, speaking, idle, then, inbox>>
        /\ Suspend(p, "connected", NoTask, <<>>)
    BY <1>1, RunsLeads DEF RunConnects, plan, voice, tone, caller, patience
  <2>2. MayGo(p, "connected")
    BY <1>a, <2>1 DEF Talking, Early
  <2> QED BY <1>p, <1>c, <2>1, <2>2, LoopMoves
<1>2. CASE RunStarts
  BY <1>2, RunStartsLoop
<1>3. CASE RunGreeted
  <2>1. /\ pc[p] = "greeted" /\ Leads(ProcTask(p)) /\ UNCHANGED <<play, hold, speaking, idle, then, inbox>>
        /\ Continue(p, "final") \/ Suspend(p, "waiting", NoTask, <<>>)
    BY <1>3, RunsLeads DEF RunGreeted, plan, voice, tone, caller, patience
  <2>2. MayGo(p, "final") /\ MayGo(p, "waiting")
    BY <1>a, <2>1 DEF Talking
  <2> QED BY <1>p, <1>b, <1>c, <2>1, <2>2, LoopMoves
<1>4. CASE RunFinal
  BY <1>4, RunFinalLoop
<1>5. CASE RunJoinsConsumer
  <2>1. /\ pc[p] = "join consumer" /\ Leads(ProcTask(p)) /\ UNCHANGED <<play, hold, speaking, idle, then, inbox>>
    BY <1>5, RunsLeads DEF RunJoinsConsumer, plan, voice, tone, caller, patience
  <2>2. MayGo(p, "stop hold")
    BY <1>a, <2>1 DEF Talking
  <2>3. CASE Continue(p, "stop hold")
    BY <1>p, <1>b, <2>1, <2>2, <2>3, LoopMoves
  <2>4. CASE Live("consumer") /\ Suspend(p, "stop hold", ProcTask("consumer"), <<>>)
    <3> DEFINE none == {}
               q == <<>>
    <3>1. none \in SUBSET (Proc \ {p}) /\ (\A w : w \notin none) /\ Fresh(q) /\ \A y : ~In(y, q)
      BY FreshNone
    <3>2. /\ pc' = [pc EXCEPT ![p] = "stop hold"] /\ joining' = [joining EXCEPT ![p] = ProcTask("consumer")]
          /\ cancelled' = (cancelled \cup none) \ {p} /\ ready' = Tail(ready) \o q
      BY <2>4 DEF Suspend
    <3> HIDE DEF none, q
    <3>3. MayAwait(p, "stop hold", ProcTask("consumer")) /\ (Alive(ProcTask("consumer")))'
          /\ ProcTask("consumer") # NoTask
      <4>1. pc'["consumer"] = pc["consumer"]
        BY <3>2, Kinds DEF TypeOK, ControlOK
      <4> QED BY <2>4, <4>1, Kinds, Names DEF MayAwait, Alive, Live
    <3>4. ~PassesBy(p, "stop hold") /\ "stop hold" \notin {"idle", "done"}
      BY <1>p DEF PassesBy, Passing
    <3>5. SoundsCut(q)
      BY <2>1, <3>1 DEF SoundsCut
    <3>6. /\ \A w \in none : Live(w) /\ joining[w] = NoTask /\ (Here(ProcTask(w)) \/ In(ProcTask(w), q))
          /\ \A w \in Proc : In(ProcTask(w), q) => w \in none
      BY <3>1
    <3>7. QueueInv'
      BY <1>p, <2>1, <3>1, <3>2, <3>3, <3>4, <3>5, <3>6, QueueSuspend DEF LoopInv
    <3>8. SoundsFade(p, "stop hold") /\ pc[p] # "idle"
      BY <2>1, Fades
    <3> QED BY <1>p, <2>2, <3>2, <3>7, <3>8, RoleGoes DEF LoopInv
  <2> QED BY <1>5, <2>3, <2>4 DEF RunJoinsConsumer
<1>6. CASE FinishHold
  <2>1. /\ pc[p] = "stop hold" /\ Leads(ProcTask(p)) /\ UNCHANGED <<play, speaking, idle, then, inbox>>
        /\ StopHold(p, "stop playback")
    BY <1>6, RunsLeads DEF FinishHold, plan, voice, caller, patience
  <2>2. MayGo(p, "stop playback")
    BY <1>a, <2>1 DEF Talking
  <2>3. "stop playback" \in OnHold /\ ~PassesBy(p, "stop playback")
    BY <1>p DEF OnHold, PassesBy, Passing
  <2> QED BY <1>p, <2>1, <2>2, <2>3, LoopStopsHold
<1>7. CASE FinishPlayback
  <2>1. /\ pc[p] = "stop playback" /\ Leads(ProcTask(p)) /\ UNCHANGED <<hold, speaking, idle, then, inbox>>
        /\ CancelPlayback(p, "stop turn")
    BY <1>7, RunsLeads DEF FinishPlayback, plan, tone, caller, patience
  <2>2. QueueInv'
    <3>1. "stop turn" \in OnPlay
      BY DEF OnPlay
    <3> QED BY <1>p, <2>1, <3>1, QueueCancelPlayback DEF LoopInv
  <2>3. MayGo(p, "stop turn")
    BY <1>a, <2>1 DEF Talking
  <2>4. SoundsFade(p, "stop turn") /\ pc' = [pc EXCEPT ![p] = "stop turn"]
    BY <2>1, Fades, GoesTo
  <2> QED BY <1>p, <2>1, <2>2, <2>3, <2>4, RoleGoes DEF LoopInv
<1>8. CASE FinishTurn
  BY <1>8, FinishTurnLoop
<1>9. CASE FinishSettles
  <2>1. /\ pc[p] = "settle" /\ Leads(ProcTask(p)) /\ UNCHANGED <<play, hold, speaking, idle, then, inbox>>
        /\ Continue(p, "summarised") \/ Suspend(p, "summarised", NoTask, <<>>)
    BY <1>9, RunsLeads DEF FinishSettles, plan, voice, tone, caller, patience
  <2>2. MayGo(p, "summarised")
    BY <1>a, <2>1 DEF Talking
  <2> QED BY <1>p, <1>b, <1>c, <2>1, <2>2, LoopMoves
<1>10. CASE FinishDisposes
  <2>1. /\ pc[p] = "summarised" /\ Leads(ProcTask(p)) /\ UNCHANGED <<play, hold, speaking, idle, then, inbox>>
        /\ Suspend(p, "commit", NoTask, <<>>)
    BY <1>10, RunsLeads DEF FinishDisposes, plan, voice, tone, caller, patience
  <2>2. MayGo(p, "commit")
    BY <1>a, <2>1 DEF Talking
  <2> QED BY <1>p, <1>c, <2>1, <2>2, LoopMoves
<1>11. CASE FinishCommits
  <2>1. /\ pc[p] = "commit" /\ Leads(ProcTask(p)) /\ UNCHANGED <<play, hold, speaking, idle, then, inbox>>
        /\ Return(p, <<>>)
    BY <1>11, RunsLeads DEF FinishCommits, plan, voice, tone, caller, patience
  <2> QED BY <1>p, <2>1, LoopReturns DEF Talking
<1> QED BY <1>1, <1>2, <1>3, <1>4, <1>5, <1>6, <1>7, <1>8, <1>9, <1>10, <1>11 DEF RunStep

\* A task that is ended by its cancellation keeps the loop in order.
LEMMA RaiseLoop ==
  ASSUME TypeOK, LoopInv, NEW p \in Proc, Raise(p)
  PROVE  LoopInv'
<1>1. /\ Leads(ProcTask(p)) /\ UNCHANGED <<play, hold, speaking, idle, then, inbox>>
      /\ p \in cancelled /\ pc[p] \notin Suppressing
  BY DEF Raise, Leads, plan, voice, tone, caller, patience
<1>2. p \in Speaker => ~Talking(p)
  <2>1. pc[p] # "announced"
    BY <1>1 DEF LoopInv, QueueInv, InPlace, PassesBy, Passing
  <2> QED BY <1>1, <2>1 DEF Talking, Suppressing
<1>3. CASE p = "run" /\ Continue(p, "final")
  <2>1. MayGo(p, "final")
    BY <1>1, <1>2, <1>3, Kinds DEF MayGo, Early, Unspoken, Spoken
  <2> QED BY <1>1, <1>3, <2>1, LoopMoves
<1>4. CASE Return(p, IF p = "consumer" THEN WakeRun ELSE <<>>)
  <2>1. PICK q : q = IF p = "consumer" THEN WakeRun ELSE <<>>
    OBVIOUS
  <2>2. Return(p, q) /\ (q = <<>> \/ (q = WakeRun /\ p # "run"))
    BY <1>4, <2>1
  <2> QED BY <1>1, <1>2, <2>2, LoopReturns
<1> QED BY <1>3, <1>4 DEF Raise

\* Something of the world's wakes a task that sleeps.
LEMMA WakesLoop ==
  ASSUME TypeOK, LoopInv, NEW p \in Proc, NEW l,
         pc' = [pc EXCEPT ![p] = l], joining[p] = NoTask, ~Here(ProcTask(p)),
         (Live(p) /\ l = pc[p]) \/ (p \in Hanger /\ pc[p] = "idle" /\ l = "hangup"),
         Wakes(p), UNCHANGED <<play, hold, speaking, idle, then, inbox>>
  PROVE  LoopInv'
<1> DEFINE q == <<ProcTask(p)>>
           A == {p}
           none == {}
<1>1. pc'[p] = l /\ \A w \in Proc \ {p} : pc'[w] = pc[w]
  BY DEF TypeOK, ControlOK
<1>2. Fresh(q) /\ \A y : In(y, q) <=> y = ProcTask(p)
  BY FreshOne, TaskNames
<1>3. ready' = ready \o q
  BY AppendIsConcat, TaskNames DEF Wakes, TypeOK, ControlOK
<1>4. A \in SUBSET Proc /\ (\A w : w \in A <=> w = p) /\ none \in SUBSET Proc /\ \A w : w \notin none
  OBVIOUS
<1>5. cancelled' \subseteq cancelled \cup none /\ cancelled' = cancelled /\ joining' = joining
  BY DEF Wakes
<1> HIDE DEF q, A, none
<1>6. l \notin {"idle", "done"} /\ ~PassesBy(p, l)
  <2>1. CASE Live(p) /\ l = pc[p]
    <3>1. ~Leads(ProcTask(p))
      BY InTail DEF Leads, Here, LoopInv, QueueInv, TypeOK, ControlOK
    <3> QED BY <2>1, <3>1 DEF LoopInv, QueueInv, InPlace, Live
  <2>2. CASE p \in Hanger /\ pc[p] = "idle" /\ l = "hangup"
    BY <2>2, Kinds DEF PassesBy, Passing
  <2> QED BY <2>1, <2>2
<1>7. QueueInv'
  <2>1. \A w \in Proc \ A :
          /\ joining'[w] = joining[w]
          /\ pc'[w] = pc[w] \/ (w = "reader" /\ pc[w] = "bounded" /\ pc'[w] = "expired")
    BY <1>1, <1>4, <1>5
  <2>2. \A w \in A :
           /\ joining'[w] = NoTask /\ pc'[w] \notin {"idle", "done"}
           /\ Here(ProcTask(w)) \/ In(ProcTask(w), q)
           /\ PassesBy(w, pc'[w]) => Leads(ProcTask(w)) /\ w \notin cancelled'
    BY <1>1, <1>2, <1>4, <1>5, <1>6
  <2>3. \A w \in none :
           /\ Here(ProcTask(w)) \/ In(ProcTask(w), q)
           /\ ~PassesBy(w, pc[w]) \/ w \in A
    BY <1>4
  <2>4. \A w \in Proc : In(ProcTask(w), q) => w \in A \/ (Live(w) /\ joining[w] = NoTask)
    BY <1>2, <1>4, Names
  <2>5. /\ \A s \in Speaker : play'[s] = play[s] /\ ~In(PlayTask(s), q)
        /\ \A t \in Turns : ~In(HoldTask(t), q)
        /\ hold' = hold /\ inbox' = inbox
    BY <1>2, Names
  <2> QED BY <1>2, <1>3, <1>4, <1>5, <2>1, <2>2, <2>3, <2>4, <2>5, QueueGrows DEF LoopInv
<1>8. RoleInv'
  <2>1. CASE Live(p) /\ l = pc[p]
    <3>1. pc' = pc
      BY <2>1 DEF TypeOK, ControlOK
    <3> QED BY <3>1, RolesStay DEF LoopInv
  <2>2. CASE p \in Hanger /\ pc[p] = "idle" /\ l = "hangup"
    <3>1. SoundsFade(p, l)
      BY DEF SoundsFade
    <3>2. MayGo(p, l)
      BY <2>2, Kinds DEF MayGo, Early, Unspoken, Spoken, Talking
    <3> QED BY <2>2, <3>1, <3>2, RoleGoes DEF LoopInv
  <2> QED BY <2>1, <2>2
<1> QED BY <1>7, <1>8 DEF LoopInv

\* The world outside keeps the loop in order.
LEMMA EnvironmentLoop ==
  ASSUME TypeOK, LoopInv, Unhindered, Environment
  PROVE  LoopInv'
<1>a. ASSUME NEW p \in Proc, pc[p] \in {"connected", "stt", "respond", "summarised", "commit", "tick"}
      PROVE  joining[p] = NoTask
  <2>1. ~MayAwait(p, pc[p], joining[p])
    BY <1>a DEF MayAwait, OnHold, OnPlay
  <2> QED BY <2>1 DEF LoopInv, QueueInv, InPlace
<1>b. \A p : Queued(ProcTask(p)) <=> Here(ProcTask(p))
  BY DEF Queued, Here, In
<1>c. UNCHANGED pc => \A p \in Proc : pc' = [pc EXCEPT ![p] = pc[p]]
  BY DEF TypeOK, ControlOK
<1>1. CASE FrameArrives
  <2> DEFINE none == {}
             q == WakeConsumer
  <2>1. /\ ready' = ready \o q
        /\ UNCHANGED <<pc, then, joining, cancelled, play, hold, speaking, idle>>
    BY <1>1 DEF FrameArrives, plan, voice, tone, patience
  <2>2. /\ Fresh(q)
        /\ \A y : In(y, q) <=> y = ProcTask("consumer") /\ pc["consumer"] = "get" /\ ~Here(y)
        /\ \A w \in Proc : pc[w] = "get" => Live(w) /\ joining[w] = NoTask
    BY WakesFresh DEF LoopInv
  <2>3. none \in SUBSET Proc /\ \A w : w \notin none
    OBVIOUS
  <2>4. cancelled' \subseteq cancelled \cup none
    BY <2>1
  <2> HIDE DEF q, none
  <2>5. \A w \in Proc \ none :
          /\ joining'[w] = joining[w]
          /\ pc'[w] = pc[w] \/ (w = "reader" /\ pc[w] = "bounded" /\ pc'[w] = "expired")
    BY <2>1
  <2>6. \A w \in none :
           /\ joining'[w] = NoTask /\ pc'[w] \notin {"idle", "done"}
           /\ Here(ProcTask(w)) \/ In(ProcTask(w), q)
           /\ PassesBy(w, pc'[w]) => Leads(ProcTask(w)) /\ w \notin cancelled'
    BY <2>3
  <2>7. \A w \in none :
           /\ Here(ProcTask(w)) \/ In(ProcTask(w), q)
           /\ ~PassesBy(w, pc[w]) \/ w \in none
    BY <2>3
  <2>8. \A w \in Proc : In(ProcTask(w), q) => w \in none \/ (Live(w) /\ joining[w] = NoTask)
    BY <2>2, Names
  <2>9. /\ \A s \in Speaker : play'[s] = play[s] /\ ~In(PlayTask(s), q)
        /\ \A t \in Turns : ~In(HoldTask(t), q)
        /\ hold' = hold
    BY <2>1, <2>2, Names
  <2>10. pc'["consumer"] = "get" => Here(ProcTask("consumer")) \/ In(ProcTask("consumer"), q)
    BY <2>1, <2>2
  <2>11. QueueInv'
    BY <2>1, <2>2, <2>3, <2>4, <2>5, <2>6, <2>7, <2>8, <2>9, <2>10, QueueGrows DEF LoopInv
  <2>12. RoleInv'
    BY <2>1, RolesStay DEF LoopInv
  <2> QED BY <2>11, <2>12 DEF LoopInv
<1>2. CASE UtteranceGoesOn \/ SilenceGrows
  <2>1. UNCHANGED <<pc, then, ready, joining, cancelled, play, hold, speaking, inbox>>
    BY <1>2 DEF UtteranceGoesOn, SilenceGrows, plan, loop, voice, tone
  <2>2. QueueInv'
    <3>1. \A x : (Here(x))' <=> Here(x)
      BY <2>1 DEF Here
    <3>2. \A p : (Live(p))' <=> Live(p)
      BY <2>1 DEF Live
    <3>3. \A x : Alive(x) => (Alive(x))'
      BY <2>1, <3>2 DEF Alive
    <3>4. \A x : Leads(x) => (Leads(x))'
      BY <2>1 DEF Leads
    <3>5. \A p \in Proc : (InPlace(p))'
      <4> SUFFICES ASSUME NEW p \in Proc PROVE (InPlace(p))'
        OBVIOUS
      <4>1. InPlace(p) /\ pc'[p] = pc[p] /\ joining'[p] = joining[p] /\ (p \in cancelled' <=> p \in cancelled)
        BY <2>1 DEF LoopInv, QueueInv
      <4> HIDE DEF PassesBy, MayAwait, Alive, Here, Live, Leads
      <4> QED BY <3>1, <3>2, <3>3, <3>4, <4>1 DEF InPlace
    <3>6. Once(ready') /\ ready' = ready
      BY <2>1 DEF LoopInv, QueueInv
    <3> QED BY <2>1, <3>1, <3>5, <3>6 DEF LoopInv, QueueInv
  <2>3. idle' = idle \/ ready = <<>>
    BY <1>2 DEF UtteranceGoesOn, SilenceGrows, patience
  <2>4. play["watchdog"] \notin Pending \/ idle' = idle
    <3>1. ready = <<>> => ~Here(PlayTask("watchdog"))
      BY DEF Here, In
    <3> QED BY <2>3, <3>1, Kinds DEF LoopInv, QueueInv
  <2>5. RoleInv'
    BY <2>1, <2>4, RolesStay DEF LoopInv
  <2> QED BY <2>2, <2>5 DEF LoopInv
<1>3. CASE Tick
  <2>1. /\ pc["watchdog"] = "tick" /\ ~Here(ProcTask("watchdog")) /\ Wakes("watchdog")
        /\ UNCHANGED <<pc, play, hold, speaking, idle, then, inbox>>
    BY <1>3, <1>b DEF Tick, plan, voice, tone, caller, patience
  <2>2. Live("watchdog")
    BY <2>1 DEF Live
  <2> QED BY <1>a, <1>c, <2>1, <2>2, Kinds, WakesLoop
<1>4. ASSUME NEW p \in Proc, ServiceAnswers(p) PROVE LoopInv'
  <2>1. /\ pc[p] \in {"connected", "stt", "respond", "summarised", "commit"}
        /\ ~Here(ProcTask(p)) /\ Wakes(p)
        /\ UNCHANGED <<pc, play, hold, speaking, idle, then, inbox>>
    BY <1>4, <1>b DEF ServiceAnswers, plan, voice, tone, caller, patience
  <2>2. Live(p)
    BY <2>1 DEF Live
  <2> QED BY <1>a, <1>c, <2>1, <2>2, WakesLoop
<1>5. ASSUME NEW h \in Hanger, HangupRequested(h) PROVE LoopInv'
  <2>1. /\ pc[h] = "idle" /\ pc' = [pc EXCEPT ![h] = "hangup"] /\ Wakes(h)
        /\ UNCHANGED <<play, hold, speaking, idle, then, inbox>>
    BY <1>5 DEF HangupRequested, plan, voice, tone, caller, patience
  <2>2. joining[h] = NoTask /\ ~Here(ProcTask(h))
    <3>1. ~MayAwait(h, pc[h], joining[h]) /\ ~Live(h)
      BY <2>1, Kinds DEF MayAwait, OnPlay, OnHold, Live
    <3> QED BY <3>1, Kinds DEF LoopInv, QueueInv, InPlace
  <2> QED BY <2>1, <2>2, Kinds, WakesLoop
<1>6. ASSUME NEW p \in Proc, SendGoesThrough(p) PROVE FALSE
  BY <1>6 DEF SendGoesThrough, Unhindered
<1>7. ASSUME NEW s \in Speaker, ChunkSent(s) \/ PlayEnds(s) PROVE LoopInv'
  BY <1>7, SoundLoop
<1>8. CASE SessionBoundExpires
  <2> DEFINE none == {}
             C == Struck("run")
             q == Woken("run")
             A == {"reader"}
  <2>1. /\ pc["reader"] = "bounded" /\ ready = <<>> /\ "reader" \in Hanger
        /\ pc' = [pc EXCEPT !["reader"] = "expired"] /\ cancelled' = cancelled \cup C
        /\ ready' = q
        /\ UNCHANGED <<joining, play, hold, speaking, idle, then, inbox>>
    BY <1>8 DEF SessionBoundExpires, plan, voice, tone, caller, patience
  <2>2. pc'["reader"] = "expired" /\ \A w \in Proc \ {"reader"} : pc'[w] = pc[w]
    BY <2>1, Kinds DEF TypeOK, ControlOK
  <2>3. /\ C \in SUBSET Proc /\ Fresh(q)
        /\ \A w \in C : Live(w) /\ joining[w] = NoTask /\ (Here(ProcTask(w)) \/ In(ProcTask(w), q))
        /\ \A y : In(y, q) => \E w \in C : y = ProcTask(w)
    BY CancelFacts, Kinds DEF LoopInv
  <2>4. none \in SUBSET Proc /\ \A w : w \notin none
    OBVIOUS
  <2> HIDE DEF C, q, none
  <2>5. ready' = ready \o q
    BY <2>1, <2>3 DEF Fresh
  <2>6. \A w \in Proc \ none :
          /\ joining'[w] = joining[w]
          /\ pc'[w] = pc[w] \/ (w = "reader" /\ pc[w] = "bounded" /\ pc'[w] = "expired")
    BY <2>1, <2>2
  <2>7. \A w \in none :
           /\ joining'[w] = NoTask /\ pc'[w] \notin {"idle", "done"}
           /\ Here(ProcTask(w)) \/ In(ProcTask(w), q)
           /\ PassesBy(w, pc'[w]) => Leads(ProcTask(w)) /\ w \notin cancelled'
    BY <2>4
  <2>8. \A w \in C :
           /\ Here(ProcTask(w)) \/ In(ProcTask(w), q)
           /\ ~PassesBy(w, pc[w]) \/ w \in none
    BY <2>1, <2>3 DEF LoopInv, QueueInv, InPlace, Leads
  <2>9. \A w \in Proc : In(ProcTask(w), q) => w \in none \/ (Live(w) /\ joining[w] = NoTask)
    BY <2>3, Names
  <2>10. /\ \A s \in Speaker : play'[s] = play[s] /\ ~In(PlayTask(s), q)
         /\ \A t \in Turns : ~In(HoldTask(t), q)
         /\ hold' = hold /\ inbox' = inbox
    BY <2>1, <2>3, Names
  <2>11. cancelled' \subseteq cancelled \cup C
    BY <2>1
  <2>12. QueueInv'
    BY <2>3, <2>4, <2>5, <2>6, <2>7, <2>8, <2>9, <2>10, <2>11, QueueGrows DEF LoopInv
  <2>13. RoleInv'
    <3>1. MayGo("reader", "expired") /\ SoundsFade("reader", "expired")
      BY <2>1, Kinds DEF MayGo, Early, Unspoken, Spoken, Talking, SoundsFade
    <3> QED BY <2>1, <3>1, Kinds, RoleGoes DEF LoopInv
  <2> QED BY <2>12, <2>13 DEF LoopInv
<1> QED BY <1>1, <1>2, <1>3, <1>4, <1>5, <1>6, <1>7, <1>8 DEF Environment

\* A new call is a loop with run() in it.
LEMMA InitLoop == Init => LoopInv
<1> SUFFICES ASSUME Init PROVE LoopInv
  OBVIOUS
<1>1. /\ ready = <<ProcTask("run")>> /\ cancelled = {} /\ speaking = None
      /\ pc["run"] = "start" /\ \A w \in Proc : w # "run" => pc[w] = "idle"
      /\ \A w \in Proc : joining[w] = NoTask
      /\ \A s \in Speaker : play[s] = "over"
      /\ \A t \in Turns : hold[t] = "over"
      /\ inbox = <<>>
  BY Kinds DEF Init
<1>2. PICK q : q = ready
  OBVIOUS
<1>3. Len(q) = 1 /\ q[1] = ProcTask("run")
  BY <1>1, <1>2
<1>4. Once(ready) /\ \A x : Here(x) <=> x = ProcTask("run")
  BY <1>2, <1>3 DEF Once, Here, In
<1>5. \A p \in Proc : InPlace(p)
  <2> SUFFICES ASSUME NEW p \in Proc PROVE InPlace(p)
    OBVIOUS
  <2>1. (Here(ProcTask(p)) <=> p = "run") /\ (Live(p) <=> p = "run")
    BY <1>1, <1>4, Names DEF Live
  <2> QED BY <1>1, <2>1 DEF InPlace, PassesBy, Passing, Runnable, OnHold, OnPlay
<1>6. QueueInv
  <2>1. \A s : ~Here(PlayTask(s)) /\ ~Here(HoldTask(s))
    BY <1>4, Names
  <2>2. \A s \in Speaker : Here(PlayTask(s)) <=> play[s] \in Pending
    BY <1>1, <2>1 DEF Pending
  <2>3. \A t \in Turns : Here(HoldTask(t)) <=> hold[t] = "stopping"
    BY <1>1, <2>1
  <2> HIDE DEF InPlace, Here
  <2> QED BY <1>1, <1>4, <1>5, <2>2, <2>3 DEF QueueInv
<1>7. RoleInv
  <2> DEFINE P == Proc
  <2>a. /\ {"consumer", "watchdog"} \subseteq P /\ Turns \subseteq P /\ Hanger \subseteq P
        /\ \A t \in Turns : t # "run"
        /\ \A h \in Hanger : h # "run"
        /\ Speaker \subseteq P
    BY Kinds
  <2>b. \A w \in P : w # "run" => pc[w] = "idle"
    BY <1>1
  <2> HIDE DEF P
  <2>1. Roles /\ Alone /\ Plans
    <3>1. \A s \in Speaker : pc[s] \in {"start", "idle"}
      BY <1>1, <2>a, <2>b
    <3>2. Roles /\ Alone
      BY <1>1, <2>a, <2>b DEF Roles, Alone
    <3>3. Plans
      BY <3>1 DEF Plans
    <3> QED BY <3>2, <3>3
  <2>2. "run" \in Speaker /\ "watchdog" \in Speaker /\ Turns \subseteq Speaker /\ None \notin Speaker
    BY Kinds DEF None
  <2>3. Silent
    BY <1>1, <2>2 DEF Silent, Pending
  <2> QED BY <2>1, <2>3 DEF RoleInv
<1> QED BY <1>6, <1>7 DEF LoopInv

\* Every step keeps the loop in order.
LEMMA LoopStays ==
  ASSUME TypeOK, LoopInv, Unhindered, Next
  PROVE  LoopInv'
<1>1. CASE SpeakStep
  BY <1>1, SpeakLoop, SoundLoop DEF SpeakStep
<1>2. CASE LoopStep
  BY <1>1, <1>2, HangupLoop, RunLoop, ConsumerLoop, TurnLoop, WatchdogLoop, SoundLoop, RaiseLoop DEF LoopStep
<1>3. CASE Environment
  BY <1>3, EnvironmentLoop
<1> QED BY <1>2, <1>3 DEF Next

\* A stuttering step keeps it, too.
LEMMA LoopStutters ==
  ASSUME LoopInv, UNCHANGED vars
  PROVE  LoopInv'
<1>1. UNCHANGED <<pc, then, ready, joining, cancelled, play, hold, speaking, idle, inbox>>
  BY DEF vars, plan, loop, voice, tone, caller, patience
<1>2. \A p \in Proc : (InPlace(p))'
  <2>1. /\ \A x : (Here(x))' <=> Here(x)
        /\ \A p : (Live(p))' <=> Live(p)
        /\ \A x : (Leads(x))' <=> Leads(x)
    BY <1>1 DEF Here, Live, Leads
  <2>2. \A x : (Alive(x))' <=> Alive(x)
    BY <1>1, <2>1 DEF Alive
  <2> SUFFICES ASSUME NEW p \in Proc PROVE (InPlace(p))'
    OBVIOUS
  <2>3. InPlace(p) /\ pc'[p] = pc[p] /\ joining'[p] = joining[p] /\ (p \in cancelled' <=> p \in cancelled)
    BY <1>1 DEF LoopInv, QueueInv
  <2> HIDE DEF PassesBy, MayAwait, Alive, Here, Live, Leads
  <2> QED BY <2>1, <2>2, <2>3 DEF InPlace
<1>3. QueueInv'
  BY <1>1, <1>2 DEF LoopInv, QueueInv, Here, In, Once
<1>4. RoleInv'
  <2>1. Roles'
    BY <1>1 DEF LoopInv, RoleInv, Roles
  <2>2. Plans'
    BY <1>1 DEF LoopInv, RoleInv, Plans, Resumes
  <2>3. Silent'
    BY <1>1 DEF LoopInv, RoleInv, Silent, Talking
  <2>4. Alone'
    BY <1>1 DEF LoopInv, RoleInv, Alone
  <2> QED BY <2>1, <2>2, <2>3, <2>4 DEF RoleInv
<1> QED BY <1>3, <1>4 DEF LoopInv
=============================================================================
