------------------------- MODULE OrdinaryCallProofs -------------------------
(***************************************************************************)
(* Theorems about every call until something strains it (OrdinaryCall),    *)
(* for any number of turns, any choice of who hangs up, whose sends may    *)
(* suspend and what else may go wrong, on top of the event loop's          *)
(* invariant in CallSessionProofs.                                         *)
(***************************************************************************)
EXTENDS OrdinaryCall, CallSessionProofs

-----------------------------------------------------------------------------
\* A step that strains nothing.
Ordinary == Unhindered /\ ~Backlogged /\ ~Wordless

\* In such a step an answer has words, and they are spoken.
LEMMA WordsAreSpoken ==
  ASSUME TypeOK, Ordinary, NEW t \in Turns, TurnSpeaks(t)
  PROVE  Continue(t, "enter")
<1> SUFFICES ASSUME Continue(t, "spoken"), pc[t] = "answered" PROVE FALSE
  BY DEF TurnSpeaks, Runs
<1>1. pc'[t] = "spoken"
  BY DEF Continue, TypeOK, ControlOK, Proc
<1> QED BY <1>1 DEF Ordinary, Wordless

\* Nor does audio come in a backlog.
LEMMA InRealTime ==
  ASSUME Ordinary, UtteranceGoesOn
  PROVE  ready = <<>>
BY DEF Ordinary, Backlogged, UtteranceGoesOn


-----------------------------------------------------------------------------
(* The open call: until hangup() begins to end it, one task has the floor. *)
\* The call is being ended, or has been: hangup() has set ENDED.
Ended == over \/ \E p \in Proc : pc[p] = "sentinel"

\* While run() greets.
Greets    == {"enter", "play", "announced", "speaking", "greeted"}

\* While the watchdog speaks.
Asks      == pc["watchdog"] \in {"enter", "play", "announced", "speaking"}

\* A speaker is about to begin its line.
Begins(p) == pc[p] \in {"enter", "play"}

\* While the consumer cuts a line short.
Cuts      == pc["consumer"] \in {"barge in", "listen"}

\* While nobody has hung up: nothing is cancelled, and every service is at its post.
Underway ==
  /\ cancelled = {} /\ state # "ended" /\ ~In("end", inbox)
  /\ \A p \in Proc : pc[p] \notin {"hung up", "bounded", "expired"}
  /\ pc["run"] \in Early \cup Greets \cup {"waiting"}
  /\ pc["run"] = "waiting" => ~Here(ProcTask("run"))
  /\ pc["run"] \notin Early => Live("consumer") /\ Live("watchdog")

\* Only one of the greeting, the watchdog and the caller's turn has the floor.
Floor ==
  /\ pc["run"] \in Greets => ~Asks /\ \A t \in Turns : ~Live(t)
  /\ Asks => \A t \in Turns : ~Live(t)
  /\ pc["run"] \in Early \/ Begins("run") => state = "greeting" /\ utterance = "idle"
  /\ Begins("run") => Leads(ProcTask("run"))
  /\ Begins("watchdog") => state = "listening" /\ Leads(ProcTask("watchdog"))
  /\ \A t \in Turns : pc[t] \in Unspoken => state = "thinking" /\ utterance = "idle"
  /\ state = "thinking" => \E t \in Turns : pc[t] \in Unspoken

\* A line is in the air only while its speaker speaks, and the caller's words only
\* count once it has been told that it was cut short.
OnAir(s) ==
  /\ Talking(s) => \/ state = "speaking"
                   \/ state = "listening" /\ Here(ProcTask(s)) /\ idle = 0 /\ utterance # "speech"
  /\ Talking(s) /\ s # "watchdog" =>
       utterance = "idle" \/ (Here(ProcTask(s)) /\ utterance = "onset")
  /\ pc[s] = "announced" =>
       play[s] = "new" /\ s \notin finished /\ state = "speaking" /\ (s # "watchdog" => utterance = "idle")
  /\ pc[s] = "speaking" => (play[s] = "over" <=> Here(ProcTask(s)))
  /\ play[s] # "over" => Talking(s) /\ speaking = s
  /\ play[s] = "new" => ~audible
  /\ play[s] = "stopping" => pc["consumer"] = "barge in" /\ joining["consumer"] = PlayTask(s)
  /\ play[s] # "stillborn"

\* While the consumer cuts a line short nobody takes the floor.
Barge ==
  Cuts =>
    /\ state = "speaking" \/ idle = 0
    /\ \A s \in Speaker : /\ Talking(s) => Here(ProcTask(s)) \/ play[s] = "stopping"
                          /\ pc[s] # "announced"
    /\ \A t \in Turns : pc[t] \notin Unspoken
    /\ ~Begins("run") /\ ~Begins("watchdog")

\* The open call: one task at most has the floor, and it alone has the line.
OpenNow == Underway /\ Floor /\ (\A s \in Speaker : OnAir(s)) /\ Barge

\* A call that has not begun to end is open.
OpenInv == ~Ended => OpenNow

\* One turn at a time, and none with the caller's next words complete.
OneTurn == \A t \in Turns : Live(t) => t = turnTask

\* No utterance is complete while another has the floor.
Unsaid  ==
  (\E t \in Turns : Live(t)) \/ pc["run"] \in Early \cup Greets =>
    (pc["consumer"] # "done" => utterance # "speech")

\* A step in which only p moves, and wakes or silences no speaker.
Calm(p) ==
  /\ cancelled' = cancelled \ {p}
  /\ \A w \in Proc \ {p} :
       /\ pc'[w] = pc[w]
       /\ pc[w] \in {"announced", "speaking", "waiting"} =>
            ((Here(ProcTask(w)))' <=> Here(ProcTask(w)))
       /\ w \in {"run", "watchdog"} /\ Begins(w) => (Leads(ProcTask(w)))'
       /\ \A s : joining[w] = PlayTask(s) => joining'[w] = joining[w]

\* To go on without suspending disturbs nobody else.
LEMMA CalmContinue ==
  ASSUME TypeOK, NEW p \in Proc, NEW l, Continue(p, l),
         \A w \in {"run", "watchdog"} : Begins(w) => Leads(ProcTask(w))
  PROVE  Calm(p) /\ pc'[p] = l /\ ((Here(ProcTask(p)))' <=> Here(ProcTask(p)))
         /\ (Leads(ProcTask(p)) => (Leads(ProcTask(p)))')
<1>1. /\ pc'[p] = l /\ \A w \in Proc \ {p} : pc'[w] = pc[w] /\ joining'[w] = joining[w]
      /\ ready' = ready /\ cancelled' = cancelled \ {p}
  BY DEF Continue, TypeOK, ControlOK
<1>2. \A y : ((Here(y))' <=> Here(y)) /\ ((Leads(y))' <=> Leads(y))
  BY <1>1 DEF Here, Leads
<1> HIDE DEF Here, Leads
<1> QED BY <1>1, <1>2 DEF Calm

\* To suspend disturbs nobody that had not to be woken.
LEMMA CalmSuspend ==
  ASSUME TypeOK, LoopInv, NEW p \in Proc, NEW l, NEW x, NEW q \in Seq(Task), Suspend(p, l, x, q),
         Leads(ProcTask(p)), \A w : ~In(ProcTask(w), q),
         \A w \in {"run", "watchdog"} : Begins(w) => Leads(ProcTask(w))
  PROVE  Calm(p) /\ pc'[p] = l /\ ~(Here(ProcTask(p)))' /\ joining'[p] = x
<1>1. /\ pc'[p] = l /\ \A w \in Proc \ {p} : pc'[w] = pc[w] /\ joining'[w] = joining[w]
      /\ joining'[p] = x /\ ready' = Tail(ready) \o q /\ cancelled' = cancelled \ {p}
  BY DEF Suspend, TypeOK, ControlOK
<1>2. /\ Tail(ready) \in Seq(Task) /\ \A y : In(y, Tail(ready)) <=> Here(y) /\ y # ProcTask(p)
  BY InTail DEF LoopInv, QueueInv, TypeOK, ControlOK, Leads, Here
<1>3. \A y : In(y, ready') <=> In(y, Tail(ready)) \/ In(y, q)
  BY <1>1, <1>2, InConcat
<1>4. \A w : (Here(ProcTask(w)))' <=> Here(ProcTask(w)) /\ w # p
  BY <1>2, <1>3, Names DEF Here
<1>5. \A w \in {"run", "watchdog"} : Begins(w) => w = p
  BY Names DEF Leads
<1> HIDE DEF Here, Leads
<1> QED BY <1>1, <1>4, <1>5 DEF Calm

\* To suspend until the world answers disturbs nobody.
LEMMA CalmAwaits ==
  ASSUME TypeOK, LoopInv, NEW p \in Proc, NEW l, Suspend(p, l, NoTask, <<>>), Leads(ProcTask(p)),
         \A w \in {"run", "watchdog"} : Begins(w) => Leads(ProcTask(w))
  PROVE  Calm(p) /\ pc'[p] = l /\ ~(Here(ProcTask(p)))'
<1>1. <<>> \in Seq(Task) /\ \A w : ~In(ProcTask(w), <<>>)
  BY FreshNone DEF Fresh
<1> QED BY <1>1, CalmSuspend

\* _stop_hold disturbs nobody but the tone.
LEMMA CalmStopHold ==
  ASSUME TypeOK, LoopInv, NEW p \in Proc, NEW l, StopHold(p, l), Leads(ProcTask(p)),
         \A w \in {"run", "watchdog"} : Begins(w) => Leads(ProcTask(w))
  PROVE  Calm(p) /\ pc'[p] = l
<1>1. CASE holdTask # None /\ hold[holdTask] # "over"
  <2>1. PICK q : q = IF hold[holdTask] = "on" THEN <<HoldTask(holdTask)>> ELSE <<>>
    OBVIOUS
  <2>2. PICK h \in Turns : h = holdTask
    BY <1>1 DEF TypeOK, SoundOK
  <2>3. HoldTask(h) \in Task
    BY TaskNames
  <2>4. q \in Seq(Task) /\ \A w : ~In(ProcTask(w), q)
    <3>1. CASE hold[h] = "on"
      <4>1. q = <<HoldTask(h)>>
        BY <2>1, <2>2, <3>1
      <4>2. q \in Seq(Task) /\ Len(q) = 1 /\ q[1] = HoldTask(h)
        BY <4>1, <2>3
      <4> QED BY <4>2, Names DEF In
    <3>2. CASE hold[h] # "on"
      <4>1. q = <<>>
        BY <2>1, <2>2, <3>2
      <4> QED BY <4>1, FreshNone DEF Fresh
    <3> QED BY <3>1, <3>2
  <2>5. Suspend(p, l, HoldTask(holdTask), q)
    BY <1>1, <2>1 DEF StopHold
  <2>6. PICK x : x = HoldTask(holdTask)
    OBVIOUS
  <2> QED BY <2>4, <2>5, <2>6, CalmSuspend
<1>2. CASE ~(holdTask # None /\ hold[holdTask] # "over")
  BY <1>2, CalmContinue DEF StopHold
<1> QED BY <1>1, <1>2

\* A task of a turn or of hangup() that returns wakes neither a speaker nor run().
LEMMA CalmReturn ==
  ASSUME TypeOK, LoopInv, NEW p \in Proc, Return(p, <<>>), Leads(ProcTask(p)),
         \A w \in {"run", "watchdog"} : Begins(w) => Leads(ProcTask(w))
  PROVE  Calm(p) /\ pc'[p] = "done"
<1> DEFINE x == ProcTask(p)
<1>1. PICK woken \in Orders(Joiners(x)) : ready' = Tail(ready) \o <<>> \o woken
  BY DEF Return, TaskOver
<1>2. /\ woken \in Seq(Task) /\ \A y : In(y, woken) <=> \E w \in Proc : y = ProcTask(w) /\ joining[w] = x
  <2>1. Joiners(x) \in SUBSET Proc
    BY DEF Joiners
  <2> QED BY <1>1, <2>1, OrdersFacts DEF Joiners
<1>3. /\ Tail(ready) \in Seq(Task) /\ \A y : In(y, Tail(ready)) <=> Here(y) /\ y # x
  BY InTail DEF LoopInv, QueueInv, TypeOK, ControlOK, Leads, Here
<1>4. \A y : In(y, ready') <=> In(y, Tail(ready)) \/ In(y, woken)
  <2>1. Tail(ready) \o <<>> = Tail(ready)
    BY <1>3
  <2> QED BY <1>1, <1>2, <1>3, <2>1, InConcat
<1>5. \A w \in Proc : joining[w] = x => pc[w] \notin {"announced", "speaking", "waiting"}
  <2> SUFFICES ASSUME NEW w \in Proc, joining[w] = x
               PROVE  pc[w] \notin {"announced", "speaking", "waiting"}
    OBVIOUS
  <2>1. MayAwait(w, pc[w], x)
    BY Names DEF LoopInv, QueueInv, InPlace
  <2> QED BY <2>1 DEF MayAwait, OnPlay, OnHold
<1>6. /\ pc'[p] = "done" /\ \A w \in Proc \ {p} : pc'[w] = pc[w]
      /\ cancelled' = cancelled \ {p}
      /\ \A w \in Proc : joining'[w] = IF joining[w] = x THEN NoTask ELSE joining[w]
  BY DEF Return, TaskOver, TypeOK, ControlOK
<1>7. \A w \in Proc \ {p} : (Here(ProcTask(w)))' <=> Here(ProcTask(w)) \/ joining[w] = x
  BY <1>2, <1>3, <1>4, Names DEF Here
<1>8. \A w \in {"run", "watchdog"} : Begins(w) => w = p
  BY Names DEF Leads
<1>9. \A s : PlayTask(s) # x
  BY Names
<1> HIDE DEF Here, Leads, x
<1> QED BY <1>5, <1>6, <1>7, <1>8, <1>9 DEF Calm

\* Tasks put on the queue behind the others, none a speaker or run() in its wait.
LEMMA CalmGrows ==
  ASSUME TypeOK, NEW p \in Proc, NEW q \in Seq(Task), ready' = ready \o q,
         \A w : In(ProcTask(w), q) => w = p,
         \A w \in Proc \ {p} : pc'[w] = pc[w] /\ joining'[w] = joining[w],
         cancelled' = cancelled \ {p},
         \A w \in {"run", "watchdog"} : Begins(w) => Leads(ProcTask(w))
  PROVE  Calm(p)
<1>1. /\ \A y : In(y, ready') <=> Here(y) \/ In(y, q)
      /\ \A y : Leads(y) => (Leads(y))'
  BY InConcat DEF TypeOK, ControlOK, Here, Leads
<1>2. \A w \in Proc \ {p} : (Here(ProcTask(w)))' <=> Here(ProcTask(w))
  BY <1>1 DEF Here
<1> HIDE DEF Here, Leads
<1> QED BY <1>1, <1>2 DEF Calm

\* To be woken by the world disturbs nobody else.
LEMMA CalmWakes ==
  ASSUME TypeOK, NEW p \in Proc, Wakes(p), \A w \in Proc \ {p} : pc'[w] = pc[w],
         cancelled = {},
         \A w \in {"run", "watchdog"} : Begins(w) => Leads(ProcTask(w))
  PROVE  Calm(p)
<1> DEFINE q == <<ProcTask(p)>>
<1>1. q \in Seq(Task) /\ Len(q) = 1 /\ q[1] = ProcTask(p)
  BY TaskNames
<1>2. ready' = ready \o q
  BY AppendIsConcat, TaskNames DEF Wakes, TypeOK, ControlOK
<1> HIDE DEF q
<1>3. \A w : In(ProcTask(w), q) => w = p
  BY <1>1, Names DEF In
<1> QED BY <1>1, <1>2, <1>3, CalmGrows DEF Wakes

\* The tone stops: those who waited for it are on their way to a line.
LEMMA CalmHoldStops ==
  ASSUME TypeOK, LoopInv, NEW t \in Turns, HoldStops(t), NEW p \in Proc, cancelled = {},
         \A w \in {"run", "watchdog"} : Begins(w) => Leads(ProcTask(w))
  PROVE  Calm(p)
<1> DEFINE x == HoldTask(t)
<1>1. PICK woken \in Orders(Joiners(x)) : ready' = Tail(ready) \o <<>> \o woken
  BY DEF HoldStops, TaskOver
<1>2. /\ woken \in Seq(Task) /\ \A y : In(y, woken) <=> \E w \in Proc : y = ProcTask(w) /\ joining[w] = x
  <2>1. Joiners(x) \in SUBSET Proc
    BY DEF Joiners
  <2> QED BY <1>1, <2>1, OrdersFacts DEF Joiners
<1>3. Leads(x)
  BY DEF HoldStops, Leads
<1>4. /\ Tail(ready) \in Seq(Task) /\ \A y : In(y, Tail(ready)) <=> Here(y) /\ y # x
  BY <1>3, InTail DEF LoopInv, QueueInv, TypeOK, ControlOK, Leads, Here
<1>5. \A y : In(y, ready') <=> In(y, Tail(ready)) \/ In(y, woken)
  <2>1. Tail(ready) \o <<>> = Tail(ready)
    BY <1>4
  <2> QED BY <1>1, <1>2, <1>4, <2>1, InConcat
<1>6. \A w \in Proc : joining[w] = x => pc[w] \notin {"announced", "speaking", "waiting"}
  <2> SUFFICES ASSUME NEW w \in Proc, joining[w] = x
               PROVE  pc[w] \notin {"announced", "speaking", "waiting"}
    OBVIOUS
  <2>1. MayAwait(w, pc[w], x)
    BY Names DEF LoopInv, QueueInv, InPlace
  <2> QED BY <2>1, Names DEF MayAwait, OnPlay, OnHold
<1>7. /\ pc' = pc /\ cancelled' = cancelled
      /\ \A w \in Proc : joining'[w] = IF joining[w] = x THEN NoTask ELSE joining[w]
  BY DEF HoldStops, TaskOver
<1>8. \A w \in Proc : (Here(ProcTask(w)))' <=> Here(ProcTask(w)) \/ joining[w] = x
  BY <1>2, <1>4, <1>5, Names DEF Here
<1>9. \A w \in {"run", "watchdog"} : ~Begins(w)
  BY <1>3, Names DEF Leads
<1>10. \A s : PlayTask(s) # x
  BY Names
<1> HIDE DEF Here, Leads, x
<1> QED BY <1>6, <1>7, <1>8, <1>9, <1>10 DEF Calm

\* p moves on without taking or giving up the floor.
SamePlace(p, l) ==
  \/ p \in Turns /\ pc[p] \in Unspoken /\ l \in Unspoken
  \/ p \in Turns /\ pc[p] \in {"spoken", "act"} /\ l \in {"act", "hangup"}
  \/ p = "consumer" /\ pc[p] \in {"loop", "get"} /\ l \in {"loop", "get"}
  \/ p = "consumer" /\ l = pc[p] /\ joining'[p] = joining[p]
  \/ p = "watchdog" /\ pc[p] \in {"again", "tick", "closing"} /\ l \in {"again", "tick", "hangup"}
  \/ p = "run" /\ pc[p] \in Early /\ l \in Early
  \/ p \in Hanger /\ l = "hangup"

\* A calm step that leaves the conversation where it is.
LEMMA OpenStays ==
  ASSUME TypeOK, LoopInv, OpenNow, NEW p \in Proc, NEW l, Calm(p), pc'[p] = l, SamePlace(p, l),
         UNCHANGED <<state, utterance, play, speaking, audible, finished>>, idle' \in {idle, 0},
         inbox' = inbox \/ ~In("end", inbox')
  PROVE  OpenNow'
<1>1. /\ \A w \in Proc \ {p} : pc'[w] = pc[w]
      /\ \A w \in Proc \ {p} : pc[w] \in {"announced", "speaking", "waiting"} =>
            ((Here(ProcTask(w)))' <=> Here(ProcTask(w)))
      /\ \A w \in {"run", "watchdog"} : w # p /\ Begins(w) => (Leads(ProcTask(w)))'
      /\ \A w \in Proc \ {p} : \A s : joining[w] = PlayTask(s) => joining'[w] = joining[w]
      /\ cancelled' = {}
  BY Kinds DEF Calm, OpenNow, Underway
<1>2. /\ pc[p] \notin {"announced", "speaking", "waiting"} /\ l \notin {"announced", "speaking", "waiting"}
      /\ p \in {"run", "watchdog"} => ~Begins(p) /\ l \notin {"enter", "play"}
  <2>1. p \in Hanger => pc[p] \notin {"announced", "speaking", "waiting"}
    BY DEF LoopInv, RoleInv, Roles
  <2>2. p = "consumer" => pc[p] \notin {"announced", "speaking", "waiting"}
    BY DEF LoopInv, RoleInv, Roles
  <2> QED BY <2>1, <2>2, Kinds DEF SamePlace, Unspoken, Early, Begins
<1>3. /\ pc'["run"] \in Early <=> pc["run"] \in Early
      /\ pc'["run"] \in Greets <=> pc["run"] \in Greets
      /\ pc'["run"] = "waiting" <=> pc["run"] = "waiting"
      /\ (Begins("run"))' <=> Begins("run")
      /\ (Begins("watchdog"))' <=> Begins("watchdog")
      /\ Asks' <=> Asks
      /\ Cuts' <=> Cuts
      /\ pc'["consumer"] = "barge in" <=> pc["consumer"] = "barge in"
      /\ (Live("consumer"))' <=> Live("consumer")
      /\ (Live("watchdog"))' <=> Live("watchdog")
  <2>1. "run" \in Proc /\ "watchdog" \in Proc /\ "consumer" \in Proc
    BY Kinds
  <2>2. CASE p \in {"run", "watchdog", "consumer"}
    BY <1>1, <2>1, <2>2, Kinds DEF SamePlace, Early, Greets, Begins, Asks, Cuts, Live
  <2>3. CASE p \notin {"run", "watchdog", "consumer"}
    BY <1>1, <2>1, <2>3 DEF Early, Greets, Begins, Asks, Cuts, Live
  <2> QED BY <2>2, <2>3
<1>4. \A t \in Turns : ((Live(t))' <=> Live(t)) /\ (pc'[t] \in Unspoken <=> pc[t] \in Unspoken)
  BY <1>1, Kinds DEF SamePlace, Unspoken, Live
<1>5. \A s \in Speaker : /\ (Talking(s))' <=> Talking(s)
                         /\ Talking(s) => ((Here(ProcTask(s)))' <=> Here(ProcTask(s)))
                         /\ pc[s] \in {"announced", "speaking"} => pc'[s] = pc[s]
                         /\ pc'[s] \in {"announced", "speaking"} => pc'[s] = pc[s]
  BY <1>1, <1>2, Kinds DEF Talking
<1>6. \A w \in {"run", "watchdog"} : Begins(w) => (Leads(ProcTask(w)))'
  BY <1>1, <1>2
<1>7. pc["run"] = "waiting" => ((Here(ProcTask("run")))' <=> Here(ProcTask("run")))
  BY <1>1, <1>2, Kinds
<1>8. \A s : joining["consumer"] = PlayTask(s) /\ pc["consumer"] = "barge in" =>
        joining'["consumer"] = joining["consumer"]
  BY <1>1, Kinds DEF SamePlace
<1>9. \A w \in Proc : pc'[w] \notin {"hung up", "bounded", "expired"}
  <2>1. l \notin {"hung up", "bounded", "expired"}
    BY DEF SamePlace, Unspoken, Early, OpenNow, Underway
  <2> QED BY <1>1, <2>1 DEF OpenNow, Underway
<1> HIDE DEF Here, Leads, In, Talking, Begins, Asks, Cuts, Live
<1>10. Underway'
  <2>1. ~In("end", inbox')
    BY DEF OpenNow, Underway
  <2>2. state' # "ended"
    BY DEF OpenNow, Underway
  <2>3. pc'["run"] \in Early \cup Greets \cup {"waiting"}
    BY <1>3 DEF OpenNow, Underway
  <2> QED BY <1>1, <1>3, <1>7, <1>9, <2>1, <2>2, <2>3 DEF OpenNow, Underway
<1>11. Floor'
  BY <1>3, <1>4, <1>6 DEF OpenNow, Floor
<1>12. \A s \in Speaker : (OnAir(s))'
  <2> SUFFICES ASSUME NEW s \in Speaker PROVE (OnAir(s))'
    OBVIOUS
  <2>1. OnAir(s)
    BY DEF OpenNow
  <2>2. Talking(s) => idle' = 0 \/ idle' = idle
    OBVIOUS
  <2>3. /\ (Talking(s))' <=> Talking(s)
        /\ Talking(s) => ((Here(ProcTask(s)))' <=> Here(ProcTask(s)))
        /\ pc'[s] = "announced" <=> pc[s] = "announced"
        /\ pc'[s] = "speaking" <=> pc[s] = "speaking"
    BY <1>5
  <2>4. pc[s] = "speaking" => Talking(s)
    BY DEF Talking
  <2> QED BY <1>3, <1>8, <2>1, <2>2, <2>3, <2>4 DEF OnAir
<1>13. Barge'
  BY <1>3, <1>4, <1>5 DEF OpenNow, Barge
<1> QED BY <1>10, <1>11, <1>12, <1>13 DEF OpenNow

\* The greeting and the watchdog begin their lines without giving up the loop.
LEMMA FloorLeads ==
  ASSUME OpenNow
  PROVE  \A w \in {"run", "watchdog"} : Begins(w) => Leads(ProcTask(w))
BY DEF OpenNow, Floor

\* Nothing but a frame is taken from the inbox, and nothing but a frame is put there.
LEMMA TailKeeps ==
  ASSUME NEW r \in Seq({"frame", "end"}), r # <<>>, ~In("end", r)
  PROVE  ~In("end", Tail(r))
BY DEF In

\* A frame is not the end of the stream.
LEMMA AppendKeeps ==
  ASSUME NEW r \in Seq({"frame", "end"}), ~In("end", r)
  PROVE  ~In("end", Append(r, "frame"))
BY DEF In

\* The running task moves on, stopping the tone perhaps, and keeps to its place.
LEMMA OpenMoves ==
  ASSUME TypeOK, LoopInv, OpenNow, NEW p \in Proc, NEW l, Leads(ProcTask(p)), SamePlace(p, l),
         Continue(p, l) \/ Suspend(p, l, NoTask, <<>>) \/ StopHold(p, l),
         UNCHANGED <<state, utterance, play, speaking, audible, finished>>, idle' \in {idle, 0},
         inbox' = inbox \/ ~In("end", inbox')
  PROVE  OpenNow'
<1>1. Calm(p) /\ pc'[p] = l
  BY FloorLeads, CalmContinue, CalmAwaits, CalmStopHold
<1> QED BY <1>1, OpenStays

\* The steps of a turn that leave the state as it is keep the call open.
LEMMA TurnsOpen ==
  ASSUME TypeOK, LoopInv, OpenNow, Ordinary, NEW t \in Turns,
         \/ TurnStarts(t) \/ TurnEmpty(t) \/ TurnFixedLine(t) \/ TurnLine(t) \/ TurnAsks(t)
         \/ TurnAnswered(t) \/ TurnFailed(t) \/ TurnSpeaks(t) \/ TurnRecorded(t) \/ TurnEndsCall(t)
         \/ SpeakEnter(t)
  PROVE  OpenNow'
<1>t. t \in Proc
  BY Kinds
<1>u. Unhindered
  BY DEF Ordinary
<1>s. UNCHANGED <<state, utterance, play, speaking, audible, finished, idle, inbox>>
  BY DEF TurnStarts, TurnEmpty, TurnFixedLine, TurnLine, TurnAsks, TurnAnswered, TurnFailed,
         TurnSpeaks, TurnRecorded, TurnEndsCall, SpeakEnter, voice, caller, patience
<1>p. ASSUME NEW l \in {"unheard", "line", "enter", "play", "stt", "respond", "answered"},
             pc[t] \in {"start", "stt", "line", "respond", "answered", "enter"}
      PROVE  SamePlace(t, l)
  BY <1>p DEF SamePlace, Unspoken
<1>1. CASE TurnStarts(t)
  <2>1. pc[t] = "start" /\ Leads(ProcTask(t)) /\ Suspend(t, "stt", NoTask, <<>>)
    BY <1>1, RunsLeads DEF TurnStarts
  <2> QED BY <1>t, <1>s, <1>p, <2>1, OpenMoves
<1>2. CASE TurnEmpty(t)
  <2>1. pc[t] = "stt" /\ Leads(ProcTask(t)) /\ StopHold(t, "unheard")
    BY <1>2, RunsLeads DEF TurnEmpty
  <2> QED BY <1>t, <1>s, <1>p, <2>1, OpenMoves
<1>3. CASE TurnFixedLine(t)
  <2>1. pc[t] = "stt" /\ Leads(ProcTask(t)) /\ Continue(t, "line")
    BY <1>t, <1>3, <1>u, RunsLeads, SendContinues DEF TurnFixedLine, Sends
  <2> QED BY <1>t, <1>s, <1>p, <2>1, OpenMoves
<1>4. CASE TurnLine(t)
  <2>1. pc[t] = "line" /\ Leads(ProcTask(t)) /\ StopHold(t, "enter")
    BY <1>4, RunsLeads DEF TurnLine
  <2> QED BY <1>t, <1>s, <1>p, <2>1, OpenMoves
<1>5. CASE TurnAsks(t)
  <2>1. pc[t] = "stt" /\ Leads(ProcTask(t)) /\ Suspend(t, "respond", NoTask, <<>>)
    BY <1>5, RunsLeads DEF TurnAsks
  <2> QED BY <1>t, <1>s, <1>p, <2>1, OpenMoves
<1>6. CASE TurnAnswered(t)
  <2>1. pc[t] = "respond" /\ Leads(ProcTask(t)) /\ Continue(t, "answered")
    BY <1>t, <1>6, <1>u, RunsLeads, SendContinues DEF TurnAnswered, Sends
  <2> QED BY <1>t, <1>s, <1>p, <2>1, OpenMoves
<1>7. CASE TurnFailed(t)
  <2>1. pc[t] = "respond" /\ Leads(ProcTask(t)) /\ Continue(t, "line")
    BY <1>t, <1>7, <1>u, RunsLeads, SendContinues DEF TurnFailed, Sends
  <2> QED BY <1>t, <1>s, <1>p, <2>1, OpenMoves
<1>8. CASE TurnSpeaks(t)
  <2>1. pc[t] = "answered" /\ Leads(ProcTask(t)) /\ Continue(t, "enter")
    BY <1>8, RunsLeads, WordsAreSpoken DEF TurnSpeaks
  <2> QED BY <1>t, <1>s, <1>p, <2>1, OpenMoves
<1>9. CASE TurnRecorded(t)
  <2>1. pc[t] = "spoken" /\ Leads(ProcTask(t)) /\ Continue(t, "act")
    BY <1>t, <1>9, <1>u, RunsLeads, SendContinues DEF TurnRecorded, Sends
  <2>2. SamePlace(t, "act")
    BY <2>1 DEF SamePlace
  <2> QED BY <1>t, <1>s, <2>1, <2>2, OpenMoves
<1>10. CASE TurnEndsCall(t)
  <2>1. pc[t] = "act" /\ Leads(ProcTask(t)) /\ Continue(t, "hangup")
    BY <1>10, RunsLeads DEF TurnEndsCall
  <2>2. SamePlace(t, "hangup")
    BY <2>1 DEF SamePlace
  <2> QED BY <1>t, <1>s, <2>1, <2>2, OpenMoves
<1>11. CASE SpeakEnter(t)
  <2>1. pc[t] = "enter" /\ Leads(ProcTask(t)) /\ state # "ended"
    BY <1>11, RunsLeads DEF SpeakEnter, OpenNow, Underway
  <2>2. StopHold(t, "play")
    BY <1>11, <2>1 DEF SpeakEnter
  <2> QED BY <1>t, <1>s, <1>p, <2>1, <2>2, OpenMoves
<1> QED BY <1>1, <1>2, <1>3, <1>4, <1>5, <1>6, <1>7, <1>8, <1>9, <1>10, <1>11

\* The steps of the other tasks that leave the state as it is keep the call open.
LEMMA ServicesOpen ==
  ASSUME TypeOK, LoopInv, OpenNow, Ordinary,
         \/ WatchdogLoops \/ WatchdogTimesOut \/ WatchdogPasses \/ WatchdogCloses
         \/ ConsumerLoops \/ FrameDropped \/ RunConnects
  PROVE  OpenNow'
<1>k. "watchdog" \in Proc /\ "consumer" \in Proc /\ "run" \in Proc /\ state # "ended"
  BY Kinds DEF OpenNow, Underway
<1>s. UNCHANGED <<state, utterance, play, speaking, audible, finished, idle>>
  BY DEF WatchdogLoops, WatchdogTimesOut, WatchdogPasses, WatchdogCloses, ConsumerLoops, FrameDropped,
         RunConnects, voice, caller, patience
<1>p. ASSUME NEW l \in {"again", "tick", "hangup"}, pc["watchdog"] \in {"again", "tick", "closing"}
      PROVE  SamePlace("watchdog", l)
  BY <1>p DEF SamePlace
<1>q. ASSUME NEW l \in {"loop", "get"}, pc["consumer"] \in {"loop", "get"}
      PROVE  SamePlace("consumer", l)
  BY <1>q DEF SamePlace
<1>1. CASE WatchdogLoops
  <2>1. /\ pc["watchdog"] = "again" /\ Leads(ProcTask("watchdog")) /\ inbox' = inbox
        /\ Suspend("watchdog", "tick", NoTask, <<>>)
    BY <1>1, <1>k, RunsLeads DEF WatchdogLoops, caller
  <2> QED BY <1>k, <1>s, <1>p, <2>1, OpenMoves
<1>2. CASE WatchdogTimesOut
  <2>1. /\ pc["watchdog"] = "tick" /\ Leads(ProcTask("watchdog")) /\ inbox' = inbox
        /\ Continue("watchdog", "hangup")
    BY <1>2, RunsLeads DEF WatchdogTimesOut, caller
  <2> QED BY <1>k, <1>s, <1>p, <2>1, OpenMoves
<1>3. CASE WatchdogPasses
  <2>1. /\ pc["watchdog"] = "tick" /\ Leads(ProcTask("watchdog")) /\ inbox' = inbox
        /\ Continue("watchdog", "again")
    BY <1>3, RunsLeads DEF WatchdogPasses, caller
  <2> QED BY <1>k, <1>s, <1>p, <2>1, OpenMoves
<1>4. CASE WatchdogCloses
  <2>1. /\ pc["watchdog"] = "closing" /\ Leads(ProcTask("watchdog")) /\ inbox' = inbox
        /\ Continue("watchdog", "hangup")
    BY <1>4, RunsLeads DEF WatchdogCloses, caller
  <2> QED BY <1>k, <1>s, <1>p, <2>1, OpenMoves
<1>5. CASE ConsumerLoops
  <2>1. /\ pc["consumer"] = "loop" /\ Leads(ProcTask("consumer")) /\ inbox' = inbox
        /\ Continue("consumer", "get") \/ Suspend("consumer", "get", NoTask, <<>>)
    BY <1>5, <1>k, RunsLeads DEF ConsumerLoops, caller
  <2> QED BY <1>k, <1>s, <1>q, <2>1, OpenMoves
<1>6. CASE FrameDropped
  <2>1. /\ pc["consumer"] = "get" /\ Leads(ProcTask("consumer"))
        /\ Continue("consumer", "loop") /\ inbox # <<>> /\ inbox' = Tail(inbox)
    BY <1>6, RunsLeads DEF FrameDropped, TakesFrame
  <2>2. ~In("end", inbox')
    BY <2>1, TailKeeps DEF OpenNow, Underway, TypeOK, CallerOK
  <2> QED BY <1>k, <1>s, <1>q, <2>1, <2>2, OpenMoves
<1>7. CASE RunConnects
  <2>1. /\ pc["run"] = "start" /\ Leads(ProcTask("run")) /\ inbox' = inbox
        /\ Suspend("run", "connected", NoTask, <<>>)
    BY <1>7, RunsLeads DEF RunConnects, caller
  <2>2. SamePlace("run", "connected")
    BY <2>1 DEF SamePlace, Early
  <2> QED BY <1>k, <1>s, <2>1, <2>2, OpenMoves
<1> QED BY <1>1, <1>2, <1>3, <1>4, <1>5, <1>6, <1>7

\* The steps of the world that leave the sounds as they are keep the call open.
LEMMA WorldOpen ==
  ASSUME TypeOK, LoopInv, OpenNow,
         \/ FrameArrives \/ Tick
         \/ \E h \in Hanger : HangupRequested(h)
         \/ \E p \in Proc : ServiceAnswers(p)
         \/ \E t \in Turns : HoldStops(t)
  PROVE  OpenNow'
<1>k. "watchdog" \in Proc /\ "consumer" \in Proc /\ "run" \in Proc /\ Hanger \subseteq Proc /\ cancelled = {}
  BY Kinds DEF OpenNow, Underway
<1>s. UNCHANGED <<state, utterance, play, speaking, audible, finished, idle>>
  BY DEF FrameArrives, Tick, HangupRequested, ServiceAnswers, HoldStops, voice, caller, patience
<1>1. CASE FrameArrives
  <2>1. /\ ready' = ready \o WakeConsumer /\ inbox' = Append(inbox, "frame")
        /\ UNCHANGED <<pc, joining, cancelled>>
    BY <1>1 DEF FrameArrives
  <2>2. WakeConsumer \in Seq(Task) /\ \A w : In(ProcTask(w), WakeConsumer) => w = "consumer"
    BY WakesFresh, Names DEF Fresh, LoopInv
  <2>3. Calm("consumer")
    BY <1>k, <2>1, <2>2, FloorLeads, CalmGrows
  <2>4. ~In("end", inbox')
    BY <2>1, AppendKeeps DEF OpenNow, Underway, TypeOK, CallerOK
  <2>5. SamePlace("consumer", pc["consumer"])
    BY <2>1 DEF SamePlace
  <2> QED BY <1>k, <1>s, <2>1, <2>3, <2>4, <2>5, OpenStays
<1>a. ASSUME NEW p \in Proc, Wakes(p), pc' = pc,
             pc[p] \in {"connected", "stt", "respond", "summarised", "commit", "tick"}
      PROVE  Calm(p) /\ SamePlace(p, pc[p])
  <2>1. Calm(p)
    BY <1>k, <1>a, FloorLeads, CalmWakes
  <2>2. SamePlace(p, pc[p])
    <3>1. p = "run" => pc[p] \in Early
      BY <1>a DEF OpenNow, Underway, Greets, Early
    <3>2. p \in Turns => pc[p] \in Unspoken
      BY <1>a DEF LoopInv, RoleInv, Roles, Unspoken
    <3>3. p = "watchdog" => pc[p] = "tick"
      BY <1>a DEF LoopInv, RoleInv, Roles
    <3>4. p # "consumer" /\ p \notin Hanger
      BY <1>a DEF LoopInv, RoleInv, Roles
    <3> QED BY <3>1, <3>2, <3>3, <3>4, Kinds DEF SamePlace
  <2> QED BY <2>1, <2>2
<1>2. CASE Tick
  <2>1. pc["watchdog"] = "tick" /\ Wakes("watchdog") /\ pc' = pc /\ inbox' = inbox
    BY <1>2 DEF Tick, caller
  <2> QED BY <1>k, <1>s, <1>a, <2>1, OpenStays
<1>3. ASSUME NEW p \in Proc, ServiceAnswers(p) PROVE OpenNow'
  <2>1. /\ pc[p] \in {"connected", "stt", "respond", "summarised", "commit"}
        /\ Wakes(p) /\ pc' = pc /\ inbox' = inbox
    BY <1>3 DEF ServiceAnswers, caller
  <2> QED BY <1>s, <1>3, <1>a, <2>1, OpenStays
<1>4. ASSUME NEW h \in Hanger, HangupRequested(h) PROVE OpenNow'
  <2>1. h \in Proc /\ inbox' = inbox /\ Wakes(h) /\ pc'[h] = "hangup" /\ \A w \in Proc \ {h} : pc'[w] = pc[w]
    BY <1>k, <1>4 DEF HangupRequested, caller, TypeOK, ControlOK
  <2>2. SamePlace(h, "hangup")
    BY DEF SamePlace
  <2>3. Calm(h)
    BY <1>k, <2>1, FloorLeads, CalmWakes
  <2> QED BY <1>s, <2>1, <2>2, <2>3, OpenStays
<1>5. ASSUME NEW t \in Turns, HoldStops(t) PROVE OpenNow'
  <2>1. Calm("consumer") /\ inbox' = inbox /\ pc' = pc
    BY <1>k, <1>5, FloorLeads, CalmHoldStops DEF HoldStops, caller
  <2>2. SamePlace("consumer", pc["consumer"])
    <3>1. joining["consumer"] # HoldTask(t)
      <4>1. pc["consumer"] \notin OnHold
        BY DEF LoopInv, RoleInv, Roles, OnHold
      <4>2. HoldTask(t) # NoTask
        BY Names
      <4>3. joining["consumer"] # NoTask => MayAwait("consumer", pc["consumer"], joining["consumer"])
        BY <1>k DEF LoopInv, QueueInv, InPlace
      <4> QED BY <4>1, <4>2, <4>3, Names DEF MayAwait
    <3> QED BY <1>5, <1>k, <3>1 DEF SamePlace, HoldStops, TaskOver
  <2> QED BY <1>k, <1>s, <2>1, <2>2, OpenStays
<1> QED BY <1>1, <1>2, <1>3, <1>4, <1>5

\* Who speaks, begins to, or has a turn under way has the floor alone.
LEMMA HasFloor ==
  ASSUME OpenNow, OneTurn, LoopInv, NEW s \in Speaker,
         Talking(s) \/ Begins(s) \/ (s \in Turns /\ Live(s))
  PROVE  /\ \A w \in Speaker \ {s} : ~Talking(w) /\ ~Begins(w)
         /\ \A t \in Turns \ {s} : ~Live(t) /\ pc[t] \notin Unspoken
         /\ s # "run" => pc["run"] \notin Greets
         /\ s # "watchdog" => ~Asks
         /\ pc["run"] \notin Early
<1>1. \A w : Talking(w) \/ Begins(w) \/ pc[w] \in Unspoken => Live(w)
  BY DEF Talking, Begins, Live, Unspoken
<1>2. CASE s = "run"
  <2>1. pc["run"] \in Greets
    BY <1>2, Kinds DEF Talking, Begins, Greets
  <2>2. ~Asks /\ \A t \in Turns : ~Live(t)
    BY <2>1 DEF OpenNow, Floor
  <2> QED BY <1>1, <1>2, <2>1, <2>2, Kinds DEF Talking, Begins, Asks, Greets, Early
<1>3. CASE s = "watchdog"
  <2>1. Asks
    BY <1>3, Kinds DEF Talking, Begins, Asks
  <2>2. pc["run"] \notin Greets /\ \A t \in Turns : ~Live(t)
    BY <2>1 DEF OpenNow, Floor
  <2>3. pc["run"] \notin Early
    BY <2>1 DEF LoopInv, RoleInv, Alone, Asks
  <2> QED BY <1>1, <1>3, <2>1, <2>2, <2>3, Kinds DEF Talking, Begins, Greets
<1>4. CASE s \in Turns
  <2>1. Live(s)
    BY <1>1, <1>4
  <2>2. pc["run"] \notin Greets /\ ~Asks
    BY <1>4, <2>1 DEF OpenNow, Floor
  <2>3. pc["run"] \notin Early
    BY <1>4, <2>1 DEF LoopInv, RoleInv, Alone, Live
  <2>4. \A t \in Turns \ {s} : ~Live(t)
    BY <1>4, <2>1 DEF OneTurn
  <2> QED BY <1>1, <1>4, <2>2, <2>3, <2>4, Kinds DEF Talking, Begins, Greets, Asks
<1> QED BY <1>2, <1>3, <1>4, Kinds

\* What a calm step leaves as it was.
LEMMA CalmFacts ==
  ASSUME OpenNow, NEW p \in Proc, Calm(p)
  PROVE  /\ cancelled' = {}
         /\ \A w \in Proc \ {p} : pc'[w] = pc[w]
         /\ \A w \in Speaker \ {p} : /\ (Talking(w))' <=> Talking(w)
                                     /\ (Begins(w))' <=> Begins(w)
                                     /\ Talking(w) => ((Here(ProcTask(w)))' <=> Here(ProcTask(w)))
                                     /\ w \in {"run", "watchdog"} /\ Begins(w) => (Leads(ProcTask(w)))'
         /\ \A t \in Turns \ {p} : ((Live(t))' <=> Live(t)) /\ (pc'[t] \in Unspoken <=> pc[t] \in Unspoken)
         /\ p # "run" => (pc["run"] = "waiting" => ~(Here(ProcTask("run")))') /\ pc'["run"] = pc["run"]
         /\ p # "consumer" => /\ (Cuts' <=> Cuts) /\ ((Live("consumer"))' <=> Live("consumer"))
                              /\ pc'["consumer"] = pc["consumer"]
                              /\ \A s : joining["consumer"] = PlayTask(s) => joining'["consumer"] = joining["consumer"]
         /\ p # "watchdog" => (Asks' <=> Asks) /\ ((Live("watchdog"))' <=> Live("watchdog"))
                              /\ pc'["watchdog"] = pc["watchdog"]
<1>1. /\ \A w \in Proc \ {p} : pc'[w] = pc[w]
      /\ \A w \in Proc \ {p} : pc[w] \in {"announced", "speaking", "waiting"} =>
            ((Here(ProcTask(w)))' <=> Here(ProcTask(w)))
      /\ \A w \in Proc \ {p} : w \in {"run", "watchdog"} /\ Begins(w) => (Leads(ProcTask(w)))'
      /\ \A w \in Proc \ {p} : \A s : joining[w] = PlayTask(s) => joining'[w] = joining[w]
      /\ cancelled' = {}
  BY DEF Calm, OpenNow, Underway
<1>2. /\ "run" \in Proc /\ "watchdog" \in Proc /\ "consumer" \in Proc /\ Speaker \subseteq Proc /\ Turns \subseteq Proc
      /\ pc["run"] = "waiting" => ~Here(ProcTask("run"))
  BY Kinds DEF OpenNow, Underway
<1> HIDE DEF Here, Leads
<1>3. \A w \in Speaker \ {p} : /\ (Talking(w))' <=> Talking(w)
                               /\ (Begins(w))' <=> Begins(w)
                               /\ Talking(w) => ((Here(ProcTask(w)))' <=> Here(ProcTask(w)))
                               /\ w \in {"run", "watchdog"} /\ Begins(w) => (Leads(ProcTask(w)))'
  BY <1>1, <1>2 DEF Talking, Begins
<1>4. \A t \in Turns \ {p} : ((Live(t))' <=> Live(t)) /\ (pc'[t] \in Unspoken <=> pc[t] \in Unspoken)
  BY <1>1, <1>2 DEF Live
<1>5. p # "run" => (pc["run"] = "waiting" => ~(Here(ProcTask("run")))') /\ pc'["run"] = pc["run"]
  BY <1>1, <1>2
<1>6. p # "consumer" => /\ (Cuts' <=> Cuts) /\ ((Live("consumer"))' <=> Live("consumer"))
                        /\ pc'["consumer"] = pc["consumer"]
                        /\ \A s : joining["consumer"] = PlayTask(s) => joining'["consumer"] = joining["consumer"]
  BY <1>1, <1>2 DEF Cuts, Live
<1>7. p # "watchdog" => (Asks' <=> Asks) /\ ((Live("watchdog"))' <=> Live("watchdog"))
                        /\ pc'["watchdog"] = pc["watchdog"]
  BY <1>1, <1>2 DEF Asks, Live
<1> QED BY <1>1, <1>3, <1>4, <1>5, <1>6, <1>7

\* A calm step keeps the call under way.
LEMMA UnderwayStays ==
  ASSUME OpenNow, NEW p \in Proc, NEW l, Calm(p), pc'[p] = l,
         state' # "ended", inbox' = inbox \/ ~In("end", inbox'),
         l \notin {"hung up", "bounded", "expired"},
         p = "run" => /\ l \in Early \cup Greets \cup {"waiting"}
                      /\ l = "waiting" => ~(Here(ProcTask("run")))'
                      /\ l \notin Early => pc["run"] \notin Early,
         p \in {"consumer", "watchdog"} => l \notin {"idle", "done"} \/ pc["run"] \in Early
  PROVE  Underway'
<1>1. \A w \in Proc : pc'[w] \notin {"hung up", "bounded", "expired"}
  BY CalmFacts DEF OpenNow, Underway
<1>2. ~In("end", inbox')
  BY DEF OpenNow, Underway
<1>3. pc'["run"] \in Early \cup Greets \cup {"waiting"}
  BY CalmFacts DEF OpenNow, Underway
<1>4. pc'["run"] = "waiting" => ~(Here(ProcTask("run")))'
  BY CalmFacts
<1>5. pc'["run"] \notin Early => (Live("consumer"))' /\ (Live("watchdog"))'
  <2> SUFFICES ASSUME pc'["run"] \notin Early
               PROVE  (Live("consumer"))' /\ (Live("watchdog"))'
    OBVIOUS
  <2>1. pc["run"] \notin Early
    BY CalmFacts
  <2>2. Live("consumer") /\ Live("watchdog")
    BY <2>1 DEF OpenNow, Underway
  <2> QED BY <2>1, <2>2, CalmFacts DEF Live
<1>6. cancelled' = {}
  BY CalmFacts
<1> HIDE DEF Here, In, Live
<1> QED BY <1>1, <1>2, <1>3, <1>4, <1>5, <1>6 DEF Underway

\* A line is begun.
LEMMA SpeakPlayOpen ==
  ASSUME TypeOK, LoopInv, OneTurn, OpenNow, Ordinary, NEW s \in Speaker, SpeakPlay(s)
  PROVE  OpenNow'
<1>1. s \in Proc /\ s # "consumer" /\ s \in Speaker
  BY Kinds
<1>2. /\ pc[s] = "play" /\ Leads(ProcTask(s)) /\ state' = "speaking" /\ audible' = FALSE
      /\ finished' = finished \ {s} /\ speaking' = s /\ play' = [play EXCEPT ![s] = "new"]
      /\ pc' = [pc EXCEPT ![s] = "announced"] /\ joining' = [joining EXCEPT ![s] = NoTask]
      /\ cancelled' = cancelled \ {s} /\ ready' = Append(ready, PlayTask(s))
      /\ UNCHANGED <<utterance, idle, inbox>>
  BY <1>1, RunsLeads, PlayContinues DEF SpeakPlay, Ordinary, caller, patience
<1>3. /\ pc'[s] = "announced" /\ play'[s] = "new" /\ \A w \in Speaker \ {s} : play'[w] = play[w]
  BY <1>1, <1>2 DEF TypeOK, ControlOK, SoundOK
<1>4. Calm(s)
  <2> DEFINE q == <<PlayTask(s)>>
  <2>1. q \in Seq(Task) /\ Len(q) = 1 /\ q[1] = PlayTask(s)
    BY TaskNames
  <2>2. ready' = ready \o q
    BY <1>2, AppendIsConcat, TaskNames DEF TypeOK, ControlOK
  <2> HIDE DEF q
  <2>3. \A w : ~In(ProcTask(w), q)
    BY <2>1, Names DEF In
  <2>4. \A w \in Proc \ {s} : pc'[w] = pc[w] /\ joining'[w] = joining[w]
    BY <1>2 DEF TypeOK, ControlOK
  <2> QED BY <1>1, <1>2, <2>1, <2>2, <2>3, <2>4, FloorLeads, CalmGrows
<1>5. Begins(s)
  BY <1>2 DEF Begins
<1>6. /\ \A w \in Speaker \ {s} : ~Talking(w) /\ ~Begins(w) /\ play[w] = "over"
      /\ \A t \in Turns \ {s} : ~Live(t) /\ pc[t] \notin Unspoken
      /\ s # "run" => pc["run"] \notin Greets
      /\ s # "watchdog" => ~Asks
      /\ pc["run"] \notin Early
  BY <1>5, HasFloor DEF OpenNow, OnAir
<1>7. s # "watchdog" => utterance = "idle"
  <2>1. s = "run" => utterance = "idle"
    BY <1>5 DEF OpenNow, Floor
  <2>2. s \in Turns => utterance = "idle"
    BY <1>2 DEF OpenNow, Floor, Unspoken
  <2> QED BY <2>1, <2>2, Kinds
<1>8. ~Cuts
  <2>1. s \in Turns => pc[s] \in Unspoken
    BY <1>2 DEF Unspoken
  <2> QED BY <1>5, <2>1, Kinds DEF OpenNow, Barge
<1>9. Underway'
  <2>1. "announced" \in Greets
    BY DEF Greets
  <2>2. s = "run" => pc["run"] \notin Early
    BY <1>6
  <2> QED BY <1>1, <1>2, <1>3, <1>4, <2>1, <2>2, UnderwayStays
<1>10. Floor'
  <2>1. ~(Begins(s))' /\ pc'[s] \notin Unspoken
    BY <1>3 DEF Begins, Unspoken
  <2>2. ~(Begins("run"))' /\ ~(Begins("watchdog"))' /\ \A t \in Turns : pc'[t] \notin Unspoken
    BY <1>1, <1>4, <1>6, <2>1, CalmFacts, Kinds
  <2>3. pc'["run"] \notin Early
    BY <1>1, <1>3, <1>4, <1>6, CalmFacts DEF Early
  <2>4. pc'["run"] \in Greets => ~Asks' /\ \A t \in Turns : ~(Live(t))'
    <3>1. CASE s = "run"
      BY <1>1, <1>4, <1>6, <3>1, CalmFacts, Kinds
    <3>2. CASE s # "run"
      BY <1>1, <1>4, <1>6, <3>2, CalmFacts
    <3> QED BY <3>1, <3>2
  <2>5. Asks' => \A t \in Turns : ~(Live(t))'
    <3>1. CASE s = "watchdog"
      BY <1>1, <1>4, <1>6, <3>1, CalmFacts, Kinds
    <3>2. CASE s # "watchdog"
      BY <1>1, <1>4, <1>6, <3>2, CalmFacts
    <3> QED BY <3>1, <3>2
  <2> HIDE DEF Begins, Asks, Live, Leads
  <2> QED BY <1>2, <2>2, <2>3, <2>4, <2>5 DEF Floor
<1>11. ASSUME NEW w \in Speaker PROVE (OnAir(w))'
  <2>1. CASE w = s
    <3>1. (Talking(s))'
      BY <1>3 DEF Talking
    <3> QED BY <1>2, <1>3, <1>7, <2>1, <3>1 DEF OnAir
  <2>2. CASE w # s
    <3>1. ~(Talking(w))' /\ play'[w] = "over"
      BY <1>1, <1>3, <1>4, <1>6, <2>2, CalmFacts
    <3> QED BY <3>1 DEF OnAir, Talking
  <2> QED BY <2>1, <2>2
<1>12. Barge'
  BY <1>1, <1>4, <1>8, CalmFacts DEF Barge
<1> QED BY <1>9, <1>10, <1>11, <1>12 DEF OpenNow

\* No task moves, and the conversation stays where it is.
LEMMA SoundFloor ==
  ASSUME OpenNow, UNCHANGED <<pc, state, utterance, inbox, cancelled>>,
         pc["run"] = "waiting" => ~(Here(ProcTask("run")))',
         \A w \in {"run", "watchdog"} : Begins(w) => (Leads(ProcTask(w)))'
  PROVE  Underway' /\ Floor'
<1>1. /\ (Asks' <=> Asks) /\ (Live("consumer"))' = Live("consumer") /\ (Live("watchdog"))' = Live("watchdog")
      /\ \A w : ((Live(w))' <=> Live(w)) /\ ((Begins(w))' <=> Begins(w))
  BY DEF Asks, Live, Begins
<1>2. Underway'
  BY <1>1 DEF OpenNow, Underway
<1>3. Floor'
  <2> HIDE DEF Begins, Asks, Live, Leads
  <2> QED BY <1>1 DEF OpenNow, Floor
<1> QED BY <1>2, <1>3

\* A playback that starts keeps the call open.
LEMMA PlayStartsOpen ==
  ASSUME TypeOK, LoopInv, OpenNow, NEW s \in Speaker, PlayStarts(s)
  PROVE  OpenNow'
<1>1. /\ Leads(PlayTask(s)) /\ play[s] = "new" /\ play' = [play EXCEPT ![s] = "playing"]
      /\ ready' = Tail(ready)
      /\ UNCHANGED <<pc, state, utterance, idle, inbox, cancelled, joining, finished, speaking, audible>>
  BY DEF PlayStarts, Leads, caller, patience
<1>2. \A y : (Here(y))' <=> Here(y) /\ y # PlayTask(s)
  BY <1>1, InTail DEF LoopInv, QueueInv, TypeOK, ControlOK, Leads, Here
<1>3. \A w : (Here(ProcTask(w)))' <=> Here(ProcTask(w))
  BY <1>2, Names
<1>4. \A w \in {"run", "watchdog"} : ~Begins(w)
  BY <1>1, FloorLeads, Names DEF Leads
<1>5. Underway' /\ Floor'
  BY <1>1, <1>3, <1>4, SoundFloor DEF OpenNow, Underway
<1>6. play'[s] = "playing" /\ \A w \in Speaker \ {s} : play'[w] = play[w]
  BY <1>1 DEF TypeOK, SoundOK
<1>7. \A w : (Talking(w))' <=> Talking(w)
  BY <1>1 DEF Talking
<1> HIDE DEF Here, Leads
<1>8. ASSUME NEW w \in Speaker PROVE (OnAir(w))'
  <2>1. w = s => pc[w] # "announced"
    <3>1. w = s => ~Leads(ProcTask(w))
      BY <1>1, Names DEF Leads
    <3> QED BY <3>1, Kinds DEF LoopInv, QueueInv, InPlace, PassesBy, Passing
  <2>2. OnAir(w)
    BY DEF OpenNow
  <2> HIDE DEF Talking
  <2>3. CASE w = s
    BY <1>1, <1>3, <1>6, <1>7, <2>1, <2>2, <2>3 DEF OnAir
  <2>4. CASE w # s
    BY <1>1, <1>3, <1>6, <1>7, <2>2, <2>4 DEF OnAir
  <2> QED BY <2>3, <2>4
<1>9. Barge'
  <2>1. \A w \in Speaker : play[w] = "stopping" => play'[w] = "stopping"
    BY <1>1, <1>6
  <2>2. \A w : (Begins(w))' <=> Begins(w)
    BY <1>1 DEF Begins
  <2> HIDE DEF Talking, Begins
  <2> QED BY <1>1, <1>3, <1>7, <2>1, <2>2 DEF OpenNow, Barge, Cuts
<1> QED BY <1>5, <1>8, <1>9 DEF OpenNow

\* A chunk that reaches the caller keeps the call open.
LEMMA ChunkSentOpen ==
  ASSUME TypeOK, OpenNow, NEW s \in Speaker, ChunkSent(s)
  PROVE  OpenNow'
<1>1. /\ play[s] = "playing" /\ audible' = TRUE
      /\ UNCHANGED <<pc, ready, state, utterance, idle, inbox, cancelled, joining, play, finished, speaking>>
  BY DEF ChunkSent, loop, caller, patience
<1>2. \A y : ((Here(y))' <=> Here(y)) /\ ((Leads(y))' <=> Leads(y))
  BY <1>1 DEF Here, Leads
<1>3. \A w : ((Talking(w))' <=> Talking(w)) /\ ((Begins(w))' <=> Begins(w))
  BY <1>1 DEF Talking, Begins
<1>4. Underway' /\ Floor'
  BY <1>1, <1>2, FloorLeads, SoundFloor DEF OpenNow, Underway
<1> HIDE DEF Here, Leads, Talking, Begins
<1>5. ASSUME NEW w \in Speaker PROVE (OnAir(w))'
  <2>1. OnAir(w) /\ OnAir(s)
    BY DEF OpenNow
  <2>2. play[w] # "new"
    BY <1>1, <2>1 DEF OnAir
  <2> QED BY <1>1, <1>2, <1>3, <2>1, <2>2 DEF OnAir
<1>6. Barge'
  BY <1>1, <1>2, <1>3 DEF OpenNow, Barge, Cuts
<1> QED BY <1>4, <1>5, <1>6 DEF OpenNow

\* A playback that is over wakes its speaker.
LEMMA PlayOverOpen ==
  ASSUME TypeOK, LoopInv, OpenNow, NEW s \in Speaker, play[s] \in {"playing", "stopping"},
         play' = [play EXCEPT ![s] = "over"],
         \A w \in Proc : pc[w] \in {"announced", "speaking", "waiting"} =>
           ((Here(ProcTask(w)))' <=> Here(ProcTask(w)) \/ (w = s /\ pc[w] = "speaking")),
         \A w \in {"run", "watchdog"} : Begins(w) => (Leads(ProcTask(w)))',
         \A w : w # s /\ joining["consumer"] = PlayTask(w) => joining'["consumer"] = PlayTask(w),
         finished' = finished \cup {s},
         UNCHANGED <<pc, state, utterance, idle, inbox, cancelled, speaking, audible>>
  PROVE  OpenNow'
<1>1. play'[s] = "over" /\ \A w \in Speaker \ {s} : play'[w] = play[w]
  BY DEF TypeOK, SoundOK
<1>2. pc[s] = "speaking" /\ Talking(s) /\ speaking = s /\ (Here(ProcTask(s)))'
  <2>1. OnAir(s) /\ s \in Proc
    BY Kinds DEF OpenNow
  <2> QED BY <2>1 DEF OnAir, Talking
<1>3. \A w \in Speaker \ {s} : Talking(w) => ((Here(ProcTask(w)))' <=> Here(ProcTask(w)))
  BY Kinds DEF Talking
<1>4. Underway' /\ Floor'
  <2>1. pc["run"] = "waiting" => ~(Here(ProcTask("run")))'
    BY Kinds DEF OpenNow, Underway
  <2> QED BY <2>1, SoundFloor
<1>5. \A w : ((Talking(w))' <=> Talking(w)) /\ ((Begins(w))' <=> Begins(w))
  BY DEF Talking, Begins
<1> HIDE DEF Here, Leads
<1>6. ASSUME NEW w \in Speaker PROVE (OnAir(w))'
  <2>1. OnAir(w)
    BY DEF OpenNow
  <2>2. CASE w = s
    <3>1. state = "speaking" \/ (state = "listening" /\ idle = 0 /\ utterance # "speech")
      BY <1>2, <2>1, <2>2 DEF OnAir
    <3>2. s # "watchdog" => utterance \in {"idle", "onset"}
      BY <1>2, <2>1, <2>2 DEF OnAir
    <3> HIDE DEF Talking
    <3> QED BY <1>1, <1>2, <1>5, <2>2, <3>1, <3>2 DEF OnAir
  <2>3. CASE w # s
    <3>1. play[w] = "over"
      BY <1>2, <2>1, <2>3 DEF OnAir
    <3>2. pc[w] # "announced"
      BY <2>1, <3>1 DEF OnAir
    <3>3. pc[w] = "speaking" => Talking(w)
      BY DEF Talking
    <3> HIDE DEF Talking
    <3> QED BY <1>1, <1>3, <1>5, <2>1, <2>3, <3>1, <3>2, <3>3 DEF OnAir
  <2> QED BY <2>2, <2>3
<1>7. Barge'
  <2> HIDE DEF Talking, Begins
  <2>1. \A w \in Speaker : (Talking(w))' => (Here(ProcTask(w)))' \/ play'[w] = "stopping" \/ ~Cuts
    BY <1>1, <1>2, <1>3, <1>5 DEF OpenNow, Barge
  <2>2. Cuts' <=> Cuts
    BY DEF Cuts
  <2> QED BY <1>5, <2>1, <2>2 DEF OpenNow, Barge
<1> QED BY <1>4, <1>6, <1>7 DEF OpenNow

\* A line spoken to its end keeps the call open.
LEMMA PlayEndsOpen ==
  ASSUME TypeOK, LoopInv, OpenNow, NEW s \in Speaker, PlayEnds(s)
  PROVE  OpenNow'
<1>1. /\ play[s] = "playing" /\ play' = [play EXCEPT ![s] = "over"] /\ finished' = finished \cup {s}
      /\ ready' = ready \o WakeSpeaker(s)
      /\ UNCHANGED <<pc, state, utterance, idle, inbox, cancelled, joining, speaking, audible>>
  BY DEF PlayEnds, caller, patience
<1>2. /\ WakeSpeaker(s) \in Seq(Task)
      /\ \A y : In(y, WakeSpeaker(s)) <=> y = ProcTask(s) /\ pc[s] = "speaking" /\ ~Here(y)
  BY WakesFresh DEF LoopInv, Fresh
<1>3. /\ \A y : (Here(y))' <=> Here(y) \/ In(y, WakeSpeaker(s))
      /\ \A y : Leads(y) => (Leads(y))'
  BY <1>1, <1>2, InConcat DEF TypeOK, ControlOK, Here, Leads
<1>4. \A w : (Here(ProcTask(w)))' <=> Here(ProcTask(w)) \/ (w = s /\ pc[s] = "speaking")
  BY <1>2, <1>3, Names
<1>5. \A w \in {"run", "watchdog"} : Begins(w) => (Leads(ProcTask(w)))'
  BY <1>3, FloorLeads
<1>6. \A w \in Proc : pc[w] \in {"announced", "speaking", "waiting"} =>
        ((Here(ProcTask(w)))' <=> Here(ProcTask(w)) \/ (w = s /\ pc[w] = "speaking"))
  BY <1>4
<1>7. \A w : w # s /\ joining["consumer"] = PlayTask(w) => joining'["consumer"] = PlayTask(w)
  BY <1>1
<1>8. play[s] \in {"playing", "stopping"}
  BY <1>1
<1> HIDE DEF Here, Leads
<1> QED BY <1>1, <1>5, <1>6, <1>7, <1>8, PlayOverOpen

\* A cut playback that is over keeps the call open.
LEMMA PlayCancelledOpen ==
  ASSUME TypeOK, LoopInv, OpenNow, NEW s \in Speaker, PlayCancelled(s)
  PROVE  OpenNow'
<1>1. play[s] # "stillborn"
  BY DEF OpenNow, OnAir
<1>2. /\ Leads(PlayTask(s)) /\ play[s] = "stopping" /\ play' = [play EXCEPT ![s] = "over"]
      /\ finished' = finished \cup {s} /\ TaskOver(PlayTask(s), WakeSpeaker(s))
      /\ UNCHANGED <<pc, state, utterance, idle, inbox, cancelled, speaking, audible>>
  BY <1>1 DEF PlayCancelled, caller, patience, Leads
<1> DEFINE x == PlayTask(s)
<1>3. PICK woken \in Orders(Joiners(x)) : ready' = Tail(ready) \o WakeSpeaker(s) \o woken
  BY <1>2 DEF TaskOver
<1>4. /\ woken \in Seq(Task) /\ \A y : In(y, woken) <=> \E w \in Proc : y = ProcTask(w) /\ joining[w] = x
  <2>1. Joiners(x) \in SUBSET Proc
    BY DEF Joiners
  <2> QED BY <1>3, <2>1, OrdersFacts DEF Joiners
<1>5. /\ Tail(ready) \in Seq(Task) /\ \A y : In(y, Tail(ready)) <=> Here(y) /\ y # x
  BY <1>2, InTail DEF LoopInv, QueueInv, TypeOK, ControlOK, Leads, Here
<1>6. /\ WakeSpeaker(s) \in Seq(Task)
      /\ \A y : In(y, WakeSpeaker(s)) <=> y = ProcTask(s) /\ pc[s] = "speaking" /\ ~Here(y)
  BY WakesFresh DEF LoopInv, Fresh
<1>7. \A y : In(y, ready') <=> In(y, Tail(ready)) \/ In(y, WakeSpeaker(s)) \/ In(y, woken)
  <2>1. PICK a, b \in Seq(Task) : a = Tail(ready) /\ b = WakeSpeaker(s)
    BY <1>5, <1>6
  <2>2. a \o b \in Seq(Task) /\ \A y : In(y, a \o b) <=> In(y, a) \/ In(y, b)
    BY InConcat
  <2>3. \A y : In(y, a \o b \o woken) <=> In(y, a \o b) \/ In(y, woken)
    BY <1>4, <2>2, InConcat
  <2>4. ready' = a \o b \o woken
    BY <1>3, <2>1
  <2> HIDE DEF In
  <2> QED BY <2>1, <2>2, <2>3, <2>4
<1>8. \A w \in Proc : joining[w] = x => pc[w] \notin {"announced", "speaking", "waiting"}
  <2> SUFFICES ASSUME NEW w \in Proc, joining[w] = x
               PROVE  pc[w] \notin {"announced", "speaking", "waiting"}
    OBVIOUS
  <2>1. MayAwait(w, pc[w], x)
    BY Names DEF LoopInv, QueueInv, InPlace
  <2> QED BY <2>1, Names DEF MayAwait, OnPlay
<1>9. \A w \in Proc : (Here(ProcTask(w)))' <=>
        Here(ProcTask(w)) \/ (w = s /\ pc[s] = "speaking") \/ joining[w] = x
  BY <1>4, <1>5, <1>6, <1>7, Names DEF Here
<1>10. \A w \in Proc : pc[w] \in {"announced", "speaking", "waiting"} =>
         ((Here(ProcTask(w)))' <=> Here(ProcTask(w)) \/ (w = s /\ pc[w] = "speaking"))
  BY <1>8, <1>9
<1>11. \A w \in {"run", "watchdog"} : ~Begins(w)
  BY <1>2, FloorLeads, Names DEF Leads
<1>12. \A w : w # s /\ joining["consumer"] = PlayTask(w) => joining'["consumer"] = PlayTask(w)
  BY <1>2, Names, Kinds DEF TaskOver
<1> HIDE DEF Here, Leads, x
<1> QED BY <1>2, <1>10, <1>11, <1>12, PlayOverOpen

\* A speaker that begins to wait for its line keeps the call open.
LEMMA SpeakAwaitOpen ==
  ASSUME TypeOK, LoopInv, OneTurn, OpenNow, NEW s \in Speaker, SpeakAwait(s)
  PROVE  OpenNow'
<1>1. s \in Proc /\ s # "consumer"
  BY Kinds
<1>2. /\ pc[s] = "announced" /\ Leads(ProcTask(s))
      /\ UNCHANGED <<state, utterance, idle, inbox, play, finished, speaking, audible>>
  BY RunsLeads DEF SpeakAwait, voice, caller, patience
<1>3. play[s] = "new" /\ s \notin finished /\ state = "speaking" /\ (s # "watchdog" => utterance = "idle")
  BY <1>2 DEF OpenNow, OnAir
<1>4. Suspend(s, "speaking", NoTask, <<>>)
  BY <1>3 DEF SpeakAwait
<1>5. Calm(s) /\ pc'[s] = "speaking" /\ ~(Here(ProcTask(s)))'
  BY <1>1, <1>2, <1>4, FloorLeads, CalmAwaits
<1>6. Talking(s)
  BY <1>2 DEF Talking
<1>7. /\ \A w \in Speaker \ {s} : ~Talking(w) /\ ~Begins(w)
      /\ \A t \in Turns \ {s} : ~Live(t) /\ pc[t] \notin Unspoken
      /\ s # "run" => pc["run"] \notin Greets
      /\ s # "watchdog" => ~Asks
      /\ pc["run"] \notin Early
  BY <1>6, HasFloor
<1>8. ~Cuts
  BY <1>2 DEF OpenNow, Barge
<1>9. Underway'
  <2>1. "speaking" \in Greets
    BY DEF Greets
  <2>2. s = "run" => pc["run"] \notin Early
    BY <1>7
  <2>3. state' # "ended"
    BY <1>2, <1>3
  <2> QED BY <1>1, <1>2, <1>5, <2>1, <2>2, <2>3, UnderwayStays
<1>10. Floor'
  <2>1. ~(Begins(s))' /\ pc'[s] \notin Unspoken
    BY <1>5 DEF Begins, Unspoken
  <2>2. ~(Begins("run"))' /\ ~(Begins("watchdog"))' /\ \A t \in Turns : pc'[t] \notin Unspoken
    BY <1>1, <1>5, <1>7, <2>1, CalmFacts, Kinds
  <2>3. pc'["run"] \notin Early
    BY <1>1, <1>5, <1>7, CalmFacts DEF Early
  <2>4. pc'["run"] \in Greets => ~Asks' /\ \A t \in Turns : ~(Live(t))'
    <3>1. CASE s = "run"
      BY <1>1, <1>5, <1>7, <3>1, CalmFacts, Kinds
    <3>2. CASE s # "run"
      BY <1>1, <1>5, <1>7, <3>2, CalmFacts
    <3> QED BY <3>1, <3>2
  <2>5. Asks' => \A t \in Turns : ~(Live(t))'
    <3>1. CASE s = "watchdog"
      BY <1>1, <1>5, <1>7, <3>1, CalmFacts, Kinds
    <3>2. CASE s # "watchdog"
      BY <1>1, <1>5, <1>7, <3>2, CalmFacts
    <3> QED BY <3>1, <3>2
  <2> HIDE DEF Begins, Asks, Live, Leads
  <2> QED BY <1>2, <1>3, <2>2, <2>3, <2>4, <2>5 DEF Floor
<1>11. ASSUME NEW w \in Speaker PROVE (OnAir(w))'
  <2>0. OnAir(w)
    BY DEF OpenNow
  <2>1. CASE w = s
    <3>1. (Talking(s))'
      BY <1>5 DEF Talking
    <3> QED BY <1>2, <1>3, <1>5, <2>0, <2>1, <3>1 DEF OnAir, Talking
  <2>2. CASE w # s
    <3>1. ~(Talking(w))' /\ play'[w] = "over"
      BY <1>1, <1>2, <1>5, <1>7, <2>0, <2>2, CalmFacts DEF OnAir
    <3> QED BY <3>1 DEF OnAir, Talking
  <2> QED BY <2>1, <2>2
<1>12. Barge'
  BY <1>1, <1>5, <1>8, CalmFacts DEF Barge
<1> QED BY <1>9, <1>10, <1>11, <1>12 DEF OpenNow

\* Nobody but s speaks, is about to, or has a turn under way.
Sole(s) ==
  /\ \A w \in Speaker \ {s} : ~Talking(w) /\ ~Begins(w)
  /\ \A t \in Turns \ {s} : ~Live(t) /\ pc[t] \notin Unspoken
  /\ s # "run" => pc["run"] \notin Greets
  /\ s # "watchdog" => ~Asks
  /\ pc["run"] \notin Early

\* Somebody speaks whenever the state says so.
Spoke == state = "speaking" => \E s \in Speaker : Talking(s)

\* Who had the floor leaves it.
LEMMA FloorLeft ==
  ASSUME TypeOK, LoopInv, OpenNow, NEW s \in Speaker, Sole(s), Calm(s), NEW l, pc'[s] = l,
         l \in {"greeted", "waiting", "again", "closing", "spoken", "act", "hangup", "done"},
         s = "run" => l \in {"greeted", "waiting"},
         l = "waiting" => ~(Here(ProcTask("run")))',
         s = "watchdog" => l # "done",
         play' = play, play[s] = "over", state' \notin {"ended", "thinking"}, inbox' = inbox,
         Cuts => state' = "speaking" \/ idle' = 0
  PROVE  OpenNow'
<1>1. s \in Proc /\ s # "consumer"
  BY Kinds
<1>2. Underway'
  <2>1. "greeted" \in Greets
    BY DEF Greets
  <2>2. s = "run" => pc["run"] \notin Early
    BY DEF Sole
  <2> QED BY <1>1, <2>1, <2>2, UnderwayStays
<1>3. ~(Begins(s))' /\ ~(Talking(s))' /\ pc'[s] \notin Unspoken
  BY DEF Begins, Talking, Unspoken
<1>4. /\ \A w \in Speaker : ~(Begins(w))' /\ ~(Talking(w))' /\ play'[w] = "over"
      /\ \A t \in Turns : pc'[t] \notin Unspoken
  <2>1. \A w \in Speaker \ {s} : ~Talking(w) /\ ~Begins(w) /\ play[w] = "over"
    BY DEF OpenNow, OnAir, Sole
  <2>2. \A w \in Speaker \ {s} : ~(Talking(w))' /\ ~(Begins(w))' /\ play'[w] = "over"
    BY <1>1, <2>1, CalmFacts
  <2>3. \A t \in Turns \ {s} : pc'[t] \notin Unspoken
    BY <1>1, CalmFacts DEF Sole
  <2> QED BY <1>3, <2>2, <2>3
<1>5. Floor'
  <2>1. ~(Begins("run"))' /\ ~(Begins("watchdog"))'
    BY <1>4, Kinds
  <2>2. pc'["run"] \notin Early
    <3>1. l \notin Early
      BY DEF Early
    <3> QED BY <1>1, <3>1, CalmFacts DEF Sole
  <2>3. pc'["run"] \in Greets => ~Asks' /\ \A t \in Turns : ~(Live(t))'
    <3>1. CASE s = "run"
      BY <1>1, <3>1, CalmFacts, Kinds DEF Sole
    <3>2. CASE s # "run"
      BY <1>1, <3>2, CalmFacts DEF Sole
    <3> QED BY <3>1, <3>2
  <2>4. Asks' => \A t \in Turns : ~(Live(t))'
    <3>1. CASE s = "watchdog"
      <4>1. ~Asks'
        BY <3>1 DEF Asks
      <4> QED BY <4>1
    <3>2. CASE s # "watchdog"
      BY <1>1, <3>2, CalmFacts DEF Sole
    <3> QED BY <3>1, <3>2
  <2> HIDE DEF Begins, Asks, Live, Leads
  <2> QED BY <1>4, <2>1, <2>2, <2>3, <2>4 DEF Floor
<1>6. \A w \in Speaker : (OnAir(w))'
  BY <1>4 DEF OnAir, Talking
<1>7. Barge'
  <2>1. Cuts' <=> Cuts
    BY <1>1, CalmFacts
  <2>2. \A w \in Speaker : pc'[w] # "announced"
    BY <1>4 DEF Talking
  <2> HIDE DEF Begins, Talking
  <2> QED BY <1>4, <2>1, <2>2, Kinds DEF Barge
<1> QED BY <1>2, <1>5, <1>6, <1>7 DEF OpenNow

\* A speaker takes its line back, wherever it goes on.
LEMMA SpeakReturnOpen ==
  ASSUME TypeOK, LoopInv, OneTurn, OpenNow, Ordinary, NEW s \in Speaker, SpeakReturn(s)
  PROVE  OpenNow'
<1>1. s \in Proc /\ s # "consumer" /\ Unhindered
  BY Kinds DEF Ordinary
<1>2. /\ pc[s] = "speaking" /\ Leads(ProcTask(s)) /\ play' = play /\ idle' = 0 /\ inbox' = inbox
      /\ state' = IF state = "speaking" THEN "listening" ELSE state
  BY RunsLeads DEF SpeakReturn
<1>3. PICK l \in Resumes(s) : l = then[s]
  BY <1>2 DEF LoopInv, RoleInv, Plans
<1>4. Continue(s, l)
  BY <1>1, <1>2, <1>3, Kinds, SendContinues DEF SpeakReturn, Sends, Resumes
<1>5. /\ l \in {"greeted", "again", "closing", "spoken", "act"}
      /\ s = "run" => l = "greeted"
  BY <1>3, Kinds DEF Resumes
<1>6. Calm(s) /\ pc'[s] = l
  BY <1>1, <1>4, FloorLeads, CalmContinue
<1>7. Talking(s)
  BY <1>2 DEF Talking
<1>8. Sole(s)
  BY <1>7, HasFloor DEF Sole
<1>9. play[s] = "over" /\ state \in {"speaking", "listening"}
  <2>1. Here(ProcTask(s))
    BY <1>1, <1>2, LeadsLives DEF LoopInv
  <2> HIDE DEF Here
  <2> QED BY <1>2, <1>7, <2>1 DEF OpenNow, OnAir
<1>10. state' \notin {"ended", "thinking"}
  BY <1>2, <1>9
<1>11. l # "done" /\ l # "waiting"
  BY <1>5
<1> QED BY <1>2, <1>5, <1>6, <1>8, <1>9, <1>10, <1>11, FloorLeft

\* run(), the greeting over, waits for the call's end.
LEMMA RunGreetedOpen ==
  ASSUME TypeOK, LoopInv, OpenNow, Spoke, ~over, RunGreeted
  PROVE  OpenNow'
<1>1. "run" \in Proc /\ "run" \in Speaker
  BY Kinds
<1>2. /\ pc["run"] = "greeted" /\ Leads(ProcTask("run")) /\ UNCHANGED <<play, idle, inbox>>
      /\ state' = IF state # "ended" THEN "listening" ELSE state
  BY RunsLeads DEF RunGreeted, voice, caller, patience
<1>3. pc["run"] \in Greets /\ pc["run"] \notin Early
  BY <1>2 DEF Greets, Early
<1>4. state # "ended" /\ Live("consumer")
  BY <1>3 DEF OpenNow, Underway
<1>5. Suspend("run", "waiting", NoTask, <<>>)
  BY <1>4 DEF RunGreeted, Live
<1>6. Calm("run") /\ pc'["run"] = "waiting" /\ ~(Here(ProcTask("run")))'
  BY <1>1, <1>2, <1>5, FloorLeads, CalmAwaits
<1>7. ~Asks /\ \A t \in Turns : ~Live(t)
  BY <1>3 DEF OpenNow, Floor
<1>8. Sole("run")
  BY <1>3, <1>7, Kinds DEF Sole, Live, Talking, Begins, Asks, Unspoken
<1>9. ~Talking("run")
  BY <1>2 DEF Talking
<1>10. play["run"] = "over" /\ state # "speaking"
  BY <1>1, <1>8, <1>9 DEF Sole, Spoke, OpenNow, OnAir
<1>11. Cuts => idle' = 0
  BY <1>2, <1>10 DEF OpenNow, Barge
<1>12. state' \notin {"ended", "thinking"}
  BY <1>2, <1>4
<1> QED BY <1>1, <1>2, <1>6, <1>8, <1>10, <1>11, <1>12, FloorLeft

\* A turn that ends, or goes on to hang up.
LEMMA TurnLeavesOpen ==
  ASSUME TypeOK, LoopInv, OneTurn, OpenNow, Spoke, Ordinary, NEW t \in Turns,
         TurnUnheard(t) \/ TurnListens(t) \/ TurnTransfers(t)
  PROVE  OpenNow'
<1>1. t \in Proc /\ t \in Speaker /\ t # "run" /\ t # "watchdog" /\ Unhindered
  BY Kinds DEF Ordinary
<1>2. /\ pc[t] \in {"unheard", "act"} /\ Leads(ProcTask(t)) /\ UNCHANGED <<play, idle, inbox>>
  BY RunsLeads DEF TurnUnheard, TurnListens, TurnTransfers, voice, caller, patience
<1>3. state' \in {"listening", "transferring"}
  BY DEF TurnUnheard, TurnListens, TurnTransfers, OpenNow, Underway
<1>4. Live(t) /\ ~Talking(t)
  BY <1>2 DEF Live, Talking
<1>5. Sole(t)
  BY <1>1, <1>4, HasFloor DEF Sole
<1>6. play[t] = "over" /\ state # "speaking"
  BY <1>1, <1>4, <1>5 DEF Sole, Spoke, OpenNow, OnAir
<1>7. Cuts => idle' = 0
  BY <1>2, <1>6 DEF OpenNow, Barge
<1>8. PICK l \in {"done", "hangup"} : Calm(t) /\ pc'[t] = l
  <2>1. CASE TurnUnheard(t) \/ TurnListens(t)
    <3>1. Return(t, <<>>)
      BY <2>1 DEF TurnUnheard, TurnListens
    <3> QED BY <1>1, <1>2, <3>1, FloorLeads, CalmReturn
  <2>2. CASE TurnTransfers(t)
    <3>1. Continue(t, "hangup")
      BY <1>1, <2>2, RunsLeads, SendContinues DEF TurnTransfers, Sends
    <3> QED BY <1>1, <3>1, FloorLeads, CalmContinue
  <2> QED BY <2>1, <2>2
<1>9. state' \notin {"ended", "thinking"} /\ l # "waiting"
  BY <1>3, <1>8
<1> QED BY <1>1, <1>2, <1>5, <1>6, <1>7, <1>8, <1>9, FloorLeft

\* The greeting and the watchdog's lines find no tone to stop.
LEMMA ServiceEntersOpen ==
  ASSUME TypeOK, LoopInv, OneTurn, OpenNow, NEW s \in {"run", "watchdog"}, holdTask = None, SpeakEnter(s)
  PROVE  OpenNow'
<1>1. s \in Proc /\ s \in Speaker /\ s # "consumer"
  BY Kinds
<1>2. /\ pc[s] = "enter" /\ Leads(ProcTask(s)) /\ state # "ended"
      /\ UNCHANGED <<state, utterance, play, speaking, audible, finished, idle, inbox>>
  BY RunsLeads DEF SpeakEnter, OpenNow, Underway, voice, caller, patience
<1>3. Continue(s, "play")
  BY <1>2 DEF SpeakEnter, StopHold
<1>4. Calm(s) /\ pc'[s] = "play" /\ (Leads(ProcTask(s)))'
  BY <1>1, <1>2, <1>3, FloorLeads, CalmContinue
<1>5. Begins(s) /\ ~Talking(s)
  BY <1>2 DEF Begins, Talking
<1>6. Sole(s)
  BY <1>1, <1>5, HasFloor DEF Sole
<1>7. Underway'
  <2>1. "play" \in Greets
    BY DEF Greets
  <2>2. s = "run" => pc["run"] \notin Early
    BY <1>6 DEF Sole
  <2>3. state' # "ended"
    BY <1>2
  <2> QED BY <1>1, <1>2, <1>4, <2>1, <2>2, <2>3, UnderwayStays
<1>8. (Begins(s))' /\ ~(Talking(s))'
  BY <1>4 DEF Begins, Talking
<1>9. Floor'
  <2>1. CASE s = "run"
    <3>1. state = "greeting" /\ utterance = "idle"
      BY <1>5, <2>1 DEF OpenNow, Floor
    <3>2. ~Asks' /\ (\A t \in Turns : ~(Live(t))' /\ pc'[t] \notin Unspoken) /\ ~(Begins("watchdog"))'
      BY <1>1, <1>4, <1>6, <2>1, CalmFacts, Kinds DEF Sole
    <3> HIDE DEF Begins, Asks, Live, Leads
    <3> QED BY <1>2, <1>4, <2>1, <3>1, <3>2 DEF Floor
  <2>2. CASE s = "watchdog"
    <3>1. state = "listening"
      BY <1>5, <2>2 DEF OpenNow, Floor
    <3>2. pc'["run"] \notin Greets /\ pc'["run"] \notin Early /\ ~(Begins("run"))'
          /\ (\A t \in Turns : ~(Live(t))' /\ pc'[t] \notin Unspoken)
      BY <1>1, <1>4, <1>6, <2>2, CalmFacts, Kinds DEF Sole
    <3> HIDE DEF Begins, Asks, Live, Leads
    <3> QED BY <1>2, <1>4, <2>2, <3>1, <3>2 DEF Floor
  <2> QED BY <2>1, <2>2
<1>10. \A w \in Speaker : ~(Talking(w))' /\ play'[w] = "over"
  <2>1. \A w \in Speaker : ~Talking(w) /\ play[w] = "over"
    BY <1>5, <1>6 DEF Sole, OpenNow, OnAir
  <2> QED BY <1>1, <1>2, <1>4, <1>8, <2>1, CalmFacts
<1>11. \A w \in Speaker : (OnAir(w))'
  BY <1>10 DEF OnAir, Talking
<1>12. Barge'
  <2>1. ~Cuts
    BY <1>5 DEF OpenNow, Barge
  <2> QED BY <1>1, <1>4, <2>1, CalmFacts DEF Barge
<1> QED BY <1>7, <1>9, <1>11, <1>12 DEF OpenNow

\* The call begins.
LEMMA RunStartsOpen ==
  ASSUME TypeOK, LoopInv, OpenNow, RunStarts
  PROVE  OpenNow'
<1> DEFINE q == <<ProcTask("watchdog"), ProcTask("consumer")>>
<1>1. /\ pc["run"] = "connected" /\ Leads(ProcTask("run")) /\ ready' = ready \o q
      /\ UNCHANGED <<state, utterance, play, speaking, audible, finished, idle, inbox, joining, cancelled>>
  BY RunsLeads DEF RunStarts, voice, caller, patience
<1>2. /\ pc'["run"] = "enter" /\ pc'["watchdog"] = "again" /\ pc'["consumer"] = "loop"
      /\ \A w \in Proc \ {"run", "watchdog", "consumer"} : pc'[w] = pc[w]
  BY Kinds DEF RunStarts, TypeOK, ControlOK
<1>3. pc["consumer"] = "idle" /\ pc["watchdog"] = "idle" /\ \A t \in Turns : pc[t] = "idle"
  BY <1>1 DEF LoopInv, RoleInv, Alone, Early
<1>4. \A s \in Speaker : ~Talking(s) /\ play[s] = "over"
  <2>1. \A s \in Speaker : ~Talking(s)
    BY <1>1, <1>3, Kinds DEF Talking
  <2> QED BY <2>1 DEF OpenNow, OnAir
<1>5. \A t \in Turns : pc'[t] = "idle"
  BY <1>2, <1>3, Kinds
<1>6. \A s \in Speaker : ~(Talking(s))' /\ play'[s] = "over"
  BY <1>1, <1>2, <1>4, <1>5, Kinds DEF Talking
<1>7. q \in Seq(Task)
  BY TaskNames, Kinds
<1>8. (Leads(ProcTask("run")))'
  BY <1>1, <1>7, InConcat DEF Leads, TypeOK, ControlOK
<1>9. state = "greeting" /\ utterance = "idle"
  BY <1>1 DEF OpenNow, Floor, Early
<1>10. Underway'
  BY <1>1, <1>2 DEF OpenNow, Underway, Greets, Early, Live
<1>11. Floor'
  <2>1. ~Asks' /\ ~(Begins("watchdog"))' /\ \A t \in Turns : ~(Live(t))' /\ pc'[t] \notin Unspoken
    BY <1>2, <1>5 DEF Asks, Begins, Live, Unspoken
  <2> HIDE DEF Begins, Asks, Live, Leads
  <2> QED BY <1>1, <1>8, <1>9, <2>1 DEF Floor
<1>12. \A s \in Speaker : (OnAir(s))'
  BY <1>6 DEF OnAir, Talking
<1>13. Barge'
  BY <1>2 DEF Barge, Cuts
<1> QED BY <1>10, <1>11, <1>12, <1>13 DEF OpenNow

\* When the loop is idle nobody is cut short, about to begin, or owed a step.
LEMMA StillLoop ==
  ASSUME LoopInv, ready = <<>>
  PROVE  /\ \A x : ~Here(x) /\ ~Leads(x)
         /\ \A p \in Proc : ~PassesBy(p, pc[p])
         /\ ~Cuts
<1>1. \A x : ~Here(x) /\ ~Leads(x)
  BY DEF Here, Leads, In
<1>2. \A p \in Proc : ~PassesBy(p, pc[p])
  BY <1>1 DEF LoopInv, QueueInv, InPlace
<1>3. pc["consumer"] # "listen"
  BY <1>2, Kinds DEF PassesBy, Passing
<1>4. pc["consumer"] # "barge in"
  <2> SUFFICES ASSUME pc["consumer"] = "barge in" PROVE FALSE
    OBVIOUS
  <2>1. InPlace("consumer")
    BY Kinds DEF LoopInv, QueueInv
  <2>2. "barge in" \in Runnable /\ "barge in" \in OnPlay /\ "barge in" \notin OnHold
    BY DEF Runnable, OnPlay, OnHold
  <2>3. MayAwait("consumer", "barge in", joining["consumer"]) /\ Alive(joining["consumer"])
    <3> HIDE DEF MayAwait, Alive, Here
    <3> QED BY <1>1, <2>1, <2>2 DEF InPlace
  <2>4. PICK s \in Speaker : joining["consumer"] = PlayTask(s)
    BY <2>2, <2>3 DEF MayAwait
  <2>5. play[s] \in {"stopping", "stillborn"}
    <3>1. \A w \in Proc : PlayTask(s) # ProcTask(w) /\ PlayTask(s) # HoldTask(w)
      BY Names
    <3>2. \E w \in Speaker : PlayTask(s) = PlayTask(w) /\ play[w] \in {"stopping", "stillborn"}
      BY <2>3, <2>4, <3>1, Kinds DEF Alive
    <3> QED BY <3>2, Names
  <2>6. Here(PlayTask(s))
    BY <2>5 DEF LoopInv, QueueInv, Pending
  <2> QED BY <1>1, <2>6
<1> HIDE DEF Here, Leads, PassesBy
<1> QED BY <1>1, <1>2, <1>3, <1>4 DEF Cuts

\* While nobody can run, who has the floor waits for the world.
LEMMA StillOpen ==
  ASSUME TypeOK, LoopInv, OpenNow, Ordinary, UtteranceGoesOn \/ SilenceGrows
  PROVE  OpenNow'
<1>1. /\ ready = <<>> /\ UNCHANGED <<pc, ready, joining, cancelled, state, play, speaking, audible, finished, inbox>>
      /\ utterance' = utterance \/ (utterance = "onset" /\ idle' = idle)
  BY InRealTime DEF UtteranceGoesOn, SilenceGrows, loop, voice, patience
<1>2. (\A x : ~Here(x) /\ ~Leads(x)) /\ ~Cuts
  BY <1>1, StillLoop
<1>3. \A x : ((Here(x))' <=> Here(x)) /\ ((Leads(x))' <=> Leads(x))
  BY <1>1 DEF Here, Leads
<1>4. /\ (Asks' <=> Asks) /\ (Cuts' <=> Cuts)
      /\ \A w : ((Live(w))' <=> Live(w)) /\ ((Begins(w))' <=> Begins(w)) /\ ((Talking(w))' <=> Talking(w))
  BY <1>1 DEF Asks, Cuts, Live, Begins, Talking
<1> HIDE DEF Here, Leads
<1>5. Underway'
  BY <1>1, <1>3, <1>4 DEF OpenNow, Underway
<1>6. Floor'
  <2>1. /\ pc["run"] \in Early => utterance' = utterance
        /\ \A t \in Turns : pc[t] \in Unspoken => utterance' = utterance
    BY <1>1 DEF OpenNow, Floor
  <2>2. \A w \in {"run", "watchdog"} : ~Begins(w)
    BY <1>2, FloorLeads
  <2> HIDE DEF Begins, Asks, Live
  <2> QED BY <1>1, <1>4, <2>1, <2>2 DEF OpenNow, Floor
<1>7. ASSUME NEW s \in Speaker PROVE (OnAir(s))'
  <2>1. OnAir(s)
    BY DEF OpenNow
  <2>2. Talking(s) => state = "speaking"
    BY <1>2, <2>1 DEF OnAir
  <2>3. Talking(s) /\ s # "watchdog" => utterance' = utterance
    BY <1>1, <1>2, <2>1 DEF OnAir
  <2>4. pc[s] = "announced" => Talking(s)
    BY DEF Talking
  <2> HIDE DEF Talking
  <2> QED BY <1>1, <1>2, <1>3, <1>4, <2>1, <2>2, <2>3, <2>4 DEF OnAir
<1>8. Barge'
  BY <1>2, <1>4 DEF Barge
<1> QED BY <1>5, <1>6, <1>7, <1>8 DEF OpenNow

\* While the caller has been silent, and the watchdog runs, nobody has the floor.
LEMMA SilenceSole ==
  ASSUME TypeOK, LoopInv, OpenNow, ~Ended, pc["watchdog"] = "tick", Leads(ProcTask("watchdog")),
         state = "listening", idle # 0
  PROVE  /\ \A w \in Speaker : ~Talking(w) /\ ~Begins(w) /\ play[w] = "over"
         /\ \A t \in Turns : ~Live(t) /\ pc[t] \notin Unspoken
         /\ pc["run"] \notin Greets /\ pc["run"] \notin Early /\ ~Cuts
<1>1. \A p \in Proc : p # "watchdog" => ~PassesBy(p, pc[p])
  BY Names DEF LoopInv, QueueInv, InPlace, Leads
<1>2. \A w \in Speaker : ~Talking(w)
  BY DEF OpenNow, OnAir
<1>3. \A t \in Turns : pc[t] \notin Unspoken
  BY DEF OpenNow, Floor
<1>4. \A t \in Turns : ~Live(t)
  <2> SUFFICES ASSUME NEW t \in Turns PROVE ~Live(t)
    OBVIOUS
  <2>1. t \in Proc /\ t # "watchdog" /\ t \in Speaker
    BY Kinds
  <2>2. pc[t] \notin {"spoken", "act", "hangup", "hung up"}
    BY <1>1, <2>1 DEF PassesBy, Passing
  <2>3. pc[t] # "sentinel"
    BY <2>1 DEF Ended
  <2> QED BY <1>2, <1>3, <2>1, <2>2, <2>3 DEF LoopInv, RoleInv, Roles, Live, Talking
<1>5. /\ ~Begins("run") /\ ~Begins("watchdog") /\ pc["run"] # "greeted"
  <2>1. ~Begins("run")
    BY DEF OpenNow, Floor
  <2>2. ~Begins("watchdog")
    BY DEF Begins
  <2> QED BY <1>1, <2>1, <2>2, Kinds DEF PassesBy, Passing
<1>6. pc["run"] \notin Greets /\ pc["run"] \notin Early
  <2>1. pc["run"] \notin Early
    BY DEF LoopInv, RoleInv, Alone
  <2> QED BY <1>2, <1>5, <2>1, Kinds DEF Greets, Begins, Talking
<1>7. \A w \in Speaker : ~Begins(w)
  BY <1>3, <1>5, Kinds DEF Begins, Unspoken
<1>8. \A w \in Speaker : play[w] = "over"
  BY <1>2 DEF OpenNow, OnAir
<1>9. ~Cuts
  BY DEF OpenNow, Barge
<1> QED BY <1>2, <1>3, <1>4, <1>6, <1>7, <1>8, <1>9

\* The watchdog takes the floor only when it is free.
LEMMA WatchdogSpeaksOpen ==
  ASSUME TypeOK, LoopInv, OpenNow, ~Ended, WatchdogAsks \/ WatchdogClosing
  PROVE  OpenNow'
<1>1. "watchdog" \in Proc
  BY Kinds
<1>2. /\ pc["watchdog"] = "tick" /\ Leads(ProcTask("watchdog")) /\ Continue("watchdog", "enter")
      /\ state = "listening" /\ UNCHANGED <<state, utterance, play, idle, inbox>>
  BY RunsLeads DEF WatchdogAsks, WatchdogClosing, voice, caller, patience
<1>3. idle # 0
  <2>1. PromptAfter \in {1, 2} /\ HangupAfter \in {1, 2}
    BY PatienceAssumption
  <2>2. idle >= PromptAfter \/ idle >= HangupAfter
    BY DEF WatchdogAsks, WatchdogClosing, MustAsk, MustClose
  <2>3. idle \in 0..2
    BY DEF TypeOK, CallerOK
  <2> QED BY <2>1, <2>2, <2>3
<1>4. /\ \A w \in Speaker : ~Talking(w) /\ ~Begins(w) /\ play[w] = "over"
      /\ \A t \in Turns : ~Live(t) /\ pc[t] \notin Unspoken
      /\ pc["run"] \notin Greets /\ pc["run"] \notin Early /\ ~Cuts
  BY <1>2, <1>3, SilenceSole
<1>5. Calm("watchdog") /\ pc'["watchdog"] = "enter" /\ (Leads(ProcTask("watchdog")))'
  BY <1>1, <1>2, FloorLeads, CalmContinue
<1>6. Underway'
  BY <1>1, <1>2, <1>5, UnderwayStays
<1>7. ~(Talking("watchdog"))' /\ \A w \in Speaker : ~(Talking(w))' /\ play'[w] = "over"
  <2>1. ~(Talking("watchdog"))'
    BY <1>5 DEF Talking
  <2> QED BY <1>1, <1>2, <1>4, <1>5, <2>1, CalmFacts
<1>8. Floor'
  <2>1. /\ pc'["run"] \notin Greets /\ pc'["run"] \notin Early /\ ~(Begins("run"))'
        /\ \A t \in Turns : ~(Live(t))' /\ pc'[t] \notin Unspoken
    BY <1>1, <1>4, <1>5, CalmFacts, Kinds
  <2> HIDE DEF Begins, Asks, Live, Leads
  <2> QED BY <1>2, <1>5, <2>1 DEF Floor
<1>9. \A w \in Speaker : (OnAir(w))'
  BY <1>7 DEF OnAir, Talking
<1>10. Barge'
  BY <1>1, <1>4, <1>5, CalmFacts, Kinds DEF Barge
<1> QED BY <1>6, <1>8, <1>9, <1>10 DEF OpenNow

\* While the consumer runs nobody is about to begin, and the call has begun.
LEMMA ConsumerRuns ==
  ASSUME TypeOK, LoopInv, OpenNow, Leads(ProcTask("consumer"))
  PROVE  /\ ~Begins("run") /\ ~Begins("watchdog") /\ pc["run"] \notin Early
         /\ joining["consumer"] = NoTask
<1>1. Live("consumer") /\ joining["consumer"] = NoTask
  BY LeadsLives, Kinds DEF LoopInv
<1>2. pc["run"] \notin Early
  BY <1>1 DEF LoopInv, RoleInv, Alone, Live
<1>3. ~Begins("run") /\ ~Begins("watchdog")
  BY FloorLeads, Names DEF Leads
<1> QED BY <1>1, <1>2, <1>3

\* The consumer moves on, cutting no one short any longer.
LEMMA ConsumerMovesOpen ==
  ASSUME TypeOK, LoopInv, OpenNow, Leads(ProcTask("consumer")), NEW l, l \in {"loop", "get", "listen"},
         Calm("consumer"), pc'["consumer"] = l, play' = play, finished' = finished, audible' = audible,
         state' \in {state, "listening"}, state' # state => \A t \in Turns : pc[t] \notin Unspoken,
         \A t \in Turns : pc[t] \in Unspoken => utterance' = utterance,
         inbox' = inbox \/ ~In("end", inbox'),
         \A s \in Speaker : play[s] # "over" => speaking' = speaking /\ play[s] # "stopping",
         \A s \in Speaker : Talking(s) =>
           /\ \/ state' = "speaking"
              \/ state' = "listening" /\ Here(ProcTask(s)) /\ idle' = 0 /\ utterance' # "speech"
           /\ s # "watchdog" => utterance' = "idle" \/ (Here(ProcTask(s)) /\ utterance' = "onset"),
         \A s \in Speaker : pc[s] = "announced" => state' = state /\ (s # "watchdog" => utterance' = "idle"),
         l = "listen" => /\ state' = "speaking" \/ idle' = 0
                         /\ \A t \in Turns : pc[t] \notin Unspoken
                         /\ \A s \in Speaker : (Talking(s) => Here(ProcTask(s))) /\ pc[s] # "announced"
  PROVE  OpenNow'
<1>1. "consumer" \in Proc /\ "consumer" \notin Speaker
  BY Kinds
<1>2. ~Begins("run") /\ ~Begins("watchdog") /\ pc["run"] \notin Early
  BY ConsumerRuns
<1>3. Underway'
  <2>1. state' # "ended"
    BY DEF OpenNow, Underway
  <2> QED BY <1>1, <2>1, UnderwayStays
<1>4. /\ pc'["run"] = pc["run"] /\ (Asks' <=> Asks) /\ \A w \in Speaker : pc'[w] = pc[w]
      /\ \A t \in Turns : ((Live(t))' <=> Live(t)) /\ (pc'[t] \in Unspoken <=> pc[t] \in Unspoken)
      /\ \A w \in Speaker : ((Talking(w))' <=> Talking(w)) /\ ((Begins(w))' <=> Begins(w))
      /\ \A w \in Speaker : Talking(w) => ((Here(ProcTask(w)))' <=> Here(ProcTask(w)))
  BY <1>1, CalmFacts, Kinds
<1>5. Floor'
  <2>1. state' = "thinking" => state' = state
    OBVIOUS
  <2> HIDE DEF Begins, Asks, Live, Leads
  <2> QED BY <1>2, <1>4, <2>1, Kinds DEF OpenNow, Floor
<1>6. ASSUME NEW s \in Speaker PROVE (OnAir(s))'
  <2>1. OnAir(s)
    BY DEF OpenNow
  <2>2. pc[s] \in {"announced", "speaking"} => Talking(s)
    BY DEF Talking
  <2> HIDE DEF Begins, Talking, Here
  <2> QED BY <1>4, <2>1, <2>2 DEF OnAir
<1>7. Barge'
  <2>1. Cuts' <=> l = "listen"
    BY DEF Cuts
  <2> HIDE DEF Begins, Talking, Here, Cuts
  <2> QED BY <1>2, <1>4, <2>1, Kinds DEF Barge
<1> QED BY <1>3, <1>5, <1>6, <1>7 DEF OpenNow

\* When the consumer runs after a barge-in, the line is no more.
LEMMA CutOver ==
  ASSUME TypeOK, LoopInv, OpenNow, Leads(ProcTask("consumer")), Cuts
  PROVE  \A w \in Speaker : /\ play[w] = "over" /\ pc[w] # "announced"
                            /\ Talking(w) => Here(ProcTask(w))
<1>1. joining["consumer"] = NoTask
  BY ConsumerRuns
<1>2. \A w \in Speaker : play[w] # "stopping"
  BY <1>1, Names DEF OpenNow, OnAir
<1>3. \A w \in Speaker : (Talking(w) => Here(ProcTask(w))) /\ pc[w] # "announced"
  BY <1>2 DEF OpenNow, Barge
<1>4. \A w \in Speaker : pc[w] = "speaking" => (play[w] = "over" <=> Here(ProcTask(w)))
  BY DEF OpenNow, OnAir
<1>5. \A w \in Speaker : play[w] # "over" => Talking(w)
  BY DEF OpenNow, OnAir
<1>6. \A w \in Speaker : play[w] = "over"
  BY <1>3, <1>4, <1>5 DEF Talking
<1> QED BY <1>3, <1>6

\* _consume() keeps the call open.
LEMMA ConsumerOpen ==
  ASSUME TypeOK, LoopInv, OneTurn, OpenNow, Ordinary,
         BargeInSent \/ BargeInListens \/ FrameHeard
  PROVE  OpenNow'
<1>1. "consumer" \in Proc /\ Unhindered
  BY Kinds DEF Ordinary
<1>2. CASE BargeInSent
  <2>1. /\ pc["consumer"] = "barge in" /\ Leads(ProcTask("consumer")) /\ Continue("consumer", "listen")
        /\ UNCHANGED <<state, utterance, play, audible, finished, idle, inbox>>
    BY <1>1, <1>2, RunsLeads, SendContinues DEF Sends, BargeInSent, caller, patience
  <2>2. Calm("consumer") /\ pc'["consumer"] = "listen"
    BY <1>1, <2>1, FloorLeads, CalmContinue
  <2>3. Cuts
    BY <2>1 DEF Cuts
  <2>4. \A w \in Speaker : play[w] = "over" /\ pc[w] # "announced" /\ (Talking(w) => Here(ProcTask(w)))
    BY <2>1, <2>3, CutOver
  <2>5. (state = "speaking" \/ idle = 0) /\ \A t \in Turns : pc[t] \notin Unspoken
    BY <2>3 DEF OpenNow, Barge
  <2>6. \A s \in Speaker : Talking(s) =>
           /\ \/ state' = "speaking"
              \/ state' = "listening" /\ Here(ProcTask(s)) /\ idle' = 0 /\ utterance' # "speech"
           /\ s # "watchdog" => utterance' = "idle" \/ (Here(ProcTask(s)) /\ utterance' = "onset")
    BY <2>1 DEF OpenNow, OnAir
  <2> HIDE DEF Talking, Here
  <2> QED BY <1>1, <2>1, <2>2, <2>4, <2>5, <2>6, ConsumerMovesOpen
<1>3. CASE BargeInListens
  <2>1. /\ pc["consumer"] = "listen" /\ Leads(ProcTask("consumer")) /\ Continue("consumer", "loop")
        /\ state' = "listening" /\ idle' = 0 /\ utterance' \in {"idle", "onset"}
        /\ UNCHANGED <<play, audible, finished, inbox>>
    BY <1>1, <1>3, RunsLeads, SendContinues DEF Sends, BargeInListens, voice
  <2>2. Calm("consumer") /\ pc'["consumer"] = "loop"
    BY <1>1, <2>1, FloorLeads, CalmContinue
  <2>3. Cuts
    BY <2>1 DEF Cuts
  <2>4. \A w \in Speaker : play[w] = "over" /\ pc[w] # "announced" /\ (Talking(w) => Here(ProcTask(w)))
    BY <2>1, <2>3, CutOver
  <2>5. \A t \in Turns : pc[t] \notin Unspoken
    BY <2>3 DEF OpenNow, Barge
  <2> HIDE DEF Talking, Here
  <2> QED BY <1>1, <2>1, <2>2, <2>4, <2>5, ConsumerMovesOpen
<1>4. CASE FrameHeard
  <2>1. /\ pc["consumer"] = "get" /\ Leads(ProcTask("consumer")) /\ Continue("consumer", "loop")
        /\ state = "listening" /\ state' = state /\ inbox # <<>> /\ inbox' = Tail(inbox)
        /\ utterance' \in {utterance, "idle"} \/ (utterance = "idle" /\ utterance' = "onset")
        /\ idle' \in {idle, 0}
        /\ UNCHANGED <<play, audible, finished, speaking>>
    BY <1>1, <1>4, RunsLeads, SendContinues DEF Sends, FrameHeard, TakesFrame, voice, patience
  <2>2. Calm("consumer") /\ pc'["consumer"] = "loop"
    BY <1>1, <2>1, FloorLeads, CalmContinue
  <2>3. ~In("end", inbox')
    BY <2>1, TailKeeps DEF OpenNow, Underway, TypeOK, CallerOK
  <2>4. \A t \in Turns : pc[t] \notin Unspoken
    BY <2>1 DEF OpenNow, Floor
  <2>5. \A s \in Speaker : /\ play[s] # "stopping" /\ pc[s] # "announced"
                           /\ Talking(s) => /\ Here(ProcTask(s)) /\ idle = 0 /\ utterance # "speech"
                                            /\ s # "watchdog" => utterance \in {"idle", "onset"}
    BY <2>1 DEF OpenNow, OnAir
  <2>6. \A s \in Speaker : Talking(s) =>
           /\ state' = "listening" /\ Here(ProcTask(s)) /\ idle' = 0 /\ utterance' # "speech"
           /\ s # "watchdog" => utterance' = "idle" \/ (Here(ProcTask(s)) /\ utterance' = "onset")
    BY <2>1, <2>5
  <2>7. "loop" # "listen"
    OBVIOUS
  <2> HIDE DEF Talking, Here
  <2> QED BY <1>1, <2>1, <2>2, <2>3, <2>4, <2>5, <2>6, <2>7, ConsumerMovesOpen
<1> QED BY <1>2, <1>3, <1>4

\* The caller talks over the line in the air.
LEMMA BargeInOpen ==
  ASSUME TypeOK, LoopInv, OneTurn, OpenNow, BargeIn
  PROVE  OpenNow'
<1>1. "consumer" \in Proc /\ "consumer" \notin Speaker /\ Speaker \subseteq Proc
  BY Kinds
<1>2. /\ pc["consumer"] = "get" /\ Leads(ProcTask("consumer")) /\ state = "speaking" /\ audible
      /\ CancelPlayback("consumer", "barge in") /\ inbox # <<>> /\ inbox' = Tail(inbox)
      /\ UNCHANGED <<state, finished, speaking, audible, utterance, idle>>
  BY RunsLeads DEF BargeIn, TakesFrame, patience
<1>3. ~In("end", inbox')
  BY <1>2, TailKeeps DEF OpenNow, Underway, TypeOK, CallerOK
<1>4. \A t \in Turns : pc[t] \notin Unspoken
  BY <1>2 DEF OpenNow, Floor
<1>5. ~Begins("run") /\ ~Begins("watchdog") /\ pc["run"] \notin Early
  BY <1>2, ConsumerRuns
<1>6. /\ Calm("consumer") /\ pc'["consumer"] = "barge in"
      /\ \/ play' = play /\ \A w \in Speaker : play[w] = "over"
         \/ \E h \in Speaker : /\ play[h] = "playing" /\ play'[h] = "stopping"
                               /\ joining'["consumer"] = PlayTask(h)
                               /\ \A w \in Speaker \ {h} : play'[w] = play[w] /\ play[w] = "over"
  <2>1. CASE speaking # None /\ play[speaking] # "over"
    <3>1. PICK h \in Speaker : h = speaking
      BY <2>1 DEF TypeOK, SoundOK
    <3>2. play[h] = "playing"
      <4>1. OnAir(h)
        BY DEF OpenNow
      <4>2. play[h] \in {"new", "playing", "stopping", "stillborn", "over"}
        BY DEF TypeOK, SoundOK
      <4> QED BY <1>2, <2>1, <3>1, <4>1, <4>2 DEF OnAir
    <3>3. PICK q : q = <<PlayTask(h)>>
      OBVIOUS
    <3>4. PICK x : x = PlayTask(h)
      OBVIOUS
    <3>5. q \in Seq(Task) /\ \A w : ~In(ProcTask(w), q)
      <4>1. q \in Seq(Task) /\ Len(q) = 1 /\ q[1] = PlayTask(h)
        BY <3>3, TaskNames
      <4> QED BY <4>1, Names DEF In
    <3>6. Suspend("consumer", "barge in", x, q) /\ play' = [play EXCEPT ![h] = "stopping"]
      BY <1>2, <2>1, <3>1, <3>2, <3>3, <3>4 DEF CancelPlayback, TypeOK, SoundOK
    <3>7. Calm("consumer") /\ pc'["consumer"] = "barge in" /\ joining'["consumer"] = x
      BY <1>1, <1>2, <3>5, <3>6, FloorLeads, CalmSuspend
    <3>8. \A w \in Speaker \ {h} : play'[w] = play[w] /\ play[w] = "over"
      BY <3>1, <3>6 DEF OpenNow, OnAir, TypeOK, SoundOK
    <3>9. play'[h] = "stopping"
      BY <3>6 DEF TypeOK, SoundOK
    <3> QED BY <3>2, <3>4, <3>7, <3>8, <3>9
  <2>2. CASE ~(speaking # None /\ play[speaking] # "over")
    <3>1. Continue("consumer", "barge in") /\ play' = play
      BY <1>2, <2>2 DEF CancelPlayback
    <3>2. Calm("consumer") /\ pc'["consumer"] = "barge in"
      BY <1>1, <3>1, FloorLeads, CalmContinue
    <3>3. \A w \in Speaker : play[w] = "over"
      BY <2>2, Kinds DEF OpenNow, OnAir, None
    <3> QED BY <3>1, <3>2, <3>3
  <2> QED BY <2>1, <2>2
<1>7. Underway'
  BY <1>1, <1>2, <1>3, <1>6, UnderwayStays DEF OpenNow, Underway
<1>8. /\ pc'["run"] = pc["run"] /\ (Asks' <=> Asks) /\ \A w \in Speaker : pc'[w] = pc[w]
      /\ \A t \in Turns : ((Live(t))' <=> Live(t)) /\ (pc'[t] \in Unspoken <=> pc[t] \in Unspoken)
      /\ \A w \in Speaker : ((Talking(w))' <=> Talking(w)) /\ ((Begins(w))' <=> Begins(w))
      /\ \A w \in Speaker : Talking(w) => ((Here(ProcTask(w)))' <=> Here(ProcTask(w)))
  <2>1. /\ \A w \in Proc \ {"consumer"} : pc'[w] = pc[w]
        /\ \A w \in Speaker \ {"consumer"} :
             Talking(w) => ((Here(ProcTask(w)))' <=> Here(ProcTask(w)))
    BY <1>1, <1>6, CalmFacts
  <2>2. /\ {"run", "watchdog"} \subseteq Proc \ {"consumer"} /\ Speaker \subseteq Proc \ {"consumer"}
        /\ Turns \subseteq Speaker
    BY Kinds
  <2> HIDE DEF Here
  <2> QED BY <2>1, <2>2 DEF Asks, Live, Talking, Begins
<1>9. Floor'
  <2> HIDE DEF Begins, Asks, Live, Leads
  <2> QED BY <1>2, <1>5, <1>8, Kinds DEF OpenNow, Floor
<1>10. ASSUME NEW s \in Speaker PROVE (OnAir(s))' /\ pc[s] # "announced"
                                      /\ ((Talking(s))' => (Here(ProcTask(s)))' \/ play'[s] = "stopping")
  <2>1. OnAir(s)
    BY DEF OpenNow
  <2>2. play[s] = "playing" \/ play[s] = "over"
    BY <1>6
  <2>3. pc[s] # "announced"
    BY <2>1, <2>2 DEF OnAir
  <2>4. Talking(s) <=> pc[s] = "speaking"
    BY <2>3 DEF Talking
  <2>5. play'[s] = "over" <=> play[s] = "over"
    BY <1>6
  <2>6. play'[s] = "stopping" \/ play'[s] = "over"
    BY <1>6
  <2>7. play'[s] = "stopping" => joining'["consumer"] = PlayTask(s)
    BY <1>6
  <2> HIDE DEF Talking, Here
  <2>8. (OnAir(s))'
    BY <1>2, <1>6, <1>8, <2>1, <2>3, <2>4, <2>5, <2>6, <2>7 DEF OnAir
  <2>9. (Talking(s))' => (Here(ProcTask(s)))' \/ play'[s] = "stopping"
    BY <1>8, <2>1, <2>4, <2>5, <2>6 DEF OnAir
  <2> QED BY <2>3, <2>8, <2>9
<1>11. Barge'
  <2> HIDE DEF Begins, Talking, Here
  <2> QED BY <1>2, <1>4, <1>5, <1>8, <1>10, Kinds DEF Barge
<1> QED BY <1>7, <1>9, <1>10, <1>11 DEF OpenNow

\* The caller's words open a turn: nobody else has the floor, and no turn is cancelled.
LEMMA TurnOpensOpen ==
  ASSUME TypeOK, LoopInv, Unsaid, OpenNow, NEW t \in Turns, TurnOpens(t)
  PROVE  OpenNow'
<1>k. /\ "consumer" \in Proc /\ "run" \in Proc /\ "watchdog" \in Proc /\ "consumer" \notin Speaker
      /\ t \in Proc /\ t \in Speaker /\ t \notin {"run", "watchdog", "consumer"}
      /\ Speaker \subseteq Proc /\ Turns \subseteq Speaker
  BY Kinds
<1>1. /\ pc["consumer"] = "get" /\ Leads(ProcTask("consumer")) /\ state = "listening" /\ utterance = "speech"
      /\ pc[t] = "idle" /\ utterance' = "idle" /\ idle' = 0 /\ state' = "thinking"
      /\ pc' = [pc EXCEPT !["consumer"] = "loop", ![t] = "start"]
      /\ inbox # <<>> /\ inbox' = Tail(inbox)
      /\ joining' = [joining EXCEPT !["consumer"] = NoTask]
      /\ UNCHANGED <<play, finished, speaking, audible>>
  BY RunsLeads DEF TurnOpens, TakesFrame, voice
<1>2. (\A u \in Turns : ~Live(u)) /\ pc["run"] \notin Early \cup Greets
  BY <1>1 DEF Unsaid
<1>3. ready' = Append(ready, ProcTask(t)) /\ cancelled' = cancelled
  BY <1>2 DEF TurnOpens, TypeOK, CallerOK
<1>4. pc["run"] = "waiting" /\ cancelled' = {} /\ ~Here(ProcTask("run")) /\ Live("consumer") /\ Live("watchdog")
  BY <1>2, <1>3 DEF OpenNow, Underway
<1>5. ~In("end", inbox')
  BY <1>1, TailKeeps DEF OpenNow, Underway, TypeOK, CallerOK
<1>6. pc'["consumer"] = "loop" /\ pc'[t] = "start" /\ \A w \in Proc \ {"consumer", t} : pc'[w] = pc[w]
  BY <1>1, <1>k DEF TypeOK, ControlOK
<1>7. (Here(ProcTask("run")))' <=> Here(ProcTask("run"))
  <2> DEFINE q == <<ProcTask(t)>>
  <2>1. q \in Seq(Task) /\ Len(q) = 1 /\ q[1] = ProcTask(t)
    BY <1>k, TaskNames
  <2>2. ready' = ready \o q
    BY <1>3, <1>k, AppendIsConcat, TaskNames DEF TypeOK, ControlOK
  <2> HIDE DEF q
  <2>3. ~In(ProcTask("run"), q)
    BY <1>k, <2>1, Names DEF In
  <2> QED BY <2>1, <2>2, <2>3, InConcat DEF Here, TypeOK, ControlOK
<1>8. \A s \in Speaker : ~Talking(s) /\ play[s] = "over"
  BY <1>1 DEF OpenNow, OnAir
<1>9. \A s \in Speaker : ~(Talking(s))' /\ play'[s] = "over"
  BY <1>1, <1>6, <1>8, <1>k DEF Talking
<1>10. ~Asks /\ ~Begins("run") /\ ~Begins("watchdog")
  <2>1. ~Begins("run") /\ ~Begins("watchdog")
    BY <1>1, ConsumerRuns
  <2> QED BY <1>8, <2>1, <1>k, Kinds DEF Asks, Begins, Talking
<1>11. Underway'
  <2>1. \A w \in Proc : pc'[w] \notin {"hung up", "bounded", "expired"}
    BY <1>6 DEF OpenNow, Underway
  <2>2. pc'["run"] = "waiting" /\ (Live("consumer"))' /\ (Live("watchdog"))'
    BY <1>4, <1>6, <1>k DEF Live
  <2> HIDE DEF Live, Here, In
  <2> QED BY <1>1, <1>4, <1>5, <1>7, <2>1, <2>2 DEF Underway
<1>12. Floor'
  <2>1. pc'["run"] = "waiting" /\ ~Asks' /\ ~(Begins("run"))' /\ ~(Begins("watchdog"))'
    BY <1>4, <1>6, <1>10, <1>k DEF Asks, Begins
  <2>2. pc'[t] \in Unspoken /\ "waiting" \notin Greets /\ "waiting" \notin Early
    BY <1>6 DEF Unspoken, Greets, Early
  <2> HIDE DEF Begins, Asks, Live, Leads
  <2> QED BY <1>1, <2>1, <2>2 DEF Floor
<1>13. \A s \in Speaker : (OnAir(s))'
  BY <1>9 DEF OnAir, Talking
<1>14. Barge'
  BY <1>6 DEF Barge, Cuts
<1> QED BY <1>11, <1>12, <1>13, <1>14 DEF OpenNow

\* What cannot happen before anyone has hung up.
LEMMA NotYet ==
  ASSUME TypeOK, LoopInv, OpenNow, ~Ended
  PROVE  /\ \A p \in Proc : ~HangupSentinel(p) /\ ~HungUp(p) /\ ~Raise(p)
         /\ ~ReaderDone /\ ~SessionBoundExpires /\ ~ConsumerEnds
         /\ ~RunFinal /\ ~RunJoinsConsumer /\ ~FinishHold /\ ~FinishPlayback /\ ~FinishTurn
         /\ ~FinishSettles /\ ~FinishDisposes /\ ~FinishCommits
<1>k. "run" \in Proc
  BY Kinds
<1>q. QueueInv
  BY DEF LoopInv
<1>h. Leads(ProcTask("run")) => Here(ProcTask("run"))
  BY <1>k, <1>q, LeadsLives
<1>1. /\ \A p \in Proc : pc[p] \notin {"sentinel", "hung up", "bounded", "expired"}
      /\ cancelled = {} /\ ~In("end", inbox)
      /\ pc["run"] \in {"start", "connected", "enter", "play", "announced", "speaking", "greeted", "waiting"}
      /\ pc["run"] = "waiting" => ~Leads(ProcTask("run"))
  <2> HIDE DEF Here, Leads, In, QueueInv, LoopInv, TypeOK
  <2>1. Underway
    BY DEF OpenNow
  <2>2. \A p \in Proc : pc[p] # "sentinel"
    BY DEF Ended
  <2> QED BY <1>h, <2>1, <2>2 DEF Underway, Early, Greets
<1>2. \A p \in Proc : ~HangupSentinel(p) /\ ~HungUp(p) /\ ~Raise(p)
  BY <1>1, RunsReady DEF HangupSentinel, HungUp, Raise
<1>3. ~ReaderDone /\ ~SessionBoundExpires
  BY <1>1, RunsReady, Kinds DEF ReaderDone, SessionBoundExpires
<1>4. ~ConsumerEnds
  <2>1. inbox # <<>> /\ Head(inbox) = "end" => In("end", inbox)
    <3>1. inbox \in Seq({"frame", "end"})
      BY DEF TypeOK, CallerOK
    <3> QED BY <3>1 DEF In
  <2> QED BY <1>1, <2>1 DEF ConsumerEnds
<1>r. \A l : Runs("run", l) => pc["run"] = l /\ Leads(ProcTask("run"))
  BY DEF Runs, Leads
<1>5. ~RunFinal
  <2> HIDE DEF Leads, Here, In
  <2>1. RunFinal => Runs("run", "final") \/ Runs("run", "waiting")
    BY DEF RunFinal
  <2> HIDE DEF RunFinal, Runs
  <2> QED BY <1>1, <1>r, <2>1
<1>6. /\ ~RunJoinsConsumer /\ ~FinishHold /\ ~FinishPlayback /\ ~FinishTurn
      /\ ~FinishSettles /\ ~FinishDisposes /\ ~FinishCommits
  <2>1. /\ RunJoinsConsumer => Runs("run", "join consumer")
        /\ FinishHold => Runs("run", "stop hold")
        /\ FinishPlayback => Runs("run", "stop playback")
        /\ FinishTurn => Runs("run", "stop turn")
        /\ FinishSettles => Runs("run", "settle")
        /\ FinishDisposes => Runs("run", "summarised")
        /\ FinishCommits => Runs("run", "commit")
    BY DEF RunJoinsConsumer, FinishHold, FinishPlayback, FinishTurn, FinishSettles, FinishDisposes,
           FinishCommits
  <2> HIDE DEF Runs, Leads, Here, In
  <2> QED BY <1>1, <1>r, <2>1
<1> QED BY <1>2, <1>3, <1>4, <1>5, <1>6

\* Hanging up ends the call.
LEMMA HangupEnds ==
  ASSUME TypeOK, state # "ended", NEW p \in Proc, Hangup(p)
  PROVE  Ended'
<1>1. pc' = [pc EXCEPT ![p] = "sentinel"]
  BY Moves DEF Hangup
<1> QED BY <1>1 DEF Ended, TypeOK, ControlOK

\* Until somebody hangs up the conversation keeps its order.
LEMMA OpenStep ==
  ASSUME TypeOK, LoopInv, OneTurn, Unsaid, Spoke, OpenNow, ~Ended, Ordinary, Next,
         Begins("run") \/ Begins("watchdog") => holdTask = None
  PROVE  OpenNow' \/ Ended'
<1>e. state # "ended" /\ ~over
  BY DEF OpenNow, Underway, Ended
<1>1. CASE SpeakStep
  <2>1. ASSUME NEW s \in Speaker, SpeakEnter(s) PROVE OpenNow'
    <3>1. CASE s \in Turns
      BY <2>1, <3>1, TurnsOpen
    <3>2. CASE s \in {"run", "watchdog"}
      <4>1. Begins(s)
        BY <2>1, RunsReady DEF SpeakEnter, Begins
      <4>2. holdTask = None
        BY <3>2, <4>1
      <4> QED BY <2>1, <3>2, <4>2, ServiceEntersOpen
    <3> QED BY <3>1, <3>2, Kinds
  <2> QED BY <1>1, <2>1, SpeakPlayOpen, SpeakAwaitOpen, SpeakReturnOpen, PlayStartsOpen, PlayCancelledOpen
          DEF SpeakStep
<1>2. CASE HangupStep
  <2>1. ASSUME NEW p \in Proc, Hangup(p) PROVE Ended'
    BY <1>e, <2>1, HangupEnds
  <2> QED BY <1>2, <2>1, NotYet DEF HangupStep
<1>3. CASE RunStep
  BY <1>3, <1>e, NotYet, ServicesOpen, RunStartsOpen, RunGreetedOpen DEF RunStep
<1>4. CASE ConsumerStep
  BY <1>4, NotYet, ServicesOpen, ConsumerOpen, BargeInOpen, TurnOpensOpen DEF ConsumerStep
<1>5. CASE TurnStep
  BY <1>5, TurnsOpen, TurnLeavesOpen DEF TurnStep
<1>6. CASE WatchdogStep
  BY <1>6, ServicesOpen, WatchdogSpeaksOpen DEF WatchdogStep
<1>7. CASE \E t \in Turns : HoldStops(t)
  BY <1>7, WorldOpen
<1>8. CASE \E p \in Proc : Raise(p)
  BY <1>8, NotYet
<1>9. CASE Environment
  <2>1. \A p \in Proc : ~SendGoesThrough(p)
    BY DEF SendGoesThrough, Ordinary, Unhindered
  <2> QED BY <1>9, <2>1, WorldOpen, StillOpen, NotYet, ChunkSentOpen, PlayEndsOpen DEF Environment
<1> QED BY <1>1, <1>2, <1>3, <1>4, <1>5, <1>6, <1>7, <1>8, <1>9 DEF Next, LoopStep

-----------------------------------------------------------------------------
(* Every step as the move of one task: what run, _consume, _watchdog, _process_turn, _speak
   and hangup have in common. *)
\* p moves to l, and only those that awaited its end are released by it.
Treads(p, l) ==
  /\ pc'[p] = l /\ \A w \in Proc \ {p} : pc'[w] = pc[w]
  /\ \A w \in Proc \ {p} :
       \/ joining'[w] = joining[w]
       \/ l = "done" /\ joining[w] = ProcTask(p) /\ joining'[w] = NoTask

\* The queue is served from its head and filled at its end.
Served == \E q \in Seq(Task) : ready' = ready \o q \/ ready' = Tail(ready) \o q

\* How the tasks move: from which places each place is reached (the bodies of run, _consume,
\* _watchdog, _process_turn, _speak and hangup).
ArcPlace(p, l) ==
  /\ l \notin {"idle", "start"} /\ pc[p] \notin {"idle", "done"}
  /\ p = "run" =>
       /\ l \in Early \cup Greets \cup {"waiting"} => pc[p] \in Early \cup Greets
       /\ l # "enter" /\ (l = "waiting" => pc[p] = "greeted")
       /\ l = "connected" => pc[p] = "start"
       /\ l = "play" => pc[p] = "enter"
       /\ l = "announced" => pc[p] = "play"
       /\ l = "join consumer" => pc[p] \in {"final", "waiting"}
       /\ l = "stop hold" => pc[p] = "join consumer"
       /\ l = "stop playback" => pc[p] = "stop hold"
       /\ l = "stop turn" => pc[p] = "stop playback"
       /\ l = "settle" => pc[p] = "stop turn"
       /\ l = "summarised" => pc[p] = "settle"
       /\ l = "commit" => pc[p] = "summarised"
       /\ l = "done" => pc[p] \in {"connected", "summarised", "commit"}
       /\ pc[p] = "waiting" => l \in {"final", "join consumer"}
  /\ p = "watchdog" =>
       /\ l = "enter" => pc[p] = "tick" /\ state = "listening" /\ idle # 0
       /\ l = "play" => pc[p] = "enter"
       /\ l = "announced" => pc[p] = "play"
  /\ p = "consumer" =>
       /\ l = "barge in" => state = "speaking"
       /\ l = "listen" => pc[p] = "barge in"
  /\ p \in Turns =>
       /\ l \in Unspoken => pc[p] \in Unspoken
       /\ l = "announced" => pc[p] = "play"
       /\ l = "act" => pc[p] \in {"enter", "spoken", "speaking"}
       /\ l = "spoken" => pc[p] \in {"enter", "speaking", "answered"}
       /\ l = "hangup" => pc[p] = "act"
       /\ l = "done" => pc[p] \in {"unheard", "act", "hung up"} \/ p \in cancelled
  /\ pc[p] = "announced" => l = "speaking"
  /\ pc[p] = "speaking" => l \in {"greeted", "again", "closing", "spoken", "act"}
  /\ pc[p] = "sentinel" => l = "hung up"
  /\ l = "sentinel" => pc[p] = "hangup"
  /\ l = "hung up" => pc[p] \in {"hangup", "sentinel"}
  /\ l = "speaking" => pc[p] = "announced"

\* What run() has seen out before it goes on.
ArcJoins(p, l) ==
  p = "run" =>
    /\ l = "join consumer" /\ joining'[p] = NoTask => ~Live("watchdog")
    /\ l = "stop hold" /\ joining'[p] = NoTask => ~Live("consumer")
    /\ l = "settle" => \A t \in Turns : t = turnTask /\ Live(t) => joining'[p] = ProcTask(t)

\* What the tasks do to the state of the call and to what has been heard.
ArcState(p, l) ==
  /\ \/ state' = state
     \/ state' = "ended" /\ pc[p] = "hangup"
     \/ state' = "speaking" /\ l = "announced" /\ p \in Speaker
     \/ state' = "transferring" /\ p \in Turns /\ pc[p] = "act" /\ l = "hangup"
     \/ /\ state' = "listening"
        /\ \/ p \in Speaker /\ pc[p] = "speaking" /\ state = "speaking" /\ utterance' = "idle" /\ idle' = 0
           \/ p = "consumer" /\ pc[p] = "listen" /\ utterance' # "speech" /\ idle' = 0
           \/ p = "run" /\ pc[p] = "greeted" /\ state # "ended"
           \/ p \in Turns /\ pc[p] = "unheard"
           \/ p \in Turns /\ pc[p] = "act" /\ state # "ended"
  /\ l = "sentinel" => state' = "ended"
  /\ p \in Turns /\ pc[p] = "hangup" => state' = "ended" \/ l = "done"
  /\ p \in Speaker /\ pc[p] = "speaking" => state' # "speaking"
  /\ utterance' \in {utterance, "idle"} \/ (p = "consumer" /\ utterance' = "onset")
  /\ idle' \in {idle, 0}
  /\ over' = over \/ (over' = TRUE /\ In("end", inbox') /\ pc[p] = "sentinel")
  /\ pc[p] = "sentinel" => over'
  /\ In("end", inbox) => In("end", inbox') \/ (p = "consumer" /\ l = "done")
  /\ turnTask' = turnTask

\* Answers, and the record.
Answering == {"line", "answered", "enter", "play", "announced", "speaking", "spoken"}

\* What the tasks do to the answers and to the record.
ArcRecord(p, l) ==
  /\ saved' = saved \/ (p = "run" /\ l = "done")
  /\ saved # {} => saved' # {}
  /\ \A t \in Turns \ {p} : exchange'[t] = exchange[t] /\ then'[t] = then[t]
  /\ p \in Turns =>
       \/ exchange'[p] # "answered"
       \/ l \in {"line", "answered"} /\ then'[p] = "spoken"
       \/ exchange[p] = "answered" /\ (pc[p] \in Answering /\ then[p] = "spoken" =>
                                         l \in Answering /\ then'[p] = "spoken")

\* What the tasks do to the sounds.
ArcSound(p, l) ==
  /\ \/ hold' = hold /\ holdTask' = holdTask
     \/ holdTask' = None /\ (\A t \in Turns : t = holdTask => hold[t] = "over") /\ hold' = hold
     \/ /\ holdTask' = None /\ holdTask # None /\ joining'[p] = HoldTask(holdTask)
        /\ hold' = [hold EXCEPT ![holdTask] = "stopping"]
     \/ /\ p \in Turns /\ pc[p] = "start" /\ l = "stt" /\ holdTask = None /\ state # "ended"
        /\ holdTask' = p /\ hold' = [hold EXCEPT ![p] = "on"]
  /\ \/ p \in Turns /\ (l = "unheard" \/ l = "play" \/ (l = "enter" /\ pc[p] = "line"))
     \/ p = "run" /\ l = "stop playback"
     => holdTask' = None
  /\ \/ ~(p \in Turns /\ l \in {"spoken", "act"} /\ pc[p] \in {"stt", "respond", "line", "answered", "enter"})
     \/ pc[p] = "enter" /\ state' = "ended" /\ state = "ended"
  /\ \A s \in Speaker : play'[s] \in {"new", "playing"} =>
       play[s] \in {"new", "playing"} \/ (p = s /\ l = "announced")
  /\ l = "sentinel" => /\ \A s \in Speaker : speaking = s => play'[s] \notin {"new", "playing"}
                       /\ \/ (Leads(ProcTask(p)))'
                          \/ \E s \in Speaker : speaking = s /\ play[s] # "over"

\* p takes its step.
Duty(p, l) == ArcPlace(p, l) /\ ArcJoins(p, l) /\ ArcState(p, l) /\ ArcRecord(p, l) /\ ArcSound(p, l)

\* p leads, moves to l, and does its duty there.
Arc(p, l)  == p \in Proc /\ Leads(ProcTask(p)) /\ Treads(p, l) /\ Served /\ Duty(p, l)

\* Every way of going on is such a move.
LEMMA TreadsBy ==
  ASSUME TypeOK, LoopInv, NEW p \in Proc, NEW l, Leads(ProcTask(p))
  PROVE  /\ Continue(p, l) => Treads(p, l) /\ Served
         /\ \A x : \A q \in Seq(Task) : Suspend(p, l, x, q) => Treads(p, l) /\ Served
         /\ StopHold(p, l) => Treads(p, l) /\ Served
         /\ CancelPlayback(p, l) => Treads(p, l) /\ Served
         /\ \A q \in Seq(Task) : Return(p, q) => Treads(p, "done") /\ Served
<1>t. /\ pc \in [Proc -> Label] /\ joining \in [Proc -> Task \cup {NoTask}] /\ ready \in Seq(Task)
      /\ cancelled \subseteq Proc /\ speaking \in Speaker \cup {None} /\ holdTask \in Turns \cup {None}
  BY DEF TypeOK, ControlOK, SoundOK
<1>n. joining[p] = NoTask
  BY LeadsLives DEF LoopInv
<1>e. <<>> \in Seq(Task)
  OBVIOUS
<1>1. Continue(p, l) => Treads(p, l) /\ Served
  <2>1. ready \o <<>> = ready
    BY <1>t
  <2> QED BY <1>t, <1>e, <2>1 DEF Continue, Treads, Served
<1>2. ASSUME NEW x, NEW q \in Seq(Task), Suspend(p, l, x, q)
      PROVE  Treads(p, l) /\ Served
  BY <1>2, <1>t DEF Suspend, Treads, Served
<1>3. StopHold(p, l) => Treads(p, l) /\ Served
  <2>1. CASE holdTask # None /\ hold[holdTask] # "over"
    <3> DEFINE q == IF hold[holdTask] = "on" THEN <<HoldTask(holdTask)>> ELSE <<>>
    <3>1. q \in Seq(Task)
      BY <2>1, <1>t, TaskNames
    <3>2. StopHold(p, l) => Suspend(p, l, HoldTask(holdTask), q)
      BY <2>1 DEF StopHold
    <3> HIDE DEF q
    <3> QED BY <3>1, <3>2, <1>2
  <2>2. CASE ~(holdTask # None /\ hold[holdTask] # "over")
    BY <2>2, <1>1 DEF StopHold
  <2> QED BY <2>1, <2>2
<1>4. CancelPlayback(p, l) => Treads(p, l) /\ Served
  <2>1. CASE speaking # None /\ play[speaking] # "over"
    <3> DEFINE q == IF play[speaking] = "playing" THEN <<PlayTask(speaking)>> ELSE <<>>
    <3>1. q \in Seq(Task)
      BY <2>1, <1>t, TaskNames
    <3>2. CancelPlayback(p, l) => Suspend(p, l, PlayTask(speaking), q)
      BY <2>1 DEF CancelPlayback
    <3> HIDE DEF q
    <3> QED BY <3>1, <3>2, <1>2
  <2>2. CASE ~(speaking # None /\ play[speaking] # "over")
    BY <2>2, <1>1 DEF CancelPlayback
  <2> QED BY <2>1, <2>2
<1>5. ASSUME NEW q \in Seq(Task), Return(p, q)
      PROVE  Treads(p, "done") /\ Served
  <2>1. PICK w \in Orders(Joiners(ProcTask(p))) : ready' = Tail(ready) \o q \o w
    BY <1>5 DEF Return, TaskOver
  <2>2. w \in Seq(Task)
    BY <2>1, OrdersFacts DEF Joiners
  <2>3. q \o w \in Seq(Task) /\ ready' = Tail(ready) \o (q \o w)
    <3>1. Tail(ready) \in Seq(Task)
      BY <1>t DEF Leads
    <3> QED BY <2>1, <2>2, <3>1, ConcatTasks
  <2>4. Served
    BY <2>3 DEF Served
  <2>5. Treads(p, "done")
    BY <1>5, <1>t DEF Return, TaskOver, Treads
  <2> QED BY <2>4, <2>5
<1> QED BY <1>1, <1>2, <1>3, <1>4, <1>5

\* The hold tone is dropped, or awaited until it is gone.
LEMMA HoldDropped ==
  ASSUME TypeOK, NEW p \in Proc, NEW l, StopHold(p, l)
  PROVE  /\ holdTask' = None
         /\ \/ (\A t \in Turns : t = holdTask => hold[t] = "over") /\ hold' = hold
            \/ /\ holdTask # None /\ joining'[p] = HoldTask(holdTask)
               /\ hold' = [hold EXCEPT ![holdTask] = "stopping"]
<1>t. joining \in [Proc -> Task \cup {NoTask}]
  BY DEF TypeOK, ControlOK
<1>1. CASE holdTask # None /\ hold[holdTask] # "over"
  <2>1. joining' = [joining EXCEPT ![p] = HoldTask(holdTask)]
    BY <1>1 DEF StopHold, Suspend
  <2>2. holdTask' = None /\ hold' = [hold EXCEPT ![holdTask] = "stopping"]
    BY <1>1 DEF StopHold
  <2> HIDE DEF HoldTask
  <2> QED BY <1>1, <1>t, <2>1, <2>2
<1>2. CASE ~(holdTask # None /\ hold[holdTask] # "over")
  <2>1. holdTask' = None /\ hold' = hold
    BY <1>2 DEF StopHold
  <2>2. \A t \in Turns : t = holdTask => hold[t] = "over"
    BY <1>2, Kinds DEF None
  <2> QED BY <2>1, <2>2
<1> QED BY <1>1, <1>2

\* A playback is cut, and none begins.
LEMMA PlaybackCut ==
  ASSUME TypeOK, NEW p \in Proc, NEW l, CancelPlayback(p, l)
  PROVE  /\ \A s \in Speaker : play'[s] \in {"new", "playing"} => play[s] \in {"new", "playing"}
         /\ \A s \in Speaker : speaking = s => play'[s] \notin {"new", "playing"}
         /\ ready' = ready \/ \E s \in Speaker : speaking = s /\ play[s] # "over"
<1>t. play \in [Speaker -> {"new", "playing", "stopping", "stillborn", "over"}] /\ speaking \in Speaker \cup {None}
  BY DEF TypeOK, SoundOK
<1>1. CASE speaking # None /\ play[speaking] # "over"
  <2>1. PICK v \in {"stopping", "stillborn"} : play' = [play EXCEPT ![speaking] = v]
    BY <1>1 DEF CancelPlayback
  <2> QED BY <1>1, <2>1, <1>t
<1>2. CASE ~(speaking # None /\ play[speaking] # "over")
  <2>1. play' = play /\ ready' = ready
    BY <1>2 DEF CancelPlayback, Continue
  <2>2. \A s \in Speaker : s # None
    BY Kinds DEF None
  <2> QED BY <1>2, <1>t, <2>1, <2>2
<1> QED BY <1>1, <1>2

\* The steps of a task that speaks.
LEMMA SpeakArc ==
  ASSUME TypeOK, LoopInv, Ordinary, NEW s \in Speaker,
         SpeakEnter(s) \/ SpeakPlay(s) \/ SpeakAwait(s) \/ SpeakReturn(s)
  PROVE  \E p \in Proc : \E l \in Label : Arc(p, l)
<1>k. s \in Proc /\ s # "consumer" /\ (s = "run" \/ s = "watchdog" \/ s \in Turns)
      /\ "run" \notin Turns /\ "watchdog" \notin Turns
  BY Kinds
<1>p. pc[s] \in {"enter", "play", "announced", "speaking"} => then[s] \in Resumes(s)
  BY DEF LoopInv, RoleInv, Plans
<1>a. Resumes(s) \subseteq {"greeted", "again", "closing", "spoken", "act"} /\ Resumes(s) \subseteq Label
      /\ (s = "run" => Resumes(s) = {"greeted"}) /\ (s \in Turns => Resumes(s) = {"spoken", "act"})
      /\ (s = "watchdog" => Resumes(s) = {"again", "closing"})
  BY <1>k DEF Resumes, Label
<1>1. CASE SpeakEnter(s)
  <2>1. Leads(ProcTask(s)) /\ pc[s] = "enter"
    BY <1>1, RunsLeads DEF SpeakEnter
  <2>u. /\ UNCHANGED <<state, saved, then, play, utterance, idle, turnTask, exchange, inbox, over>>
    BY <1>1 DEF SpeakEnter, record, plan, voice, caller, patience
  <2>2. CASE state = "ended"
    <3> DEFINE l == then[s]
    <3>1. Continue(s, l) /\ hold' = hold /\ holdTask' = holdTask
      BY <1>1, <2>2 DEF SpeakEnter, tone
    <3>2. l \in Resumes(s)
      BY <2>1, <1>p
    <3> HIDE DEF l
    <3>3. Treads(s, l) /\ Served
      BY <1>k, <2>1, <3>1, TreadsBy
    <3>4. ArcPlace(s, l) /\ ArcJoins(s, l) /\ ArcState(s, l)
      BY <1>k, <1>a, <2>1, <2>2, <2>u, <3>2 DEF ArcPlace, ArcJoins, ArcState, Early, Greets, Unspoken, Talking
    <3>5. ArcRecord(s, l)
      BY <1>k, <1>a, <2>1, <2>u, <3>2 DEF ArcRecord, Answering, l
    <3>6. ArcSound(s, l)
      BY <1>k, <1>a, <2>1, <2>2, <2>u, <3>1, <3>2 DEF ArcSound
    <3> QED BY <1>k, <1>a, <2>1, <3>2, <3>3, <3>4, <3>5, <3>6 DEF Arc, Duty
  <2>3. CASE state # "ended"
    <3>1. StopHold(s, "play")
      BY <1>1, <2>3 DEF SpeakEnter
    <3>3. Treads(s, "play") /\ Served
      BY <1>k, <2>1, <3>1, TreadsBy
    <3>4. ArcPlace(s, "play") /\ ArcJoins(s, "play") /\ ArcState(s, "play")
      BY <1>k, <2>1, <2>3, <2>u DEF ArcPlace, ArcJoins, ArcState, Early, Greets, Unspoken, Talking
    <3>5. ArcRecord(s, "play")
      BY <1>k, <2>1, <2>u DEF ArcRecord, Answering
    <3>h. /\ holdTask' = None
          /\ \/ (\A t \in Turns : t = holdTask => hold[t] = "over") /\ hold' = hold
             \/ /\ holdTask # None /\ joining'[s] = HoldTask(holdTask)
                /\ hold' = [hold EXCEPT ![holdTask] = "stopping"]
      BY <1>k, <3>1, HoldDropped
    <3>6. ArcSound(s, "play")
      BY <1>k, <2>1, <2>u, <3>h DEF ArcSound
    <3> QED BY <1>k, <2>1, <3>3, <3>4, <3>5, <3>6 DEF Arc, Duty, Label
  <2> QED BY <2>2, <2>3
<1>2. CASE SpeakPlay(s)
  <2>1. Leads(ProcTask(s)) /\ pc[s] = "play"
    BY <1>2, RunsLeads DEF SpeakPlay
  <2>u. /\ UNCHANGED <<saved, then, utterance, idle, turnTask, exchange, inbox, over, hold, holdTask>>
        /\ state' = "speaking" /\ \A w \in Speaker \ {s} : play'[w] = play[w]
    BY <1>2 DEF SpeakPlay, record, plan, tone, caller, patience, TypeOK, SoundOK
  <2>3. Treads(s, "announced") /\ Served
    <3>1. Treads(s, "announced")
      BY <1>2, <1>k DEF SpeakPlay, Treads, TypeOK, ControlOK
    <3>2. ready' = ready \o <<PlayTask(s)>>
      BY <1>2, <1>k, <2>1, PlayContinues, AppendIsConcat, TaskNames DEF Ordinary, TypeOK, ControlOK
    <3>3. <<PlayTask(s)>> \in Seq(Task)
      BY TaskNames
    <3> QED BY <3>1, <3>2, <3>3 DEF Served
  <2>4. ArcPlace(s, "announced") /\ ArcJoins(s, "announced") /\ ArcState(s, "announced")
    BY <1>k, <2>1, <2>u DEF ArcPlace, ArcJoins, ArcState, Early, Greets, Unspoken, Talking
  <2>5. ArcRecord(s, "announced")
    BY <1>k, <2>1, <2>u DEF ArcRecord, Answering
  <2>6. ArcSound(s, "announced")
    BY <1>k, <2>1, <2>u DEF ArcSound
  <2> QED BY <1>k, <2>1, <2>3, <2>4, <2>5, <2>6 DEF Arc, Duty, Label
<1>3. CASE SpeakAwait(s)
  <2>1. Leads(ProcTask(s)) /\ pc[s] = "announced"
    BY <1>3, RunsLeads DEF SpeakAwait
  <2>u. UNCHANGED <<state, saved, then, play, utterance, idle, turnTask, exchange, inbox, over, hold, holdTask>>
    BY <1>3 DEF SpeakAwait, record, plan, tone, caller, patience, voice
  <2>3. Treads(s, "speaking") /\ Served
    <3>1. Continue(s, "speaking") \/ Suspend(s, "speaking", NoTask, <<>>)
      BY <1>3 DEF SpeakAwait
    <3>2. <<>> \in Seq(Task)
      OBVIOUS
    <3> QED BY <1>k, <2>1, <3>1, <3>2, TreadsBy
  <2>4. ArcPlace(s, "speaking") /\ ArcJoins(s, "speaking") /\ ArcState(s, "speaking")
    BY <1>k, <2>1, <2>u DEF ArcPlace, ArcJoins, ArcState, Early, Greets, Unspoken, Talking
  <2>5. ArcRecord(s, "speaking")
    BY <1>k, <2>1, <2>u DEF ArcRecord, Answering
  <2>6. ArcSound(s, "speaking")
    BY <1>k, <2>1, <2>u DEF ArcSound
  <2> QED BY <1>k, <2>1, <2>3, <2>4, <2>5, <2>6 DEF Arc, Duty, Label
<1>4. CASE SpeakReturn(s)
  <2> DEFINE l == then[s]
  <2>1. Leads(ProcTask(s)) /\ pc[s] = "speaking"
    BY <1>4, RunsLeads DEF SpeakReturn
  <2>u. /\ UNCHANGED <<saved, then, play, turnTask, exchange, inbox, over, hold, holdTask>>
        /\ state' = IF state = "speaking" THEN "listening" ELSE state
        /\ utterance' = IF state = "speaking" THEN "idle" ELSE utterance
        /\ idle' = 0 /\ l \in Resumes(s)
    BY <1>4, <1>p, <2>1 DEF SpeakReturn, record, plan, tone
  <2>3. Treads(s, l) /\ Served
    <3>1. Continue(s, l)
      BY <1>4, <1>k, <2>1, <2>u, Kinds, SendContinues DEF SpeakReturn, Ordinary, Sends, Resumes
    <3> HIDE DEF l
    <3> QED BY <1>k, <2>1, <3>1, TreadsBy
  <2>5. ArcRecord(s, l)
    BY <1>k, <1>a, <2>1, <2>u DEF ArcRecord, Answering
  <2> HIDE DEF l
  <2>4. ArcPlace(s, l) /\ ArcJoins(s, l) /\ ArcState(s, l)
    BY <1>k, <1>a, <2>1, <2>u DEF ArcPlace, ArcJoins, ArcState, Early, Greets, Unspoken, Talking
  <2>6. ArcSound(s, l)
    BY <1>k, <1>a, <2>1, <2>u DEF ArcSound
  <2> QED BY <1>k, <1>a, <2>1, <2>u, <2>3, <2>4, <2>5, <2>6 DEF Arc, Duty
<1> QED BY <1>1, <1>2, <1>3, <1>4

\* The watchdog's own steps.
LEMMA WatchdogArc ==
  ASSUME TypeOK, LoopInv, Ordinary, WatchdogStep
  PROVE  \E p \in Proc : \E l \in Label : Arc(p, l)
<1>k. /\ "watchdog" \in Proc /\ "watchdog" \notin Turns /\ "watchdog" \in Speaker /\ <<>> \in Seq(Task)
  BY Kinds
<1>p. PromptAfter \in {1, 2} /\ HangupAfter \in {1, 2} /\ idle \in 0..2
  BY PatienceAssumption DEF TypeOK, CallerOK
<1>i. MustAsk \/ MustClose => idle # 0
  BY <1>p DEF MustAsk, MustClose
<1>1. CASE WatchdogLoops
  <2>0. PICK l \in {"tick", "done"} : Suspend("watchdog", l, NoTask, <<>>) \/ (l = "done" /\ Return("watchdog", <<>>))
    BY <1>1 DEF WatchdogLoops
  <2>1. Leads(ProcTask("watchdog")) /\ pc["watchdog"] = "again"
    BY <1>1, RunsLeads DEF WatchdogLoops
  <2>2. /\ UNCHANGED <<state, saved, then, play, utterance, idle, turnTask, exchange, inbox, over, hold, holdTask>>
    BY <1>1 DEF WatchdogLoops, record, plan, voice, tone, caller, patience, TypeOK, PlanOK, CallerOK
  <2>3. Treads("watchdog", l) /\ Served
    <3>1. Suspend("watchdog", l, NoTask, <<>>) \/ (l = "done" /\ Return("watchdog", <<>>))
      BY <1>1, <2>0, <2>1 DEF WatchdogLoops
    <3> QED BY <1>k, <2>1, <3>1, TreadsBy
  <2> HIDE DEF Leads, Treads, Served, In, Live
  <2>4. Duty("watchdog", l)
    BY <1>k, <2>1, <2>2 DEF Duty, ArcPlace, ArcJoins, ArcState, ArcRecord, ArcSound, Early, Greets,
                          Unspoken, Talking, Answering
  <2> QED BY <1>k, <2>1, <2>3, <2>4 DEF Arc, Label
<1>2. CASE WatchdogTimesOut
  <2>1. Leads(ProcTask("watchdog")) /\ pc["watchdog"] = "tick"
    BY <1>2, RunsLeads DEF WatchdogTimesOut
  <2>2. /\ UNCHANGED <<state, saved, then, play, utterance, idle, turnTask, exchange, inbox, over, hold, holdTask>>
    BY <1>2 DEF WatchdogTimesOut, record, plan, voice, tone, caller, patience, TypeOK, PlanOK, CallerOK
  <2>3. Treads("watchdog", "hangup") /\ Served
    <3>1. Continue("watchdog", "hangup")
      BY <1>2, <2>1 DEF WatchdogTimesOut
    <3> QED BY <1>k, <2>1, <3>1, TreadsBy
  <2> HIDE DEF Leads, Treads, Served, In, Live
  <2>4. Duty("watchdog", "hangup")
    BY <1>k, <2>1, <2>2 DEF Duty, ArcPlace, ArcJoins, ArcState, ArcRecord, ArcSound, Early, Greets,
                          Unspoken, Talking, Answering
  <2> QED BY <1>k, <2>1, <2>3, <2>4 DEF Arc, Label
<1>3. CASE WatchdogPasses
  <2>1. Leads(ProcTask("watchdog")) /\ pc["watchdog"] = "tick"
    BY <1>3, RunsLeads DEF WatchdogPasses
  <2>2. /\ UNCHANGED <<state, saved, then, play, utterance, idle, turnTask, exchange, inbox, over, hold, holdTask>>
    BY <1>3 DEF WatchdogPasses, record, plan, voice, tone, caller, patience, TypeOK, PlanOK, CallerOK
  <2>3. Treads("watchdog", "again") /\ Served
    <3>1. Continue("watchdog", "again")
      BY <1>3, <2>1 DEF WatchdogPasses
    <3> QED BY <1>k, <2>1, <3>1, TreadsBy
  <2> HIDE DEF Leads, Treads, Served, In, Live
  <2>4. Duty("watchdog", "again")
    BY <1>k, <2>1, <2>2 DEF Duty, ArcPlace, ArcJoins, ArcState, ArcRecord, ArcSound, Early, Greets,
                          Unspoken, Talking, Answering
  <2> QED BY <1>k, <2>1, <2>3, <2>4 DEF Arc, Label
<1>4. CASE WatchdogAsks
  <2>1. Leads(ProcTask("watchdog")) /\ pc["watchdog"] = "tick"
    BY <1>4, RunsLeads DEF WatchdogAsks
  <2>2. /\ UNCHANGED <<state, saved, play, utterance, idle, turnTask, exchange, inbox, over, hold, holdTask>>
        /\ state = "listening" /\ idle # 0
        /\ \A t \in Turns : then'[t] = then[t]
    BY <1>4, <1>k, <1>i DEF WatchdogAsks, record, plan, voice, tone, caller, patience, TypeOK, PlanOK, CallerOK
  <2>3. Treads("watchdog", "enter") /\ Served
    <3>1. Continue("watchdog", "enter")
      BY <1>4, <2>1 DEF WatchdogAsks
    <3> QED BY <1>k, <2>1, <3>1, TreadsBy
  <2> HIDE DEF Leads, Treads, Served, In, Live
  <2>4. Duty("watchdog", "enter")
    BY <1>k, <2>1, <2>2 DEF Duty, ArcPlace, ArcJoins, ArcState, ArcRecord, ArcSound, Early, Greets,
                          Unspoken, Talking, Answering
  <2> QED BY <1>k, <2>1, <2>3, <2>4 DEF Arc, Label
<1>5. CASE WatchdogClosing
  <2>1. Leads(ProcTask("watchdog")) /\ pc["watchdog"] = "tick"
    BY <1>5, RunsLeads DEF WatchdogClosing
  <2>2. /\ UNCHANGED <<state, saved, play, utterance, idle, turnTask, exchange, inbox, over, hold, holdTask>>
        /\ state = "listening" /\ idle # 0
        /\ \A t \in Turns : then'[t] = then[t]
    BY <1>5, <1>k, <1>i DEF WatchdogClosing, record, plan, voice, tone, caller, patience, TypeOK, PlanOK, CallerOK
  <2>3. Treads("watchdog", "enter") /\ Served
    <3>1. Continue("watchdog", "enter")
      BY <1>5, <2>1 DEF WatchdogClosing
    <3> QED BY <1>k, <2>1, <3>1, TreadsBy
  <2> HIDE DEF Leads, Treads, Served, In, Live
  <2>4. Duty("watchdog", "enter")
    BY <1>k, <2>1, <2>2 DEF Duty, ArcPlace, ArcJoins, ArcState, ArcRecord, ArcSound, Early, Greets,
                          Unspoken, Talking, Answering
  <2> QED BY <1>k, <2>1, <2>3, <2>4 DEF Arc, Label
<1>6. CASE WatchdogCloses
  <2>1. Leads(ProcTask("watchdog")) /\ pc["watchdog"] = "closing"
    BY <1>6, RunsLeads DEF WatchdogCloses
  <2>2. /\ UNCHANGED <<state, saved, then, play, utterance, idle, turnTask, exchange, inbox, over, hold, holdTask>>
    BY <1>6 DEF WatchdogCloses, record, plan, voice, tone, caller, patience, TypeOK, PlanOK, CallerOK
  <2>3. Treads("watchdog", "hangup") /\ Served
    <3>1. Continue("watchdog", "hangup")
      BY <1>6, <2>1 DEF WatchdogCloses
    <3> QED BY <1>k, <2>1, <3>1, TreadsBy
  <2> HIDE DEF Leads, Treads, Served, In, Live
  <2>4. Duty("watchdog", "hangup")
    BY <1>k, <2>1, <2>2 DEF Duty, ArcPlace, ArcJoins, ArcState, ArcRecord, ArcSound, Early, Greets,
                          Unspoken, Talking, Answering
  <2> QED BY <1>k, <2>1, <2>3, <2>4 DEF Arc, Label
<1> QED BY <1>1, <1>2, <1>3, <1>4, <1>5, <1>6 DEF WatchdogStep

\* The steps of a task that hangs up.
LEMMA HangupArc ==
  ASSUME TypeOK, LoopInv, Ordinary, HangupStep
  PROVE  \E p \in Proc : \E l \in Label : Arc(p, l)
<1>k. /\ <<>> \in Seq(Task) /\ "reader" \notin Turns /\ {"run", "consumer"} \cap (Hanger \cup Turns) = {}
      /\ "watchdog" \notin Turns
  BY Kinds
<1>1. ASSUME NEW p \in Proc \ {"run", "consumer"}, Hangup(p)
      PROVE  \E l \in Label : Arc(p, l)
  <2>1. Leads(ProcTask(p)) /\ pc[p] = "hangup"
    BY <1>1, RunsLeads DEF Hangup
  <2>2. UNCHANGED <<saved, then, utterance, idle, turnTask, exchange, inbox, over, hold, holdTask>>
    BY <1>1 DEF Hangup, plan, tone, caller, patience
  <2>3. CASE state = "ended"
    <3>1. Continue(p, "hung up") /\ state' = state /\ play' = play
      BY <1>1, <2>3 DEF Hangup
    <3>2. Treads(p, "hung up") /\ Served
      BY <2>1, <3>1, TreadsBy
    <3> HIDE DEF Leads, Treads, Served, In, Live
    <3>3. Duty(p, "hung up")
      BY <1>k, <2>1, <2>2, <2>3, <3>1 DEF Duty, ArcPlace, ArcJoins, ArcState, ArcRecord, ArcSound, Early, Greets,
                          Unspoken, Talking, Answering
    <3> QED BY <2>1, <3>2, <3>3 DEF Arc, Label
  <2>4. CASE state # "ended"
    <3>1. CancelPlayback(p, "sentinel") /\ state' = "ended"
      BY <1>1, <2>4 DEF Hangup
    <3>2. Treads(p, "sentinel") /\ Served
      BY <2>1, <3>1, TreadsBy
    <3>p. /\ \A s \in Speaker : play'[s] \in {"new", "playing"} => play[s] \in {"new", "playing"}
          /\ \A s \in Speaker : speaking = s => play'[s] \notin {"new", "playing"}
          /\ ready' = ready \/ \E s \in Speaker : speaking = s /\ play[s] # "over"
      BY <3>1, PlaybackCut
    <3>q. ready' = ready => (Leads(ProcTask(p)))'
      BY <2>1 DEF Leads
    <3> HIDE DEF Leads, Treads, Served, In, Live
    <3>3. Duty(p, "sentinel")
      BY <1>k, <2>1, <2>2, <2>4, <3>1, <3>p, <3>q DEF Duty, ArcPlace, ArcJoins, ArcState, ArcRecord, ArcSound, Early,
                          Greets, Unspoken, Talking, Answering
    <3> QED BY <2>1, <3>2, <3>3 DEF Arc, Label
  <2> QED BY <2>3, <2>4
<1>2. ASSUME NEW p \in Proc \ {"run", "consumer"}, HangupSentinel(p)
      PROVE  Arc(p, "hung up")
  <2>1. Leads(ProcTask(p)) /\ pc[p] = "sentinel"
    BY <1>2, RunsLeads DEF HangupSentinel
  <2>2. /\ UNCHANGED <<state, saved, then, play, utterance, idle, turnTask, exchange, hold, holdTask>>
        /\ over' = TRUE /\ inbox' = Append(inbox, "end")
    BY <1>2 DEF HangupSentinel, record, plan, tone, caller, patience
  <2>3. Treads(p, "hung up")
    BY <1>2 DEF HangupSentinel, Treads, TypeOK, ControlOK
  <2>4. Served
    <3>1. ready' = ready \o WakeConsumer \o WakeRun
      BY <1>2 DEF HangupSentinel
    <3>2. ready \in Seq(Task) /\ WakeConsumer \in Seq(Task) /\ WakeRun \in Seq(Task)
      BY WakeTypes DEF TypeOK, ControlOK
    <3> HIDE DEF WakeConsumer, WakeRun
    <3>3. WakeConsumer \o WakeRun \in Seq(Task) /\ ready' = ready \o (WakeConsumer \o WakeRun)
      BY <3>1, <3>2, ConcatAssociative
    <3> QED BY <3>3 DEF Served
  <2>5. In("end", inbox')
    <3>1. inbox \in Seq({"frame", "end"})
      BY DEF TypeOK, CallerOK
    <3>2. Len(inbox') \in 1..Len(inbox') /\ inbox'[Len(inbox')] = "end"
      BY <2>2, <3>1
    <3> QED BY <3>2 DEF In
  <2> HIDE DEF Leads, Treads, Served, In, Live
  <2>6. Duty(p, "hung up")
    BY <1>k, <2>1, <2>2, <2>5 DEF Duty, ArcPlace, ArcJoins, ArcState, ArcRecord, ArcSound, Early, Greets,
                          Unspoken, Talking, Answering
  <2> QED BY <2>1, <2>3, <2>4, <2>6 DEF Arc
<1>3. ASSUME NEW p \in Proc \ {"run", "consumer"}, HungUp(p)
      PROVE  \E l \in Label : Arc(p, l)
  <2>0. PICK l \in {"bounded", "done"} :
          (Suspend(p, l, ProcTask("run"), <<>>) /\ p = "reader") \/ (l = "done" /\ Return(p, <<>>))
    <3>1. \/ Suspend(p, "bounded", ProcTask("run"), <<>>) /\ p = "reader"
          \/ Return(p, <<>>)
      BY <1>3 DEF HungUp
    <3> HIDE DEF Suspend, Return
    <3> QED BY <3>1
  <2>1. Leads(ProcTask(p)) /\ pc[p] = "hung up"
    BY <1>3, RunsLeads DEF HungUp
  <2>2. UNCHANGED <<state, saved, then, play, utterance, idle, turnTask, exchange, inbox, over, hold, holdTask>>
    BY <1>3 DEF HungUp, record, plan, voice, tone, caller, patience
  <2>3. Treads(p, l) /\ Served
    BY <1>k, <2>0, <2>1, TreadsBy
  <2> HIDE DEF Leads, Treads, Served, In, Live
  <2>4. Duty(p, l)
    BY <1>k, <2>0, <2>1, <2>2 DEF Duty, ArcPlace, ArcJoins, ArcState, ArcRecord, ArcSound, Early, Greets,
                          Unspoken, Talking, Answering
  <2> QED BY <2>0, <2>1, <2>3, <2>4 DEF Arc, Label
<1>4. ASSUME ReaderDone
      PROVE  Arc("reader", "done")
  <2>0. "reader" \in Proc
    BY <1>4, Kinds DEF ReaderDone
  <2>1. Leads(ProcTask("reader")) /\ pc["reader"] \in {"bounded", "expired"}
    BY <1>4, RunsLeads DEF ReaderDone
  <2>2. UNCHANGED <<state, saved, then, play, utterance, idle, turnTask, exchange, inbox, over, hold, holdTask>>
    BY <1>4 DEF ReaderDone, record, plan, voice, tone, caller, patience
  <2>3. Treads("reader", "done") /\ Served
    BY <1>4, <1>k, <2>0, <2>1, TreadsBy DEF ReaderDone
  <2> HIDE DEF Leads, Treads, Served, In, Live
  <2>4. Duty("reader", "done")
    BY <1>k, <2>1, <2>2 DEF Duty, ArcPlace, ArcJoins, ArcState, ArcRecord, ArcSound, Early, Greets,
                          Unspoken, Talking, Answering
  <2> QED BY <2>0, <2>1, <2>3, <2>4 DEF Arc
<1>5. "hung up" \in Label /\ "done" \in Label /\ (ReaderDone => "reader" \in Proc)
  BY Kinds DEF Label, ReaderDone
<1>6. \A p \in Proc \ {"run", "consumer"} : Hangup(p) \/ HangupSentinel(p) \/ HungUp(p) =>
        \E l \in Label : Arc(p, l)
  BY <1>1, <1>2, <1>3, <1>5
<1>7. ReaderDone => "reader" \in Proc /\ \E l \in Label : Arc("reader", l)
  BY <1>4, <1>5
<1> HIDE DEF Arc, Label
<1> QED BY <1>6, <1>7 DEF HangupStep

\* A frame taken from the queue leaves the end of the stream in it.
LEMMA FrameTaken ==
  ASSUME TypeOK, TakesFrame
  PROVE  In("end", inbox) => In("end", inbox')
<1>1. inbox \in Seq({"frame", "end"}) /\ inbox # <<>> /\ inbox[1] = "frame" /\ inbox' = Tail(inbox)
  BY DEF TakesFrame, TypeOK, CallerOK
<1> SUFFICES ASSUME NEW i \in 1..Len(inbox), inbox[i] = "end" PROVE In("end", inbox')
  BY DEF In
<1>2. i - 1 \in 1..Len(Tail(inbox)) /\ Tail(inbox)[i - 1] = "end"
  BY <1>1
<1> QED BY <1>1, <1>2 DEF In

\* The consumer's steps, but for the one that opens a turn.
LEMMA ConsumerArc ==
  ASSUME TypeOK, LoopInv, Ordinary, ConsumerStep, \A t \in Turns : ~TurnOpens(t)
  PROVE  \E p \in Proc : \E l \in Label : Arc(p, l)
<1>k. /\ "consumer" \in Proc /\ "consumer" \notin Turns /\ "consumer" \notin Speaker /\ <<>> \in Seq(Task)
      /\ WakeRun \in Seq(Task)
  BY Kinds, WakeTypes
<1>1. CASE ConsumerLoops
  <2>0. PICK l \in {"get", "done"} :
          \/ Suspend("consumer", l, NoTask, <<>>)
          \/ Continue("consumer", l)
          \/ l = "done" /\ Return("consumer", WakeRun)
    <3>1. \/ Suspend("consumer", "get", NoTask, <<>>) \/ Continue("consumer", "get")
          \/ Return("consumer", WakeRun)
      BY <1>1 DEF ConsumerLoops
    <3> QED BY <3>1
  <2>1. Leads(ProcTask("consumer")) /\ pc["consumer"] = "loop"
    BY <1>1, RunsLeads DEF ConsumerLoops
  <2>2. /\ UNCHANGED <<state, saved, then, play, utterance, idle, turnTask, exchange, inbox, over, hold, holdTask>>
    BY <1>1 DEF ConsumerLoops, record, plan, voice, tone, caller, patience, TypeOK, PlanOK, CallerOK
  <2>3. Treads("consumer", l) /\ Served
    BY <1>k, <2>0, <2>1, TreadsBy
  <2> HIDE DEF Leads, Treads, Served, In, Live
  <2>4. Duty("consumer", l)
    BY <1>k, <2>1, <2>2 DEF Duty, ArcPlace, ArcJoins, ArcState, ArcRecord, ArcSound, Early, Greets,
                          Unspoken, Talking, Answering
  <2> QED BY <1>k, <2>1, <2>3, <2>4 DEF Arc, Label
<1>2. CASE ConsumerEnds
  <2>1. Leads(ProcTask("consumer")) /\ pc["consumer"] = "get"
    BY <1>2, RunsLeads DEF ConsumerEnds
  <2>2. /\ UNCHANGED <<state, saved, then, play, utterance, idle, turnTask, exchange, over, hold, holdTask>>
    BY <1>2 DEF ConsumerEnds, record, plan, voice, tone, caller, patience, TypeOK, PlanOK, CallerOK
  <2>3. Treads("consumer", "done") /\ Served
    <3>1. Return("consumer", WakeRun)
      BY <1>2, <2>1 DEF ConsumerEnds
    <3> QED BY <1>k, <2>1, <3>1, TreadsBy
  <2> HIDE DEF Leads, Treads, Served, In, Live
  <2>4. Duty("consumer", "done")
    BY <1>k, <2>1, <2>2 DEF Duty, ArcPlace, ArcJoins, ArcState, ArcRecord, ArcSound, Early, Greets,
                          Unspoken, Talking, Answering
  <2> QED BY <1>k, <2>1, <2>3, <2>4 DEF Arc, Label
<1>3. CASE FrameDropped
  <2>1. Leads(ProcTask("consumer")) /\ pc["consumer"] = "get"
    BY <1>3, RunsLeads DEF FrameDropped, TakesFrame
  <2>2. /\ UNCHANGED <<state, saved, then, play, utterance, idle, turnTask, exchange, over, hold, holdTask>>
        /\ In("end", inbox) => In("end", inbox')
    BY <1>3, FrameTaken DEF FrameDropped, record, plan, voice, tone, caller, patience, TypeOK, PlanOK, CallerOK
  <2>3. Treads("consumer", "loop") /\ Served
    <3>1. Continue("consumer", "loop")
      BY <1>3, <2>1 DEF FrameDropped
    <3> QED BY <1>k, <2>1, <3>1, TreadsBy
  <2> HIDE DEF Leads, Treads, Served, In, Live
  <2>4. Duty("consumer", "loop")
    BY <1>k, <2>1, <2>2 DEF Duty, ArcPlace, ArcJoins, ArcState, ArcRecord, ArcSound, Early, Greets,
                          Unspoken, Talking, Answering
  <2> QED BY <1>k, <2>1, <2>3, <2>4 DEF Arc, Label
<1>4. CASE BargeIn
  <2>1. Leads(ProcTask("consumer")) /\ pc["consumer"] = "get"
    BY <1>4, RunsLeads DEF BargeIn, TakesFrame
  <2>2. /\ UNCHANGED <<state, saved, then, utterance, idle, turnTask, exchange, over, hold, holdTask>>
        /\ In("end", inbox) => In("end", inbox')
        /\ state = "speaking" /\ CancelPlayback("consumer", "barge in")
        /\ \A s \in Speaker : play'[s] \in {"new", "playing"} => play[s] \in {"new", "playing"}
    BY <1>4, FrameTaken, <1>k, PlaybackCut DEF BargeIn, record, plan, voice, tone, caller, patience, TypeOK, PlanOK, CallerOK
  <2>3. Treads("consumer", "barge in") /\ Served
    <3>1. CancelPlayback("consumer", "barge in")
      BY <1>4, <2>1 DEF BargeIn
    <3> QED BY <1>k, <2>1, <3>1, TreadsBy
  <2> HIDE DEF Leads, Treads, Served, In, Live
  <2>4. Duty("consumer", "barge in")
    BY <1>k, <2>1, <2>2 DEF Duty, ArcPlace, ArcJoins, ArcState, ArcRecord, ArcSound, Early, Greets,
                          Unspoken, Talking, Answering
  <2> QED BY <1>k, <2>1, <2>3, <2>4 DEF Arc, Label
<1>5. CASE BargeInSent
  <2>1. Leads(ProcTask("consumer")) /\ pc["consumer"] = "barge in"
    BY <1>5, RunsLeads DEF BargeInSent
  <2>2. /\ UNCHANGED <<state, saved, then, play, utterance, idle, turnTask, exchange, inbox, over, hold, holdTask>>
    BY <1>5 DEF BargeInSent, record, plan, voice, tone, caller, patience, TypeOK, PlanOK, CallerOK
  <2>3. Treads("consumer", "listen") /\ Served
    <3>1. Continue("consumer", "listen")
      BY <1>5, <1>k, SendContinues, <2>1 DEF BargeInSent, Ordinary, Sends
    <3> QED BY <1>k, <2>1, <3>1, TreadsBy
  <2> HIDE DEF Leads, Treads, Served, In, Live
  <2>4. Duty("consumer", "listen")
    BY <1>k, <2>1, <2>2 DEF Duty, ArcPlace, ArcJoins, ArcState, ArcRecord, ArcSound, Early, Greets,
                          Unspoken, Talking, Answering
  <2> QED BY <1>k, <2>1, <2>3, <2>4 DEF Arc, Label
<1>6. CASE BargeInListens
  <2>1. Leads(ProcTask("consumer")) /\ pc["consumer"] = "listen"
    BY <1>6, RunsLeads DEF BargeInListens
  <2>2. /\ UNCHANGED <<saved, then, play, turnTask, exchange, inbox, over, hold, holdTask>>
        /\ state' = "listening" /\ utterance' \in {"idle", "onset"} /\ idle' = 0
    BY <1>6 DEF BargeInListens, record, plan, voice, tone, caller, patience, TypeOK, PlanOK, CallerOK
  <2>3. Treads("consumer", "loop") /\ Served
    <3>1. Continue("consumer", "loop")
      BY <1>6, <1>k, SendContinues, <2>1 DEF BargeInListens, Ordinary, Sends
    <3> QED BY <1>k, <2>1, <3>1, TreadsBy
  <2> HIDE DEF Leads, Treads, Served, In, Live
  <2>4. Duty("consumer", "loop")
    BY <1>k, <2>1, <2>2 DEF Duty, ArcPlace, ArcJoins, ArcState, ArcRecord, ArcSound, Early, Greets,
                          Unspoken, Talking, Answering
  <2> QED BY <1>k, <2>1, <2>3, <2>4 DEF Arc, Label
<1>7. CASE FrameHeard
  <2>1. Leads(ProcTask("consumer")) /\ pc["consumer"] = "get"
    BY <1>7, RunsLeads DEF FrameHeard, TakesFrame
  <2>2. /\ UNCHANGED <<state, saved, then, play, turnTask, exchange, over, hold, holdTask>>
        /\ In("end", inbox) => In("end", inbox')
        /\ utterance' \in {utterance, "idle", "onset"} /\ idle' \in {idle, 0}
    BY <1>7, FrameTaken DEF FrameHeard, record, plan, voice, tone, caller, patience, TypeOK, PlanOK, CallerOK
  <2>3. Treads("consumer", "loop") /\ Served
    <3>1. Continue("consumer", "loop")
      BY <1>7, <1>k, SendContinues, <2>1 DEF FrameHeard, Ordinary, Sends
    <3> QED BY <1>k, <2>1, <3>1, TreadsBy
  <2> HIDE DEF Leads, Treads, Served, In, Live
  <2>4. Duty("consumer", "loop")
    BY <1>k, <2>1, <2>2 DEF Duty, ArcPlace, ArcJoins, ArcState, ArcRecord, ArcSound, Early, Greets,
                          Unspoken, Talking, Answering
  <2> QED BY <1>k, <2>1, <2>3, <2>4 DEF Arc, Label
<1> QED BY <1>1, <1>2, <1>3, <1>4, <1>5, <1>6, <1>7 DEF ConsumerStep

\* A turn's own steps, once it is open.
LEMMA TurnArc ==
  ASSUME TypeOK, LoopInv, Ordinary, TurnStep
  PROVE  \E p \in Proc : \E l \in Label : Arc(p, l)
<1> SUFFICES ASSUME NEW t \in Turns,
                    \/ TurnStarts(t) \/ TurnEmpty(t) \/ TurnUnheard(t) \/ TurnFixedLine(t)
                    \/ TurnLine(t) \/ TurnAsks(t) \/ TurnAnswered(t) \/ TurnFailed(t)
                    \/ TurnSpeaks(t) \/ TurnRecorded(t)
                    \/ TurnListens(t) \/ TurnTransfers(t) \/ TurnEndsCall(t)
             PROVE  \E p \in Proc : \E l \in Label : Arc(p, l)
  BY DEF TurnStep
<1>k. t \in Proc /\ t \notin {"run", "watchdog", "consumer"} /\ <<>> \in Seq(Task)
  BY Kinds
<1>s. \A l \in Sends : Leads(ProcTask(t)) /\ Send(t, l) => Continue(t, l)
  BY <1>k, SendContinues DEF Ordinary
<1>1. CASE TurnStarts(t)
  <2>1. Leads(ProcTask(t)) /\ pc[t] = "start"
    BY <1>1, RunsLeads DEF TurnStarts
  <2>2. /\ UNCHANGED <<state, saved, then, play, utterance, idle, turnTask, exchange, inbox, over>>
        /\ \/ hold' = hold /\ holdTask' = holdTask
           \/ /\ holdTask = None /\ state # "ended" /\ holdTask' = t
              /\ hold' = [hold EXCEPT ![t] = "on"]
    BY <1>1 DEF TurnStarts, record, plan, voice, tone, caller, patience, TypeOK, PlanOK, CallerOK
  <2>3. Treads(t, "stt") /\ Served
    <3>1. Suspend(t, "stt", NoTask, <<>>)
      BY <1>1, <2>1 DEF TurnStarts
    <3> QED BY <1>k, <2>1, <3>1, TreadsBy
  <2> HIDE DEF Leads, Treads, Served, In, Live
  <2>4. Duty(t, "stt")
    BY <1>k, <2>1, <2>2 DEF Duty, ArcPlace, ArcJoins, ArcState, ArcRecord, ArcSound, Early, Greets,
                          Unspoken, Talking, Answering
  <2> QED BY <1>k, <2>1, <2>3, <2>4 DEF Arc, Label
<1>2. CASE TurnEmpty(t)
  <2>1. Leads(ProcTask(t)) /\ pc[t] = "stt"
    BY <1>2, RunsLeads DEF TurnEmpty
  <2>2. /\ UNCHANGED <<state, saved, then, play, utterance, idle, turnTask, exchange, inbox, over>>
        /\ holdTask' = None
        /\ \/ (\A u \in Turns : u = holdTask => hold[u] = "over") /\ hold' = hold
           \/ /\ holdTask # None /\ joining'[t] = HoldTask(holdTask)
              /\ hold' = [hold EXCEPT ![holdTask] = "stopping"]
    BY <1>2, <1>k, HoldDropped DEF TurnEmpty, record, plan, voice, tone, caller, patience, TypeOK, PlanOK, CallerOK
  <2>3. Treads(t, "unheard") /\ Served
    <3>1. StopHold(t, "unheard")
      BY <1>2, <2>1 DEF TurnEmpty
    <3> QED BY <1>k, <2>1, <3>1, TreadsBy
  <2> HIDE DEF Leads, Treads, Served, In, Live
  <2>4. Duty(t, "unheard")
    BY <1>k, <2>1, <2>2 DEF Duty, ArcPlace, ArcJoins, ArcState, ArcRecord, ArcSound, Early, Greets,
                          Unspoken, Talking, Answering
  <2> QED BY <1>k, <2>1, <2>3, <2>4 DEF Arc, Label
<1>3. CASE TurnUnheard(t)
  <2>1. Leads(ProcTask(t)) /\ pc[t] = "unheard"
    BY <1>3, RunsLeads DEF TurnUnheard
  <2>2. /\ UNCHANGED <<saved, then, play, utterance, idle, turnTask, exchange, inbox, over, hold, holdTask>>
        /\ state' = "listening"
    BY <1>3 DEF TurnUnheard, record, plan, voice, tone, caller, patience, TypeOK, PlanOK, CallerOK
  <2>3. Treads(t, "done") /\ Served
    <3>1. Return(t, <<>>)
      BY <1>3, <2>1 DEF TurnUnheard
    <3> QED BY <1>k, <2>1, <3>1, TreadsBy
  <2> HIDE DEF Leads, Treads, Served, In, Live
  <2>4. Duty(t, "done")
    BY <1>k, <2>1, <2>2 DEF Duty, ArcPlace, ArcJoins, ArcState, ArcRecord, ArcSound, Early, Greets,
                          Unspoken, Talking, Answering
  <2> QED BY <1>k, <2>1, <2>3, <2>4 DEF Arc, Label
<1>4. CASE TurnFixedLine(t)
  <2>1. Leads(ProcTask(t)) /\ pc[t] = "stt"
    BY <1>4, RunsLeads DEF TurnFixedLine
  <2>2. /\ UNCHANGED <<state, saved, play, utterance, idle, turnTask, inbox, over, hold, holdTask>>
        /\ \A u \in Turns \ {t} : then'[u] = then[u]
        /\ \A u \in Turns \ {t} : exchange'[u] = exchange[u]
        /\ \/ exchange'[t] = exchange[t]
           \/ exchange'[t] = "answered" /\ then'[t] = "spoken"
    BY <1>4, <1>k, Kinds DEF TurnFixedLine, record, plan, voice, tone, caller, patience, TypeOK, PlanOK, CallerOK
  <2>3. Treads(t, "line") /\ Served
    <3>1. Continue(t, "line")
      BY <1>4, <1>s, <2>1 DEF Sends, TurnFixedLine
    <3> QED BY <1>k, <2>1, <3>1, TreadsBy
  <2> HIDE DEF Leads, Treads, Served, In, Live
  <2>4. Duty(t, "line")
    BY <1>k, <2>1, <2>2 DEF Duty, ArcPlace, ArcJoins, ArcState, ArcRecord, ArcSound, Early, Greets,
                          Unspoken, Talking, Answering
  <2> QED BY <1>k, <2>1, <2>3, <2>4 DEF Arc, Label
<1>5. CASE TurnLine(t)
  <2>1. Leads(ProcTask(t)) /\ pc[t] = "line"
    BY <1>5, RunsLeads DEF TurnLine
  <2>2. /\ UNCHANGED <<state, saved, then, play, utterance, idle, turnTask, exchange, inbox, over>>
        /\ holdTask' = None
        /\ \/ (\A u \in Turns : u = holdTask => hold[u] = "over") /\ hold' = hold
           \/ /\ holdTask # None /\ joining'[t] = HoldTask(holdTask)
              /\ hold' = [hold EXCEPT ![holdTask] = "stopping"]
    BY <1>5, <1>k, HoldDropped DEF TurnLine, record, plan, voice, tone, caller, patience, TypeOK, PlanOK, CallerOK
  <2>3. Treads(t, "enter") /\ Served
    <3>1. StopHold(t, "enter")
      BY <1>5, <2>1 DEF TurnLine
    <3> QED BY <1>k, <2>1, <3>1, TreadsBy
  <2> HIDE DEF Leads, Treads, Served, In, Live
  <2>4. Duty(t, "enter")
    BY <1>k, <2>1, <2>2 DEF Duty, ArcPlace, ArcJoins, ArcState, ArcRecord, ArcSound, Early, Greets,
                          Unspoken, Talking, Answering
  <2> QED BY <1>k, <2>1, <2>3, <2>4 DEF Arc, Label
<1>6. CASE TurnAsks(t)
  <2>1. Leads(ProcTask(t)) /\ pc[t] = "stt"
    BY <1>6, RunsLeads DEF TurnAsks
  <2>2. /\ UNCHANGED <<state, saved, then, play, utterance, idle, turnTask, exchange, inbox, over, hold, holdTask>>
    BY <1>6 DEF TurnAsks, record, plan, voice, tone, caller, patience, TypeOK, PlanOK, CallerOK
  <2>3. Treads(t, "respond") /\ Served
    <3>1. Suspend(t, "respond", NoTask, <<>>)
      BY <1>6, <2>1 DEF TurnAsks
    <3> QED BY <1>k, <2>1, <3>1, TreadsBy
  <2> HIDE DEF Leads, Treads, Served, In, Live
  <2>4. Duty(t, "respond")
    BY <1>k, <2>1, <2>2 DEF Duty, ArcPlace, ArcJoins, ArcState, ArcRecord, ArcSound, Early, Greets,
                          Unspoken, Talking, Answering
  <2> QED BY <1>k, <2>1, <2>3, <2>4 DEF Arc, Label
<1>7. CASE TurnAnswered(t)
  <2>1. Leads(ProcTask(t)) /\ pc[t] = "respond"
    BY <1>7, RunsLeads DEF TurnAnswered
  <2>2. /\ UNCHANGED <<state, saved, play, utterance, idle, turnTask, inbox, over, hold, holdTask>>
        /\ \A u \in Turns \ {t} : then'[u] = then[u]
        /\ \A u \in Turns \ {t} : exchange'[u] = exchange[u]
        /\ exchange'[t] = "answered" /\ then'[t] = "spoken"
    BY <1>7, <1>k, Kinds DEF TurnAnswered, record, plan, voice, tone, caller, patience, TypeOK, PlanOK, CallerOK
  <2>3. Treads(t, "answered") /\ Served
    <3>1. Continue(t, "answered")
      BY <1>7, <1>s, <2>1 DEF Sends, TurnAnswered
    <3> QED BY <1>k, <2>1, <3>1, TreadsBy
  <2> HIDE DEF Leads, Treads, Served, In, Live
  <2>4. Duty(t, "answered")
    BY <1>k, <2>1, <2>2 DEF Duty, ArcPlace, ArcJoins, ArcState, ArcRecord, ArcSound, Early, Greets,
                          Unspoken, Talking, Answering
  <2> QED BY <1>k, <2>1, <2>3, <2>4 DEF Arc, Label
<1>8. CASE TurnFailed(t)
  <2>1. Leads(ProcTask(t)) /\ pc[t] = "respond"
    BY <1>8, RunsLeads DEF TurnFailed
  <2>2. /\ UNCHANGED <<state, saved, play, utterance, idle, turnTask, exchange, inbox, over, hold, holdTask>>
        /\ \A u \in Turns \ {t} : then'[u] = then[u]
    BY <1>8, <1>k, Kinds DEF TurnFailed, record, plan, voice, tone, caller, patience, TypeOK, PlanOK, CallerOK
  <2>3. Treads(t, "line") /\ Served
    <3>1. Continue(t, "line")
      BY <1>8, <1>s, <2>1 DEF Sends, TurnFailed
    <3> QED BY <1>k, <2>1, <3>1, TreadsBy
  <2> HIDE DEF Leads, Treads, Served, In, Live
  <2>4. Duty(t, "line")
    BY <1>k, <2>1, <2>2 DEF Duty, ArcPlace, ArcJoins, ArcState, ArcRecord, ArcSound, Early, Greets,
                          Unspoken, Talking, Answering
  <2> QED BY <1>k, <2>1, <2>3, <2>4 DEF Arc, Label
<1>9. CASE TurnSpeaks(t)
  <2>1. Leads(ProcTask(t)) /\ pc[t] = "answered"
    BY <1>9, RunsLeads DEF TurnSpeaks
  <2>2. /\ UNCHANGED <<state, saved, then, play, utterance, idle, turnTask, exchange, inbox, over, hold, holdTask>>
    BY <1>9 DEF TurnSpeaks, record, plan, voice, tone, caller, patience, TypeOK, PlanOK, CallerOK
  <2>3. Treads(t, "enter") /\ Served
    <3>1. Continue(t, "enter")
      BY <1>9, WordsAreSpoken
    <3> QED BY <1>k, <2>1, <3>1, TreadsBy
  <2> HIDE DEF Leads, Treads, Served, In, Live
  <2>4. Duty(t, "enter")
    BY <1>k, <2>1, <2>2 DEF Duty, ArcPlace, ArcJoins, ArcState, ArcRecord, ArcSound, Early, Greets,
                          Unspoken, Talking, Answering
  <2> QED BY <1>k, <2>1, <2>3, <2>4 DEF Arc, Label
<1>10. CASE TurnRecorded(t)
  <2>1. Leads(ProcTask(t)) /\ pc[t] = "spoken"
    BY <1>10, RunsLeads DEF TurnRecorded
  <2>2. /\ UNCHANGED <<state, saved, then, play, utterance, idle, turnTask, inbox, over, hold, holdTask>>
        /\ \A u \in Turns \ {t} : exchange'[u] = exchange[u]
        /\ exchange'[t] # "answered"
    BY <1>10, <1>k, Kinds DEF TurnRecorded, record, plan, voice, tone, caller, patience, TypeOK, PlanOK, CallerOK
  <2>3. Treads(t, "act") /\ Served
    <3>1. Continue(t, "act")
      BY <1>10, <1>s, <2>1 DEF Sends, TurnRecorded
    <3> QED BY <1>k, <2>1, <3>1, TreadsBy
  <2> HIDE DEF Leads, Treads, Served, In, Live
  <2>4. Duty(t, "act")
    BY <1>k, <2>1, <2>2 DEF Duty, ArcPlace, ArcJoins, ArcState, ArcRecord, ArcSound, Early, Greets,
                          Unspoken, Talking, Answering
  <2> QED BY <1>k, <2>1, <2>3, <2>4 DEF Arc, Label
<1>11. CASE TurnListens(t)
  <2>1. Leads(ProcTask(t)) /\ pc[t] = "act"
    BY <1>11, RunsLeads DEF TurnListens
  <2>2. /\ UNCHANGED <<saved, then, play, utterance, idle, turnTask, exchange, inbox, over, hold, holdTask>>
        /\ state' = IF state # "ended" THEN "listening" ELSE state
    BY <1>11 DEF TurnListens, record, plan, voice, tone, caller, patience, TypeOK, PlanOK, CallerOK
  <2>3. Treads(t, "done") /\ Served
    <3>1. Return(t, <<>>)
      BY <1>11, <2>1 DEF TurnListens
    <3> QED BY <1>k, <2>1, <3>1, TreadsBy
  <2> HIDE DEF Leads, Treads, Served, In, Live
  <2>4. Duty(t, "done")
    BY <1>k, <2>1, <2>2 DEF Duty, ArcPlace, ArcJoins, ArcState, ArcRecord, ArcSound, Early, Greets,
                          Unspoken, Talking, Answering
  <2> QED BY <1>k, <2>1, <2>3, <2>4 DEF Arc, Label
<1>12. CASE TurnTransfers(t)
  <2>1. Leads(ProcTask(t)) /\ pc[t] = "act"
    BY <1>12, RunsLeads DEF TurnTransfers
  <2>2. /\ UNCHANGED <<saved, then, play, utterance, idle, turnTask, exchange, inbox, over, hold, holdTask>>
        /\ state' = "transferring"
    BY <1>12 DEF TurnTransfers, record, plan, voice, tone, caller, patience, TypeOK, PlanOK, CallerOK
  <2>3. Treads(t, "hangup") /\ Served
    <3>1. Continue(t, "hangup")
      BY <1>12, <1>s, <2>1 DEF Sends, TurnTransfers
    <3> QED BY <1>k, <2>1, <3>1, TreadsBy
  <2> HIDE DEF Leads, Treads, Served, In, Live
  <2>4. Duty(t, "hangup")
    BY <1>k, <2>1, <2>2 DEF Duty, ArcPlace, ArcJoins, ArcState, ArcRecord, ArcSound, Early, Greets,
                          Unspoken, Talking, Answering
  <2> QED BY <1>k, <2>1, <2>3, <2>4 DEF Arc, Label
<1>13. CASE TurnEndsCall(t)
  <2>1. Leads(ProcTask(t)) /\ pc[t] = "act"
    BY <1>13, RunsLeads DEF TurnEndsCall
  <2>2. /\ UNCHANGED <<state, saved, then, play, utterance, idle, turnTask, exchange, inbox, over, hold, holdTask>>
    BY <1>13 DEF TurnEndsCall, record, plan, voice, tone, caller, patience, TypeOK, PlanOK, CallerOK
  <2>3. Treads(t, "hangup") /\ Served
    <3>1. Continue(t, "hangup")
      BY <1>13, <2>1 DEF TurnEndsCall
    <3> QED BY <1>k, <2>1, <3>1, TreadsBy
  <2> HIDE DEF Leads, Treads, Served, In, Live
  <2>4. Duty(t, "hangup")
    BY <1>k, <2>1, <2>2 DEF Duty, ArcPlace, ArcJoins, ArcState, ArcRecord, ArcSound, Early, Greets,
                          Unspoken, Talking, Answering
  <2> QED BY <1>k, <2>1, <2>3, <2>4 DEF Arc, Label
<1> QED BY <1>1, <1>2, <1>3, <1>4, <1>5, <1>6, <1>7, <1>8, <1>9, <1>10, <1>11, <1>12, <1>13

\* The steps of run(), but for the one that starts the other tasks.
LEMMA RunArc ==
  ASSUME TypeOK, LoopInv, Ordinary, RunStep, ~RunStarts
  PROVE  \E p \in Proc : \E l \in Label : Arc(p, l)
<1>k. /\ "run" \in Proc /\ "run" \notin Turns /\ <<>> \in Seq(Task) /\ "run" \in Speaker
      /\ "consumer" # "run" /\ ready \in Seq(Task)
      /\ pc \in [Proc -> Label] /\ joining \in [Proc -> Task \cup {NoTask}] /\ turnTask \in Turns \cup {None}
      /\ speaking \in Speaker \cup {None}
  BY Kinds DEF TypeOK, ControlOK, CallerOK, SoundOK
<1>n. joining["run"] \in Task \cup {NoTask} /\ \A x : NoTask # ProcTask(x)
  BY <1>k, Names
<1>1. CASE RunConnects
  <2>1. Leads(ProcTask("run")) /\ pc["run"] = "start"
    BY <1>1, RunsLeads DEF RunConnects
  <2>2. /\ UNCHANGED <<state, saved, then, play, utterance, idle, turnTask, exchange, inbox, over, hold, holdTask>>
    BY <1>1 DEF RunConnects, record, plan, voice, tone, caller, patience, TypeOK, PlanOK, CallerOK
  <2>3. Treads("run", "connected") /\ Served
    <3>1. Suspend("run", "connected", NoTask, <<>>)
      BY <1>1, <2>1 DEF RunConnects
    <3> QED BY <1>k, <2>1, <3>1, TreadsBy
  <2> HIDE DEF Leads, Treads, Served, In, Live
  <2>4. Duty("run", "connected")
    BY <1>k, <2>1, <2>2 DEF Duty, ArcPlace, ArcJoins, ArcState, ArcRecord, ArcSound, Early, Greets,
                          Unspoken, Talking, Answering
  <2> QED BY <1>k, <2>1, <2>3, <2>4 DEF Arc, Label
<1>2. CASE RunGreeted
  <2>0. PICK l \in {"final", "waiting"} : Continue("run", l) \/ Suspend("run", l, NoTask, <<>>)
    BY <1>2 DEF RunGreeted
  <2>1. Leads(ProcTask("run")) /\ pc["run"] = "greeted"
    BY <1>2, RunsLeads DEF RunGreeted
  <2>2. /\ UNCHANGED <<saved, then, play, utterance, idle, turnTask, exchange, inbox, over, hold, holdTask>>
        /\ state' = IF state # "ended" THEN "listening" ELSE state
    BY <1>2 DEF RunGreeted, record, plan, voice, tone, caller, patience
  <2>3. Treads("run", l) /\ Served
    BY <1>k, <2>0, <2>1, TreadsBy
  <2> HIDE DEF Leads, Treads, Served, In, Live
  <2>4. Duty("run", l)
    BY <1>k, <2>0, <2>1, <2>2 DEF Duty, ArcPlace, ArcJoins, ArcState, ArcRecord, ArcSound, Early, Greets,
                          Unspoken, Talking, Answering
  <2> QED BY <1>k, <2>0, <2>1, <2>3, <2>4 DEF Arc, Label
<1>3. CASE RunFinal
  <2>1. Leads(ProcTask("run")) /\ pc["run"] \in {"final", "waiting"}
    BY <1>3, RunsLeads DEF RunFinal
  <2>2. UNCHANGED <<state, saved, then, play, utterance, idle, turnTask, exchange, inbox, over, hold, holdTask>>
    BY <1>3 DEF RunFinal, record, plan, voice, tone, caller, patience
  <2>3. Treads("run", "join consumer")
    BY <1>3, <1>k DEF RunFinal, Treads
  <2>4. Served
    <3> DEFINE A == Woken("watchdog")
               C == Woken("consumer")
    <3>1. A \in Seq(Task) /\ C \in Seq(Task)
      BY Kinds, CancelFacts DEF Fresh, LoopInv
    <3>2. ready' = ready \o A \o C \/ ready' = Tail(ready) \o A \o C
      BY <1>3 DEF RunFinal
    <3>3. ready \in Seq(Task) /\ Tail(ready) \in Seq(Task)
      BY <1>k, <2>1 DEF Leads
    <3> HIDE DEF A, C
    <3>4. A \o C \in Seq(Task) /\ ready \o A \o C = ready \o (A \o C)
      BY <3>1, <3>3, ConcatTasks
    <3>5. Tail(ready) \o A \o C = Tail(ready) \o (A \o C)
      BY <3>1, <3>3, ConcatTasks
    <3> QED BY <3>2, <3>4, <3>5 DEF Served
  <2>5. joining'["run"] = IF Live("watchdog") THEN ProcTask("watchdog") ELSE NoTask
    BY <1>3, <1>k DEF RunFinal
  <2> HIDE DEF Leads, Treads, Served, In, Live
  <2>6. Duty("run", "join consumer")
    BY <1>k, <1>n, <2>1, <2>2, <2>5 DEF Duty, ArcPlace, ArcJoins, ArcState, ArcRecord, ArcSound, Early, Greets,
                          Unspoken, Talking, Answering
  <2> QED BY <1>k, <2>1, <2>3, <2>4, <2>6 DEF Arc, Label
<1>4. CASE RunJoinsConsumer
  <2>0. \/ Continue("run", "stop hold") /\ ~Live("consumer")
        \/ Suspend("run", "stop hold", ProcTask("consumer"), <<>>)
    BY <1>4 DEF RunJoinsConsumer
  <2>1. Leads(ProcTask("run")) /\ pc["run"] = "join consumer"
    BY <1>4, RunsLeads DEF RunJoinsConsumer
  <2>2. UNCHANGED <<state, saved, then, play, utterance, idle, turnTask, exchange, inbox, over, hold, holdTask>>
    BY <1>4 DEF RunJoinsConsumer, record, plan, voice, tone, caller, patience
  <2>3. Treads("run", "stop hold") /\ Served
    BY <1>k, <2>0, <2>1, TreadsBy
  <2>5. joining'["run"] = ProcTask("consumer") \/ ~Live("consumer")
    BY <2>0, <1>k DEF Suspend
  <2> HIDE DEF Leads, Treads, Served, In, Live
  <2>6. Duty("run", "stop hold")
    BY <1>k, <1>n, <2>1, <2>2, <2>5 DEF Duty, ArcPlace, ArcJoins, ArcState, ArcRecord, ArcSound, Early, Greets,
                          Unspoken, Talking, Answering
  <2> QED BY <1>k, <2>1, <2>3, <2>6 DEF Arc, Label
<1>5. CASE FinishHold
  <2>1. Leads(ProcTask("run")) /\ pc["run"] = "stop hold"
    BY <1>5, RunsLeads DEF FinishHold
  <2>2. /\ UNCHANGED <<state, saved, then, play, utterance, idle, turnTask, exchange, inbox, over>>
        /\ holdTask' = None
        /\ \/ (\A u \in Turns : u = holdTask => hold[u] = "over") /\ hold' = hold
           \/ /\ holdTask # None /\ joining'["run"] = HoldTask(holdTask)
              /\ hold' = [hold EXCEPT ![holdTask] = "stopping"]
    BY <1>5, <1>k, HoldDropped DEF FinishHold, record, plan, voice, tone, caller, patience, TypeOK, PlanOK, CallerOK
  <2>3. Treads("run", "stop playback") /\ Served
    <3>1. StopHold("run", "stop playback")
      BY <1>5, <2>1 DEF FinishHold
    <3> QED BY <1>k, <2>1, <3>1, TreadsBy
  <2> HIDE DEF Leads, Treads, Served, In, Live
  <2>4. Duty("run", "stop playback")
    BY <1>k, <2>1, <2>2 DEF Duty, ArcPlace, ArcJoins, ArcState, ArcRecord, ArcSound, Early, Greets,
                          Unspoken, Talking, Answering
  <2> QED BY <1>k, <2>1, <2>3, <2>4 DEF Arc, Label
<1>6. CASE FinishPlayback
  <2>1. Leads(ProcTask("run")) /\ pc["run"] = "stop playback"
    BY <1>6, RunsLeads DEF FinishPlayback
  <2>2. /\ UNCHANGED <<state, saved, then, utterance, idle, turnTask, exchange, inbox, over, hold, holdTask>>
        /\ \A s \in Speaker : play'[s] \in {"new", "playing"} => play[s] \in {"new", "playing"}
    BY <1>6, <1>k, PlaybackCut DEF FinishPlayback, record, plan, voice, tone, caller, patience, TypeOK, PlanOK, CallerOK
  <2>3. Treads("run", "stop turn") /\ Served
    <3>1. CancelPlayback("run", "stop turn")
      BY <1>6, <2>1 DEF FinishPlayback
    <3> QED BY <1>k, <2>1, <3>1, TreadsBy
  <2> HIDE DEF Leads, Treads, Served, In, Live
  <2>4. Duty("run", "stop turn")
    BY <1>k, <2>1, <2>2 DEF Duty, ArcPlace, ArcJoins, ArcState, ArcRecord, ArcSound, Early, Greets,
                          Unspoken, Talking, Answering
  <2> QED BY <1>k, <2>1, <2>3, <2>4 DEF Arc, Label
<1>7. CASE FinishTurn
  <2>1. Leads(ProcTask("run")) /\ pc["run"] = "stop turn"
    BY <1>7, RunsLeads DEF FinishTurn
  <2>2. UNCHANGED <<state, saved, then, play, utterance, idle, turnTask, exchange, inbox, over, hold, holdTask>>
    BY <1>7 DEF FinishTurn, record, plan, voice, tone, caller, patience
  <2>3. /\ Treads("run", "settle") /\ Served
        /\ \A t \in Turns : t = turnTask /\ Live(t) => joining'["run"] = ProcTask(t)
    <3>1. CASE turnTask # None /\ Live(turnTask)
      <4>1. Treads("run", "settle") /\ joining'["run"] = ProcTask(turnTask)
        BY <1>7, <1>k, <3>1 DEF FinishTurn, Treads
      <4>2. PICK c : c = turnTask
        OBVIOUS
      <4>3. c \in Proc
        BY <4>2, <1>k, <3>1, Kinds
      <4>4. Woken(c) \in Seq(Task)
        BY <4>3, CancelFacts DEF Fresh, LoopInv
      <4>5. ready' = Tail(ready) \o Woken(c)
        BY <1>7, <3>1, <4>2 DEF FinishTurn
      <4> QED BY <4>1, <4>4, <4>5 DEF Served
    <3>2. CASE ~(turnTask # None /\ Live(turnTask))
      <4>1. Continue("run", "settle")
        BY <1>7, <3>2 DEF FinishTurn
      <4>2. Treads("run", "settle") /\ Served
        BY <1>k, <2>1, <4>1, TreadsBy
      <4> QED BY <3>2, <4>2, Kinds DEF None
    <3> QED BY <3>1, <3>2
  <2> HIDE DEF Leads, Treads, Served, In, Live
  <2>4. Duty("run", "settle")
    BY <1>k, <2>1, <2>2, <2>3 DEF Duty, ArcPlace, ArcJoins, ArcState, ArcRecord, ArcSound, Early, Greets,
                          Unspoken, Talking, Answering
  <2> QED BY <1>k, <2>1, <2>3, <2>4 DEF Arc, Label
<1>8. CASE FinishSettles
  <2>1. Leads(ProcTask("run")) /\ pc["run"] = "settle"
    BY <1>8, RunsLeads DEF FinishSettles
  <2>2. /\ UNCHANGED <<state, saved, then, play, utterance, idle, turnTask, exchange, inbox, over, hold, holdTask>>
    BY <1>8 DEF FinishSettles, record, plan, voice, tone, caller, patience, TypeOK, PlanOK, CallerOK
  <2>3. Treads("run", "summarised") /\ Served
    <3>1. Suspend("run", "summarised", NoTask, <<>>) \/ Continue("run", "summarised")
      BY <1>8, <2>1 DEF FinishSettles
    <3> QED BY <1>k, <2>1, <3>1, TreadsBy
  <2> HIDE DEF Leads, Treads, Served, In, Live
  <2>4. Duty("run", "summarised")
    BY <1>k, <2>1, <2>2 DEF Duty, ArcPlace, ArcJoins, ArcState, ArcRecord, ArcSound, Early, Greets,
                          Unspoken, Talking, Answering
  <2> QED BY <1>k, <2>1, <2>3, <2>4 DEF Arc, Label
<1>9. CASE FinishDisposes
  <2>1. Leads(ProcTask("run")) /\ pc["run"] = "summarised"
    BY <1>9, RunsLeads DEF FinishDisposes
  <2>2. /\ UNCHANGED <<state, saved, then, play, utterance, idle, turnTask, exchange, inbox, over, hold, holdTask>>
    BY <1>9 DEF FinishDisposes, record, plan, voice, tone, caller, patience, TypeOK, PlanOK, CallerOK
  <2>3. Treads("run", "commit") /\ Served
    <3>1. Suspend("run", "commit", NoTask, <<>>)
      BY <1>9, <2>1 DEF FinishDisposes
    <3> QED BY <1>k, <2>1, <3>1, TreadsBy
  <2> HIDE DEF Leads, Treads, Served, In, Live
  <2>4. Duty("run", "commit")
    BY <1>k, <2>1, <2>2 DEF Duty, ArcPlace, ArcJoins, ArcState, ArcRecord, ArcSound, Early, Greets,
                          Unspoken, Talking, Answering
  <2> QED BY <1>k, <2>1, <2>3, <2>4 DEF Arc, Label
<1>10. CASE FinishCommits
  <2>1. Leads(ProcTask("run")) /\ pc["run"] = "commit"
    BY <1>10, RunsLeads DEF FinishCommits
  <2>2. /\ UNCHANGED <<state, then, play, utterance, idle, turnTask, exchange, inbox, over, hold, holdTask>>
        /\ saved' # {}
    BY <1>10 DEF FinishCommits, record, plan, voice, tone, caller, patience, TypeOK, PlanOK, CallerOK
  <2>3. Treads("run", "done") /\ Served
    <3>1. Return("run", <<>>)
      BY <1>10, <2>1 DEF FinishCommits
    <3> QED BY <1>k, <2>1, <3>1, TreadsBy
  <2> HIDE DEF Leads, Treads, Served, In, Live
  <2>4. Duty("run", "done")
    BY <1>k, <2>1, <2>2 DEF Duty, ArcPlace, ArcJoins, ArcState, ArcRecord, ArcSound, Early, Greets,
                          Unspoken, Talking, Answering
  <2> QED BY <1>k, <2>1, <2>3, <2>4 DEF Arc, Label
<1> QED BY <1>1, <1>2, <1>3, <1>4, <1>5, <1>6, <1>7, <1>8, <1>9, <1>10 DEF RunStep

\* A cancellation that is let through ends the task, or sends run() to its finish.
LEMMA RaiseArc ==
  ASSUME TypeOK, LoopInv, Ordinary, NEW p \in Proc, Raise(p)
  PROVE  \E l \in Label : Arc(p, l)
<1>k. /\ <<>> \in Seq(Task) /\ WakeRun \in Seq(Task)
      /\ p \in {"run", "consumer", "watchdog"} \/ p \in Turns \/ p \in Hanger
      /\ Turns \cap {"run", "consumer", "watchdog"} = {} /\ Hanger \cap (Turns \cup {"run", "consumer", "watchdog"}) = {}
      /\ Turns \cup {"run", "watchdog"} = Speaker /\ Turns \subseteq Speaker
  BY Kinds, WakeTypes DEF Speaker
<1>1. Leads(ProcTask(p)) /\ p \in cancelled /\ pc[p] \notin Suppressing
  BY DEF Raise, Leads
<1>2. Live(p) /\ ~PassesBy(p, pc[p])
  BY <1>1, LeadsLives DEF LoopInv, QueueInv, InPlace
<1>3. UNCHANGED <<state, saved, then, play, utterance, idle, turnTask, exchange, inbox, over, hold, holdTask>>
  BY DEF Raise, plan, voice, tone, caller, patience
<1>4. /\ p = "run" => pc[p] \in {"start", "connected", "waiting", "summarised", "commit"}
      /\ p \in Turns => pc[p] \in {"start", "stt", "respond"}
      /\ ~Talking(p) /\ pc[p] # "sentinel" /\ pc[p] \notin {"idle", "done"}
  <2>1. Roles
    BY DEF LoopInv, RoleInv
  <2> QED BY <1>1, <1>2, <2>1, <1>k DEF Roles, Suppressing, PassesBy, Passing, Live, Talking, Unspoken
<1>5. PICK l \in {"final", "done"} :
        /\ (l = "final" /\ Continue(p, l)) \/ (l = "done" /\ \E q \in Seq(Task) : Return(p, q))
        /\ l = "final" => p = "run"
        /\ p = "run" /\ l = "done" => pc[p] \in {"connected", "summarised", "commit"}
  <2>1. CASE p = "run" /\ pc[p] \notin {"connected", "summarised", "commit"}
    <3>1. Continue(p, "final")
      BY <2>1 DEF Raise
    <3> QED BY <2>1, <3>1
  <2>2. CASE ~(p = "run" /\ pc[p] \notin {"connected", "summarised", "commit"})
    <3>1. Return(p, IF p = "consumer" THEN WakeRun ELSE <<>>)
      BY <2>2 DEF Raise
    <3>2. \E q \in Seq(Task) : Return(p, q)
      BY <3>1, <1>k
    <3> QED BY <2>2, <3>2
  <2> QED BY <2>1, <2>2
<1>6. Treads(p, l) /\ Served
  BY <1>1, <1>5, TreadsBy
<1> HIDE DEF Leads, Treads, Served, In, Live, PassesBy, Raise
<1>7. Duty(p, l)
  BY <1>k, <1>1, <1>3, <1>4, <1>5 DEF Duty, ArcPlace, ArcJoins, ArcState, ArcRecord, ArcSound, Early, Greets,
                          Unspoken, Talking, Answering
<1> QED BY <1>1, <1>5, <1>6, <1>7 DEF Arc, Label

\* A step of the world or of a sound: no task moves, but for one that is asked to hang up
\* or is let go by the transport.
Rests ==
  /\ \A w \in Proc : \/ pc'[w] = pc[w]
                     \/ w \in Hanger /\ pc[w] \in {"idle", "bounded"} /\ pc'[w] \in {"hangup", "expired"}
  /\ UNCHANGED <<state, saved, then, turnTask, exchange, over, holdTask>>
  /\ \E q \in Seq(Task) :
       \/ ready' = ready \o q
       \/ ready # <<>> /\ (\A w : Head(ready) # ProcTask(w)) /\ ready' = Tail(ready) \o q
  /\ \A w \in Proc : \/ joining'[w] = joining[w]
                     \/ \E s \in Speaker : joining[w] = PlayTask(s)
                     \/ \E t \in Turns : joining[w] = HoldTask(t) /\ hold'[t] = "over"
  /\ \A t \in Turns : hold'[t] = hold[t] \/ (hold[t] = "stopping" /\ hold'[t] = "over")
  /\ \A s \in Speaker : play'[s] \in {"new", "playing"} => play[s] \in {"new", "playing"}
  /\ In("end", inbox) => In("end", inbox')
  /\ utterance' = utterance \/ (utterance = "onset" /\ utterance' = "speech" /\ ready = <<>>)
  /\ idle' = idle \/ ready = <<>>

\* The steps of the world and of the sounds are such.
LEMMA RestsBy ==
  ASSUME TypeOK, LoopInv, Ordinary,
         \/ Environment
         \/ \E s \in Speaker : PlayStarts(s) \/ PlayCancelled(s)
         \/ \E t \in Turns : HoldStops(t)
  PROVE  Rests
<1>t. /\ pc \in [Proc -> Label] /\ joining \in [Proc -> Task \cup {NoTask}] /\ ready \in Seq(Task)
      /\ play \in [Speaker -> {"new", "playing", "stopping", "stillborn", "over"}]
      /\ hold \in [Turns -> {"on", "stopping", "over"}] /\ inbox \in Seq({"frame", "end"})
      /\ <<>> \in Seq(Task) /\ Hanger \subseteq Proc /\ Turns \subseteq Proc /\ Speaker \subseteq Proc
      /\ {"run", "consumer", "watchdog"} \subseteq Proc
  BY Kinds DEF TypeOK, ControlOK, SoundOK, CallerOK
<1>f. /\ ready' = ready => \E q \in Seq(Task) : ready' = ready \o q
      /\ \A p \in Proc : ready' = Append(ready, ProcTask(p)) => \E q \in Seq(Task) : ready' = ready \o q
      /\ ready' = Tail(ready) /\ ready # <<>> => \E q \in Seq(Task) : ready' = Tail(ready) \o q
  <2>1. ready \o <<>> = ready /\ (ready # <<>> => Tail(ready) \o <<>> = Tail(ready))
    BY <1>t
  <2>2. \A p \in Proc : Append(ready, ProcTask(p)) = ready \o <<ProcTask(p)>> /\ <<ProcTask(p)>> \in Seq(Task)
    BY <1>t, AppendIsConcat, TaskNames
  <2> QED BY <1>t, <2>1, <2>2
<1>w. /\ WakeConsumer \in Seq(Task) /\ \A s \in Speaker : WakeSpeaker(s) \in Seq(Task)
      /\ \A p \in Proc : Woken(p) \in Seq(Task)
  BY WakeTypes, CancelFacts DEF Fresh, LoopInv
<1>n. \A s, w : PlayTask(s) # ProcTask(w) /\ HoldTask(s) # ProcTask(w)
  BY Names
<1>o. ASSUME NEW x, NEW q \in Seq(Task), TaskOver(x, q), ready # <<>>
      PROVE  \E r \in Seq(Task) : ready' = Tail(ready) \o r
  <2>1. PICK w \in Orders(Joiners(x)) : ready' = Tail(ready) \o q \o w
    BY <1>o DEF TaskOver
  <2>2. w \in Seq(Task)
    BY <2>1, OrdersFacts DEF Joiners
  <2>3. q \o w \in Seq(Task) /\ ready' = Tail(ready) \o (q \o w)
    <3>1. Tail(ready) \in Seq(Task)
      BY <1>o, <1>t
    <3> QED BY <2>1, <2>2, <3>1, ConcatTasks
  <2> QED BY <2>3
<1>1. ASSUME NEW s \in Speaker, PlayStarts(s)
      PROVE  Rests
  <2>1. /\ ready # <<>> /\ (\A w : Head(ready) # ProcTask(w)) /\ play[s] = "new"
        /\ play' = [play EXCEPT ![s] = "playing"] /\ ready' = Tail(ready)
        /\ UNCHANGED <<state, saved, pc, then, joining, turnTask, exchange, over, hold, holdTask, inbox,
                       utterance, idle>>
    BY <1>1, <1>n DEF PlayStarts, record, plan, tone, caller, patience
  <2>2. \E q \in Seq(Task) : ready' = Tail(ready) \o q
    BY <1>f, <2>1
  <2> QED BY <1>t, <2>1, <2>2 DEF Rests
<1>2. ASSUME NEW s \in Speaker, PlayCancelled(s)
      PROVE  Rests
  <2>1. /\ ready # <<>> /\ (\A w : Head(ready) # ProcTask(w))
        /\ play' = [play EXCEPT ![s] = "over"]
        /\ UNCHANGED <<state, saved, pc, then, turnTask, exchange, over, hold, holdTask, inbox,
                       utterance, idle>>
    BY <1>2, <1>n DEF PlayCancelled, record, plan, tone, caller, patience
  <2>2. PICK q \in Seq(Task) : TaskOver(PlayTask(s), q)
    BY <1>2, <1>t, <1>w DEF PlayCancelled
  <2>3. \E r \in Seq(Task) : ready' = Tail(ready) \o r
    BY <1>o, <2>1, <2>2
  <2>4. \A w \in Proc : joining'[w] = joining[w] \/ joining[w] = PlayTask(s)
    BY <2>2, <1>t DEF TaskOver
  <2> HIDE DEF PlayTask, ProcTask, HoldTask
  <2> QED BY <1>t, <2>1, <2>3, <2>4 DEF Rests
<1>3. ASSUME NEW t \in Turns, HoldStops(t)
      PROVE  Rests
  <2>1. /\ ready # <<>> /\ (\A w : Head(ready) # ProcTask(w))
        /\ hold' = [hold EXCEPT ![t] = "over"] /\ hold[t] = "stopping"
        /\ UNCHANGED <<state, saved, pc, then, turnTask, exchange, over, play, holdTask, inbox,
                       utterance, idle>>
    <3>1. Here(HoldTask(t))
      BY <1>3, <1>t DEF HoldStops, Here, In
    <3>2. hold[t] = "stopping"
      BY <3>1 DEF LoopInv, QueueInv
    <3> QED BY <1>3, <1>n, <3>2 DEF HoldStops, record, plan, voice, caller, patience
  <2>2. TaskOver(HoldTask(t), <<>>)
    BY <1>3 DEF HoldStops
  <2>3. \E r \in Seq(Task) : ready' = Tail(ready) \o r
    BY <1>o, <1>t, <2>1, <2>2
  <2>4. \A w \in Proc : joining'[w] = joining[w] \/ joining[w] = HoldTask(t)
    BY <2>2, <1>t DEF TaskOver
  <2> HIDE DEF PlayTask, ProcTask, HoldTask
  <2> QED BY <1>t, <2>1, <2>3, <2>4 DEF Rests
<1>4. ASSUME NEW s \in Speaker, ChunkSent(s) \/ PlayEnds(s)
      PROVE  Rests
  <2>1. /\ \A w \in Speaker : play'[w] \in {play[w], "over"}
        /\ UNCHANGED <<state, saved, pc, then, joining, turnTask, exchange, over, hold, holdTask, inbox,
                       utterance, idle>>
    BY <1>4, <1>t DEF ChunkSent, PlayEnds, record, plan, tone, caller, patience, loop
  <2>2. \E q \in Seq(Task) : ready' = ready \o q
    BY <1>4, <1>f, <1>w DEF ChunkSent, PlayEnds, loop
  <2> QED BY <1>t, <2>1, <2>2 DEF Rests
<1>5. CASE FrameArrives
  <2>1. /\ inbox' = Append(inbox, "frame")
        /\ UNCHANGED <<state, saved, pc, then, joining, turnTask, exchange, over, hold, holdTask, play,
                       utterance, idle>>
    BY <1>5 DEF FrameArrives, record, plan, tone, voice, patience
  <2>2. \E q \in Seq(Task) : ready' = ready \o q
    BY <1>5, <1>w DEF FrameArrives
  <2>3. In("end", inbox) => In("end", inbox')
    BY <2>1, <1>t DEF In
  <2> HIDE DEF In
  <2> QED BY <1>t, <2>1, <2>2, <2>3 DEF Rests
<1>6. CASE UtteranceGoesOn \/ SilenceGrows
  <2>1. /\ UNCHANGED <<state, saved, pc, then, joining, turnTask, exchange, over, hold, holdTask, play,
                       inbox, ready>>
        /\ ready = <<>>
        /\ utterance' = utterance \/ (utterance = "onset" /\ utterance' = "speech")
    BY <1>6, InRealTime DEF UtteranceGoesOn, SilenceGrows, record, plan, tone, voice, loop
  <2>2. \E q \in Seq(Task) : ready' = ready \o q
    BY <1>f, <2>1
  <2> QED BY <1>t, <2>1, <2>2 DEF Rests
<1>7. ASSUME NEW p \in Proc, Wakes(p),
             \A w \in Proc : pc'[w] = pc[w] \/ (w \in Hanger /\ pc[w] = "idle" /\ pc'[w] = "hangup"),
             UNCHANGED <<state, saved, then, turnTask, exchange, over, hold, holdTask, play,
                         inbox, utterance, idle>>
      PROVE  Rests
  <2>1. \E q \in Seq(Task) : ready' = ready \o q
    BY <1>7, <1>f DEF Wakes
  <2> QED BY <1>t, <1>7, <2>1 DEF Rests, Wakes
<1>8. CASE Tick
  <2>1. Wakes("watchdog")
    BY <1>8 DEF Tick
  <2>2. UNCHANGED <<state, saved, pc, then, turnTask, exchange, over, hold, holdTask, play,
                         inbox, utterance, idle>>
    BY <1>8 DEF Tick, record, plan, tone, voice, caller, patience
  <2> QED BY <1>t, <1>7, <2>1, <2>2
<1>9. ASSUME NEW p \in Proc, ServiceAnswers(p) \/ SendGoesThrough(p)
      PROVE  Rests
  <2>1. Wakes(p)
    BY <1>9 DEF ServiceAnswers, SendGoesThrough
  <2>2. UNCHANGED <<state, saved, pc, then, turnTask, exchange, over, hold, holdTask, play,
                         inbox, utterance, idle>>
    BY <1>9 DEF ServiceAnswers, SendGoesThrough, record, plan, tone, voice, caller, patience
  <2> QED BY <1>t, <1>7, <2>1, <2>2
<1>10. ASSUME NEW h \in Hanger, HangupRequested(h)
       PROVE  Rests
  <2>1. Wakes(h) /\ pc[h] = "idle" /\ pc' = [pc EXCEPT ![h] = "hangup"]
    BY <1>10 DEF HangupRequested
  <2>2. UNCHANGED <<state, saved, then, turnTask, exchange, over, hold, holdTask, play,
                         inbox, utterance, idle>>
    BY <1>10 DEF HangupRequested, record, plan, tone, voice, caller, patience
  <2>3. \A w \in Proc : pc'[w] = pc[w] \/ (w \in Hanger /\ pc[w] = "idle" /\ pc'[w] = "hangup")
    BY <1>t, <2>1
  <2> QED BY <1>t, <1>7, <2>1, <2>2, <2>3
<1>11. CASE SessionBoundExpires
  <2>1. /\ "reader" \in Hanger /\ pc["reader"] = "bounded" /\ pc' = [pc EXCEPT !["reader"] = "expired"]
        /\ ready = <<>> /\ ready' = Woken("run")
        /\ UNCHANGED <<state, saved, then, joining, turnTask, exchange, over, hold, holdTask, play,
                         inbox, utterance, idle>>
    BY <1>11 DEF SessionBoundExpires, record, plan, tone, voice, caller, patience
  <2>2. \E q \in Seq(Task) : ready' = ready \o q
    <3>1. PICK q \in Seq(Task) : q = Woken("run")
      BY <1>t, <1>w
    <3>2. ready \o q = q
      BY <2>1, <3>1
    <3> QED BY <2>1, <3>1, <3>2
  <2>3. \A w \in Proc : \/ pc'[w] = pc[w]
                        \/ w \in Hanger /\ pc[w] = "bounded" /\ pc'[w] = "expired"
    BY <1>t, <2>1
  <2> QED BY <1>t, <2>1, <2>2, <2>3 DEF Rests
<1> QED BY <1>1, <1>2, <1>3, <1>4, <1>5, <1>6, <1>8, <1>9, <1>10, <1>11 DEF Environment

\* Every step is one of these.
LEMMA EveryArc ==
  ASSUME TypeOK, LoopInv, Ordinary, Next
  PROVE  \/ \E p \in Proc : \E l \in Label : Arc(p, l)
         \/ Rests
         \/ RunStarts
         \/ \E t \in Turns : TurnOpens(t)
<1>1. SpeakStep => \/ \E p \in Proc : \E l \in Label : Arc(p, l)
                   \/ \E s \in Speaker : PlayStarts(s) \/ PlayCancelled(s)
  BY SpeakArc DEF SpeakStep
<1>2. \/ HangupStep \/ WatchdogStep \/ TurnStep
      \/ RunStep /\ ~RunStarts
      \/ ConsumerStep /\ (\A t \in Turns : ~TurnOpens(t))
      \/ \E p \in Proc : Raise(p)
      => \E p \in Proc : \E l \in Label : Arc(p, l)
  BY HangupArc, WatchdogArc, TurnArc, RunArc, ConsumerArc, RaiseArc
<1> HIDE DEF Arc, Rests
<1> QED BY <1>1, <1>2, RestsBy DEF Next, LoopStep

-----------------------------------------------------------------------------
(* The course of a call, its finish, its answers, its tone and its ending. *)
\* Once the call is over, the end of the stream waits for the consumer.
EndIn == over /\ pc["consumer"] # "done" => In("end", inbox)

\* Before the consumer runs nothing is heard.
Unheard == pc["consumer"] = "idle" => utterance = "idle"

\* Once the call has ended no turn opens.
Deaf == Ended /\ pc["consumer"] # "done" /\ utterance = "speech" => state # "listening"

\* Only a turn about to hang up is transferring.
Leaving == state = "transferring" => \E t \in Turns : pc[t] = "hangup"

\* The course of a call, open or ending.
CourseInv == EndIn /\ OneTurn /\ Spoke /\ Unsaid /\ Unheard /\ Deaf /\ Leaving

\* No move of a task leaves the course.
LEMMA CourseArc ==
  ASSUME TypeOK, LoopInv, CourseInv, NEW p \in Proc, NEW l \in Label, Arc(p, l)
  PROVE  CourseInv'
<1>k. /\ Turns \subseteq Proc /\ Speaker \subseteq Proc /\ {"run", "consumer", "watchdog"} \subseteq Proc
      /\ Turns \cap {"run", "consumer", "watchdog"} = {}
  BY Kinds
<1>1. pc'[p] = l /\ \A w \in Proc \ {p} : pc'[w] = pc[w]
  BY DEF Arc, Treads
<1>2. ArcPlace(p, l) /\ ArcState(p, l)
  BY DEF Arc, Duty
<1>3. \A t \in Turns : (Live(t))' => Live(t)
  BY <1>k, <1>1, <1>2 DEF ArcPlace, Live
<1>4. /\ pc'["run"] \in Early \cup Greets => pc["run"] \in Early \cup Greets
      /\ pc'["consumer"] # "done" => pc["consumer"] # "done"
  BY <1>k, <1>1, <1>2 DEF ArcPlace
<1>5. Ended' => Ended \/ state' = "ended"
  BY <1>1, <1>2 DEF ArcPlace, ArcState, Ended
<1>6. EndIn'
  <2> HIDE DEF In
  <2> QED BY <1>k, <1>1, <1>2, <1>4 DEF CourseInv, EndIn, ArcState
<1>7. OneTurn'
  <2> HIDE DEF Live
  <2> QED BY <1>2, <1>3 DEF CourseInv, OneTurn, ArcState
<1>8. Spoke'
  <2> SUFFICES ASSUME state' = "speaking" PROVE \E s \in Speaker : (Talking(s))'
    BY DEF Spoke
  <2>1. CASE state # "speaking"
    <3>1. p \in Speaker /\ l = "announced"
      BY <2>1, <1>2 DEF ArcState
    <3> QED BY <3>1, <1>1 DEF Talking
  <2>2. CASE state = "speaking"
    <3>1. PICK s \in Speaker : Talking(s)
      BY <2>2 DEF CourseInv, Spoke
    <3>2. s = p => l = "speaking"
      BY <3>1, <1>2 DEF ArcState, ArcPlace, Talking
    <3>3. (Talking(s))'
      BY <1>k, <1>1, <3>1, <3>2 DEF Talking
    <3> QED BY <3>3
  <2> QED BY <2>1, <2>2
<1>9. (\E t \in Turns : (Live(t))') \/ pc'["run"] \in Early \cup Greets =>
        (pc'["consumer"] # "done" => utterance # "speech")
  <2> HIDE DEF Live
  <2> QED BY <1>3, <1>4 DEF CourseInv, Unsaid
<1>10. Unsaid'
  <2> HIDE DEF Live
  <2> QED BY <1>2, <1>9 DEF Unsaid, ArcState
<1>11. Unheard'
  BY <1>k, <1>1, <1>2 DEF CourseInv, Unheard, ArcState, ArcPlace
<1>12. Deaf'
  <2> SUFFICES ASSUME Ended', pc'["consumer"] # "done", utterance' = "speech", state' = "listening"
               PROVE  FALSE
    BY DEF Deaf
  <2>1. Ended /\ utterance = "speech" /\ pc["consumer"] # "done"
    BY <1>2, <1>4, <1>5 DEF ArcState
  <2>2. state # "listening"
    BY <2>1 DEF CourseInv, Deaf
  <2>3. (p = "run" /\ pc[p] = "greeted") \/ (p \in Turns /\ Live(p))
    BY <2>2, <1>2 DEF ArcState, Live
  <2>4. utterance # "speech"
    BY <2>1, <2>3 DEF CourseInv, Unsaid, Greets
  <2> QED BY <2>1, <2>4
<1>13. Leaving'
  <2> SUFFICES ASSUME state' = "transferring" PROVE \E t \in Turns : pc'[t] = "hangup"
    BY DEF Leaving
  <2>1. CASE state # "transferring"
    <3>1. p \in Turns /\ l = "hangup"
      BY <2>1, <1>2 DEF ArcState
    <3> QED BY <3>1, <1>1
  <2>2. CASE state = "transferring"
    <3>1. PICK t \in Turns : pc[t] = "hangup"
      BY <2>2 DEF CourseInv, Leaving
    <3>2. Leads(ProcTask(t)) /\ t \notin cancelled
      BY <3>1, <1>k DEF LoopInv, QueueInv, InPlace, PassesBy
    <3>3. t = p
      BY <3>2, Names DEF Arc, Leads
    <3>4. FALSE
      BY <3>1, <3>2, <3>3, <1>2 DEF ArcState, ArcPlace
    <3> QED BY <3>4
  <2> QED BY <2>1, <2>2
<1> QED BY <1>6, <1>7, <1>8, <1>10, <1>11, <1>12, <1>13 DEF CourseInv

\* An utterance is complete only while nobody else has the floor.
LEMMA SpeechOpens ==
  ASSUME TypeOK, LoopInv, OpenInv, CourseInv, ready = <<>>, utterance = "onset"
  PROVE  \/ pc["consumer"] = "done"
         \/ ~Ended /\ (\A t \in Turns : ~Live(t)) /\ pc["run"] \notin Early \cup Greets
<1>k. /\ Turns \subseteq Proc /\ Speaker \subseteq Proc /\ {"run", "consumer", "watchdog"} \subseteq Proc
      /\ Turns \cap {"run", "consumer", "watchdog"} = {} /\ Turns \subseteq Speaker /\ "run" \in Speaker
  BY Kinds
<1>1. /\ \A x : ~Here(x) /\ ~Leads(x)
      /\ \A p \in Proc : ~PassesBy(p, pc[p])
      /\ ~Cuts
  BY StillLoop
<1>i. \A p \in Proc : InPlace(p)
  BY DEF LoopInv, QueueInv
<1>2. CASE Ended /\ over
  <2>1. ASSUME pc["consumer"] # "done" PROVE FALSE
    <3>1. In("end", inbox)
      BY <1>2, <2>1 DEF CourseInv, EndIn
    <3>2. inbox # <<>>
      BY <3>1 DEF In
    <3>3. pc["consumer"] \in {"loop", "get"}
      BY <1>1, <2>1 DEF LoopInv, RoleInv, Roles, Cuts, CourseInv, Unheard
    <3>4. pc["consumer"] = "loop"
      BY <1>1, <3>2, <3>3 DEF LoopInv, QueueInv
    <3>5. joining["consumer"] # NoTask
      BY <1>1, <1>i, <1>k, <3>4 DEF InPlace, Runnable
    <3>6. MayAwait("consumer", "loop", joining["consumer"])
      BY <1>i, <1>k, <3>4, <3>5 DEF InPlace
    <3> QED BY <3>6 DEF MayAwait, OnPlay, OnHold
  <2> QED BY <2>1
<1>3. CASE Ended /\ ~over
  <2>1. PICK p \in Proc : pc[p] = "sentinel"
    BY <1>3 DEF Ended
  <2>2. joining[p] # NoTask
    BY <1>1, <1>i, <2>1 DEF InPlace, Runnable, OnPlay
  <2>3. MayAwait(p, "sentinel", joining[p]) /\ Alive(joining[p])
    BY <1>i, <2>1, <2>2 DEF InPlace
  <2>4. PICK s \in Speaker : joining[p] = PlayTask(s)
    BY <2>3 DEF MayAwait, OnHold
  <2>5. play[s] \in Pending
    BY <2>3, <2>4, Names DEF Alive, Pending
  <2>6. Here(PlayTask(s))
    BY <2>5 DEF LoopInv, QueueInv
  <2> QED BY <1>1, <2>6
<1>4. CASE ~Ended
  <2>o. OpenNow
    BY <1>4 DEF OpenInv
  <2>1. ASSUME NEW t \in Turns, Live(t) PROVE FALSE
    <3>1. pc[t] \notin Unspoken
      BY <2>o DEF OpenNow, Floor
    <3>2. ~Talking(t)
      BY <2>o, <1>1, <1>k DEF OpenNow, OnAir
    <3>3. pc[t] # "sentinel"
      BY <1>4, <1>k DEF Ended
    <3>4. pc[t] \in {"spoken", "act", "hangup", "hung up"}
      BY <2>1, <3>1, <3>2, <3>3 DEF LoopInv, RoleInv, Roles, Live, Talking
    <3> QED BY <1>1, <1>k, <3>4 DEF PassesBy, Passing
  <2>2. pc["run"] \notin Early \cup Greets
    <3>1. ~(pc["run"] \in Early \/ Begins("run"))
      BY <2>o DEF OpenNow, Floor
    <3>2. ~Talking("run")
      BY <2>o, <1>1, <1>k DEF OpenNow, OnAir
    <3>3. pc["run"] # "greeted"
      BY <1>1, <1>k DEF PassesBy, Passing
    <3> QED BY <3>1, <3>2, <3>3 DEF Greets, Begins, Talking
  <2> QED BY <1>4, <2>1, <2>2
<1> QED BY <1>2, <1>3, <1>4

\* No step of the world or of a sound leaves the course.
LEMMA CourseRests ==
  ASSUME TypeOK, LoopInv, OpenInv, CourseInv, Rests
  PROVE  CourseInv'
<1>k. /\ Turns \subseteq Proc /\ Speaker \subseteq Proc /\ {"run", "consumer", "watchdog"} \subseteq Proc
      /\ Turns \cap Hanger = {} /\ Speaker \cap Hanger = {} /\ {"run", "consumer", "watchdog"} \cap Hanger = {}
  BY Kinds DEF Speaker
<1>1. /\ \A w \in Proc \ Hanger : pc'[w] = pc[w]
      /\ \A w \in Proc : pc'[w] = "sentinel" => pc[w] = "sentinel"
      /\ state' = state /\ turnTask' = turnTask /\ over' = over
      /\ In("end", inbox) => In("end", inbox')
      /\ utterance' = utterance \/ (utterance = "onset" /\ utterance' = "speech" /\ ready = <<>>)
  BY DEF Rests
<1>2. /\ \A t \in Turns : pc'[t] = pc[t] /\ ((Live(t))' <=> Live(t))
      /\ \A s \in Speaker : (Talking(s))' <=> Talking(s)
      /\ pc'["run"] = pc["run"] /\ pc'["consumer"] = pc["consumer"]
      /\ Ended' => Ended
  BY <1>k, <1>1 DEF Live, Talking, Ended
<1> HIDE DEF In, Live, Talking, Ended, Rests
<1>3. EndIn' /\ OneTurn' /\ Spoke' /\ Leaving'
  BY <1>1, <1>2 DEF CourseInv, EndIn, OneTurn, Spoke, Leaving
<1>4. Unsaid' /\ Unheard' /\ Deaf'
  <2>1. CASE utterance' = utterance
    BY <1>1, <1>2, <2>1 DEF CourseInv, Unsaid, Unheard, Deaf
  <2>2. CASE utterance = "onset" /\ utterance' = "speech" /\ ready = <<>>
    <3>1. \/ pc["consumer"] = "done"
          \/ ~Ended /\ (\A t \in Turns : ~Live(t)) /\ pc["run"] \notin Early \cup Greets
      BY <2>2, SpeechOpens
    <3>2. pc["consumer"] # "idle"
      BY <2>2 DEF CourseInv, Unheard
    <3> QED BY <1>1, <1>2, <3>1, <3>2 DEF Unsaid, Unheard, Deaf
  <2> QED BY <1>1, <2>1, <2>2
<1> QED BY <1>3, <1>4 DEF CourseInv

\* How a turn opens: the caller has the floor, and the call has not ended.
LEMMA OpensFacts ==
  ASSUME TypeOK, LoopInv, CourseInv, NEW t \in Turns, TurnOpens(t)
  PROVE  /\ ~Ended /\ Leads(ProcTask("consumer")) /\ pc["consumer"] = "get" /\ pc[t] = "idle"
         /\ state = "listening" /\ utterance = "speech"
         /\ (\A u \in Turns : ~Live(u)) /\ pc["run"] \notin Early \cup Greets
         /\ pc'["consumer"] = "loop" /\ pc'[t] = "start" /\ \A w \in Proc \ {"consumer", t} : pc'[w] = pc[w]
         /\ joining' = joining /\ cancelled' = cancelled /\ <<ProcTask(t)>> \in Seq(Task)
         /\ ready' = ready \o <<ProcTask(t)>>
         /\ state' = "thinking" /\ utterance' = "idle" /\ turnTask' = t /\ idle' = 0
         /\ UNCHANGED <<saved, then, exchange, over, hold, holdTask, play>>
         /\ In("end", inbox) => In("end", inbox')
<1>k. t \in Proc /\ "consumer" \in Proc /\ t # "consumer"
  BY Kinds
<1>1. /\ Leads(ProcTask("consumer")) /\ pc["consumer"] = "get" /\ pc[t] = "idle"
      /\ state = "listening" /\ utterance = "speech" /\ TakesFrame
  BY RunsLeads DEF TurnOpens, TakesFrame
<1>2. ~Ended
  BY <1>1 DEF CourseInv, Deaf
<1>3. (\A u \in Turns : ~Live(u)) /\ pc["run"] \notin Early \cup Greets
  BY <1>1 DEF CourseInv, Unsaid
<1>4. joining["consumer"] = NoTask
  BY <1>1, <1>k, LeadsLives DEF LoopInv
<1>5. joining' = joining
  BY <1>4 DEF TurnOpens, TypeOK, ControlOK
<1>6. ready' = Append(ready, ProcTask(t)) /\ cancelled' = cancelled
  BY <1>3 DEF TurnOpens, TypeOK, CallerOK
<1>7. ready' = ready \o <<ProcTask(t)>> /\ <<ProcTask(t)>> \in Seq(Task)
  BY <1>6, <1>k, AppendIsConcat, TaskNames DEF TypeOK, ControlOK
<1>8. pc'["consumer"] = "loop" /\ pc'[t] = "start" /\ \A w \in Proc \ {"consumer", t} : pc'[w] = pc[w]
  BY <1>k DEF TurnOpens, TypeOK, ControlOK
<1>9. In("end", inbox) => In("end", inbox')
  BY <1>1, FrameTaken
<1>10. /\ state' = "thinking" /\ utterance' = "idle" /\ turnTask' = t /\ idle' = 0
       /\ UNCHANGED <<saved, then, exchange, over, hold, holdTask, play>>
  BY DEF TurnOpens, record, plan, voice, tone
<1> QED BY <1>1, <1>2, <1>3, <1>5, <1>6, <1>7, <1>8, <1>9, <1>10

\* How run() starts the other tasks.
LEMMA StartsFacts ==
  ASSUME TypeOK, LoopInv, RunStarts
  PROVE  /\ Leads(ProcTask("run")) /\ pc["run"] = "connected"
         /\ pc["consumer"] = "idle" /\ pc["watchdog"] = "idle" /\ \A t \in Turns : pc[t] = "idle"
         /\ pc'["run"] = "enter" /\ pc'["watchdog"] = "again" /\ pc'["consumer"] = "loop"
         /\ \A w \in Proc \ {"run", "consumer", "watchdog"} : pc'[w] = pc[w]
         /\ \A t \in Turns : then'[t] = then[t]
         /\ \E q \in Seq(Task) : ready' = ready \o q
         /\ UNCHANGED <<state, saved, exchange, over, hold, holdTask, play, utterance, idle, turnTask, inbox,
                        joining, cancelled>>
<1>k. {"run", "consumer", "watchdog"} \subseteq Proc /\ Turns \subseteq Speaker /\ "run" \notin Turns /\ "run" \in Speaker
  BY Kinds
<1>1. Leads(ProcTask("run")) /\ pc["run"] = "connected"
  BY RunsLeads DEF RunStarts
<1>2. pc["consumer"] = "idle" /\ pc["watchdog"] = "idle" /\ \A t \in Turns : pc[t] = "idle"
  BY <1>1 DEF LoopInv, RoleInv, Alone, Early
<1>3. /\ pc'["run"] = "enter" /\ pc'["watchdog"] = "again" /\ pc'["consumer"] = "loop"
      /\ \A w \in Proc \ {"run", "consumer", "watchdog"} : pc'[w] = pc[w]
  BY <1>k DEF RunStarts, TypeOK, ControlOK
<1>4. \A t \in Turns : then'[t] = then[t]
  BY <1>k DEF RunStarts, TypeOK, PlanOK
<1>5. \E q \in Seq(Task) : ready' = ready \o q
  <2>1. <<ProcTask("watchdog"), ProcTask("consumer")>> \in Seq(Task)
    BY <1>k, TaskNames
  <2> QED BY <2>1 DEF RunStarts
<1>6. UNCHANGED <<state, saved, exchange, over, hold, holdTask, play, utterance, idle, turnTask, inbox,
                        joining, cancelled>>
  BY DEF RunStarts, record, voice, tone, caller, patience
<1> QED BY <1>1, <1>2, <1>3, <1>4, <1>5, <1>6

\* A turn that opens keeps to the course.
LEMMA CourseOpens ==
  ASSUME TypeOK, LoopInv, CourseInv, NEW t \in Turns, TurnOpens(t)
  PROVE  CourseInv'
<1>k. /\ Turns \subseteq Proc /\ Speaker \subseteq Proc /\ "run" \in Proc
      /\ Turns \cap {"run", "consumer", "watchdog"} = {} /\ "consumer" \notin Speaker
  BY Kinds
<1>1. /\ pc["consumer"] = "get" /\ pc[t] = "idle"
      /\ (\A u \in Turns : ~Live(u)) /\ pc["run"] \notin Early \cup Greets
      /\ pc'["consumer"] = "loop" /\ pc'[t] = "start" /\ \A w \in Proc \ {"consumer", t} : pc'[w] = pc[w]
      /\ state' = "thinking" /\ utterance' = "idle" /\ turnTask' = t /\ over' = over
      /\ In("end", inbox) => In("end", inbox')
  BY OpensFacts
<1>2. \A u \in Turns \ {t} : ~(Live(u))'
  BY <1>1, <1>k DEF Live
<1> HIDE DEF In
<1>3. EndIn' /\ Spoke' /\ Unheard' /\ Deaf' /\ Leaving' /\ Unsaid'
  BY <1>1 DEF CourseInv, EndIn, Spoke, Unheard, Deaf, Leaving, Unsaid
<1>4. OneTurn'
  BY <1>1, <1>2 DEF OneTurn
<1> QED BY <1>3, <1>4 DEF CourseInv

\* run() keeps to the course when it starts the other tasks.
LEMMA CourseStarts ==
  ASSUME TypeOK, LoopInv, CourseInv, RunStarts
  PROVE  CourseInv'
<1>k. /\ Turns \subseteq Proc /\ Speaker \subseteq Proc /\ "run" \in Proc
      /\ Turns \cap {"run", "consumer", "watchdog"} = {} /\ "consumer" \notin Speaker
  BY Kinds
<1>1. /\ pc["run"] = "connected"
      /\ pc["consumer"] = "idle" /\ pc["watchdog"] = "idle" /\ \A t \in Turns : pc[t] = "idle"
      /\ pc'["run"] = "enter" /\ pc'["watchdog"] = "again" /\ pc'["consumer"] = "loop"
      /\ \A w \in Proc \ {"run", "consumer", "watchdog"} : pc'[w] = pc[w]
      /\ UNCHANGED <<state, over, utterance, turnTask, inbox>>
  BY StartsFacts
<1>2. /\ \A t \in Turns : pc'[t] = "idle" /\ ~(Live(t))'
      /\ \A s \in Speaker : Talking(s) => (Talking(s))'
  BY <1>1, <1>k DEF Live, Talking
<1>3. utterance # "speech"
  BY <1>1 DEF CourseInv, Unsaid, Early
<1> HIDE DEF In, Talking, Live
<1>4. EndIn' /\ Unheard' /\ Deaf' /\ Unsaid'
  BY <1>1, <1>3 DEF CourseInv, EndIn, Unheard, Deaf, Unsaid
<1>5. OneTurn' /\ Spoke' /\ Leaving'
  BY <1>1, <1>2 DEF CourseInv, OneTurn, Spoke, Leaving
<1> QED BY <1>4, <1>5 DEF CourseInv

\* run() sees the watchdog, the consumer and the turns out one after another, and saves last.
FinishInv ==
  /\ pc["run"] \in {"stop hold", "stop playback", "stop turn", "settle", "summarised", "commit", "done"} =>
       ~Live("watchdog")
  /\ pc["run"] \in {"stop playback", "stop turn", "settle", "summarised", "commit", "done"} =>
       ~Live("consumer")
  /\ pc["run"] = "join consumer" /\ joining["run"] = NoTask => ~Live("watchdog")
  /\ pc["run"] = "stop hold" /\ joining["run"] = NoTask => ~Live("consumer")
  /\ pc["run"] \in {"summarised", "commit", "done"} => \A t \in Turns : ~Live(t)
  /\ pc["run"] = "settle" => \A t \in Turns : Live(t) => joining["run"] = ProcTask(t)
  /\ saved # {} => pc["run"] = "done"

\* A turn that has answered and not recorded it is on its way to record it.
AnswerInv == \A t \in Turns : exchange[t] = "answered" => pc[t] \in Answering /\ then[t] = "spoken"

\* No move of a task upsets the order of the finish.
LEMMA FinishArc ==
  ASSUME TypeOK, LoopInv, CourseInv, FinishInv, NEW p \in Proc, NEW l \in Label, Arc(p, l)
  PROVE  FinishInv'
<1>k. /\ Turns \subseteq Proc /\ {"run", "consumer", "watchdog"} \subseteq Proc
      /\ Turns \cap {"run", "consumer", "watchdog"} = {}
  BY Kinds
<1>1. /\ pc'[p] = l /\ \A w \in Proc \ {p} : pc'[w] = pc[w]
      /\ \A w \in Proc \ {p} : \/ joining'[w] = joining[w]
                               \/ l = "done" /\ joining[w] = ProcTask(p) /\ joining'[w] = NoTask
  BY DEF Arc, Treads
<1>2. ArcPlace(p, l) /\ ArcJoins(p, l) /\ ArcRecord(p, l)
  BY DEF Arc, Duty
<1>3. /\ \A w \in Proc : (Live(w))' => Live(w)
      /\ l = "done" => ~(Live(p))'
  BY <1>1, <1>2 DEF ArcPlace, Live
<1>4. joining[p] = NoTask
  BY LeadsLives DEF LoopInv, Arc
<1>5. CASE p # "run"
  <2>1. pc'["run"] = pc["run"] /\ saved' = saved
    BY <1>1, <1>2, <1>k, <1>5 DEF ArcRecord
  <2>2. joining'["run"] # joining["run"] =>
          l = "done" /\ joining["run"] = ProcTask(p) /\ MayAwait("run", pc["run"], ProcTask(p))
    BY <1>1, <1>k, <1>5, Names DEF LoopInv, QueueInv, InPlace
  <2>3. MayAwait("run", pc["run"], ProcTask(p)) =>
          /\ pc["run"] = "join consumer" => p = "watchdog"
          /\ pc["run"] = "stop hold" => p = "consumer"
    BY Names, Kinds DEF MayAwait, OnPlay, OnHold
  <2> HIDE DEF Live, MayAwait, ProcTask
  <2>4. /\ pc["run"] = "settle" => \A t \in Turns : (Live(t))' => joining'["run"] = ProcTask(t)
    <3> SUFFICES ASSUME pc["run"] = "settle", NEW t \in Turns, (Live(t))' PROVE joining'["run"] = ProcTask(t)
      OBVIOUS
    <3>1. joining["run"] = ProcTask(t)
      BY <1>3, <1>k DEF FinishInv
    <3>2. ProcTask(t) = ProcTask(p) => t = p
      BY Names
    <3> QED BY <1>3, <2>2, <3>1, <3>2
  <2> QED BY <1>3, <1>k, <2>1, <2>2, <2>3, <2>4 DEF FinishInv
<1>6. CASE p = "run"
  <2>1. l = "done" => ~Live("watchdog") /\ ~Live("consumer") /\ \A t \in Turns : ~Live(t)
    <3>1. Live("watchdog") \/ Live("consumer") \/ (\E t \in Turns : Live(t)) => pc["run"] # "connected"
      BY DEF LoopInv, RoleInv, Alone, Early, Live
    <3> HIDE DEF Live
    <3> QED BY <1>2, <1>6, <3>1 DEF ArcPlace, FinishInv
  <2>2. l = "settle" => \A t \in Turns : Live(t) => joining'["run"] = ProcTask(t)
    <3> HIDE DEF Live
    <3> QED BY <1>2, <1>6 DEF ArcJoins, CourseInv, OneTurn
  <2>3. l = "summarised" => \A t \in Turns : ~Live(t)
    <3> HIDE DEF Live
    <3> QED BY <1>2, <1>4, <1>6, Names DEF ArcPlace, FinishInv
  <2>4. saved' # {} => l = "done"
    BY <1>2, <1>6 DEF ArcRecord, FinishInv, ArcPlace
  <2> HIDE DEF Live, ProcTask
  <2> QED BY <1>1, <1>2, <1>3, <1>4, <1>6, <1>k, <2>1, <2>2, <2>3, <2>4 DEF FinishInv, ArcPlace, ArcJoins
<1> QED BY <1>5, <1>6

\* No step of the world or of a sound upsets it.
LEMMA FinishRests ==
  ASSUME TypeOK, LoopInv, FinishInv, Rests
  PROVE  FinishInv'
<1>k. /\ Turns \subseteq Proc /\ {"run", "consumer", "watchdog"} \subseteq Proc
      /\ Turns \cap Hanger = {} /\ {"run", "consumer", "watchdog"} \cap Hanger = {}
  BY Kinds
<1>1. /\ \A w \in Proc \ Hanger : pc'[w] = pc[w]
      /\ saved' = saved
      /\ \/ joining'["run"] = joining["run"]
         \/ \E s \in Speaker : joining["run"] = PlayTask(s)
         \/ \E t \in Turns : joining["run"] = HoldTask(t)
  BY <1>k DEF Rests
<1>2. \A w \in {"run", "watchdog", "consumer"} \cup Turns : pc'[w] = pc[w] /\ ((Live(w))' <=> Live(w))
  BY <1>k, <1>1 DEF Live
<1>3. pc["run"] \in {"join consumer", "stop hold", "settle"} =>
        joining'["run"] = joining["run"]
  <2>1. joining["run"] # NoTask => MayAwait("run", pc["run"], joining["run"])
    BY <1>k DEF LoopInv, QueueInv, InPlace
  <2>2. pc["run"] \in {"join consumer", "stop hold", "settle"} /\ joining["run"] # NoTask =>
          \E w : joining["run"] = ProcTask(w)
    BY <2>1 DEF MayAwait, OnPlay, OnHold
  <2> HIDE DEF MayAwait, ProcTask, PlayTask, HoldTask
  <2> QED BY <1>1, <2>2, Names
<1> HIDE DEF Live, ProcTask, Rests
<1> QED BY <1>1, <1>2, <1>3 DEF FinishInv

\* A turn that opens does not upset it, and has no answer yet.
LEMMA FinishOpens ==
  ASSUME TypeOK, LoopInv, CourseInv, FinishInv, AnswerInv, NEW t \in Turns, TurnOpens(t)
  PROVE  FinishInv' /\ AnswerInv'
<1>k. /\ Turns \subseteq Proc /\ {"run", "consumer", "watchdog"} \subseteq Proc
      /\ Turns \cap {"run", "consumer", "watchdog"} = {}
  BY Kinds
<1>1. /\ pc["consumer"] = "get" /\ pc[t] = "idle"
      /\ pc'["consumer"] = "loop" /\ pc'[t] = "start" /\ \A w \in Proc \ {"consumer", t} : pc'[w] = pc[w]
      /\ joining' = joining /\ UNCHANGED <<saved, exchange, then>>
  BY OpensFacts
<1>2. Live("consumer") /\ (Live("consumer"))' /\ ((Live("watchdog"))' <=> Live("watchdog")) /\ pc'["run"] = pc["run"]
  BY <1>1, <1>k DEF Live
<1>3. FinishInv'
  <2> HIDE DEF Live
  <2> QED BY <1>1, <1>2 DEF FinishInv
<1>4. AnswerInv'
  BY <1>1, <1>k DEF AnswerInv, Answering
<1> QED BY <1>3, <1>4

\* The start of the other tasks does not upset it.
LEMMA FinishStarts ==
  ASSUME TypeOK, LoopInv, FinishInv, AnswerInv, RunStarts
  PROVE  FinishInv' /\ AnswerInv'
<1>k. Turns \subseteq Proc /\ Turns \cap {"run", "consumer", "watchdog"} = {}
  BY Kinds
<1>1. /\ pc["run"] = "connected" /\ pc'["run"] = "enter"
      /\ \A w \in Proc \ {"run", "consumer", "watchdog"} : pc'[w] = pc[w]
      /\ \A t \in Turns : then'[t] = then[t]
      /\ UNCHANGED <<saved, exchange>>
  BY StartsFacts
<1> QED BY <1>1, <1>k DEF FinishInv, AnswerInv

\* A turn that has answered goes on to record it, whatever task moves.
LEMMA AnswerArc ==
  ASSUME TypeOK, AnswerInv, NEW p \in Proc, NEW l \in Label, Arc(p, l)
  PROVE  AnswerInv'
<1>k. Turns \subseteq Proc
  BY Kinds
<1>1. pc'[p] = l /\ \A w \in Proc \ {p} : pc'[w] = pc[w]
  BY DEF Arc, Treads
<1>2. ArcRecord(p, l)
  BY DEF Arc, Duty
<1> QED BY <1>1, <1>2, <1>k DEF AnswerInv, ArcRecord, Answering

\* The world and the sounds have no part in the answers.
LEMMA AnswerRests ==
  ASSUME TypeOK, AnswerInv, Rests
  PROVE  AnswerInv'
<1>1. \A t \in Turns : pc'[t] = pc[t]
  BY Kinds DEF Rests
<1>2. UNCHANGED <<exchange, then>>
  BY DEF Rests
<1> QED BY <1>1, <1>2 DEF AnswerInv

\* A turn that sounds the hold tone, or is about to, has the call to itself.
Held(t) ==
  /\ turnTask = t /\ state \in {"thinking", "transferring", "ended"}
  /\ pc["run"] \in {"waiting", "final", "join consumer", "stop hold"}
  /\ ~Cuts /\ ~Asks

\* A turn runs before run() does, if the call ends before its first step.
Prompt(t) ==
  /\ state # "transferring" /\ pc["run"] = "waiting"
  /\ Here(ProcTask("run")) => Ahead(ProcTask(t), ProcTask("run"), ready)

\* Where a turn may be while its tone sounds.
Holding == {"stt", "respond", "line", "answered", "enter"}

\* Where the hangup overtakes a turn whose tone still sounds.
Cut     == {"spoken", "act", "hangup", "sentinel", "hung up", "done"}

\* The tone of turn t: it is the one that _stop_hold would stop, it has the call to itself,
\* and a tone being stopped is awaited.
ToneOf(t) ==
  /\ hold[t] = "on" <=> holdTask = t
  /\ hold[t] = "stopping" => \E p \in Proc : joining[p] = HoldTask(t)
  /\ hold[t] = "on" \/ pc[t] = "start" => Held(t)
  /\ pc[t] = "start" => Prompt(t)
  /\ hold[t] = "on" => pc[t] \in Holding \/ (Ended /\ pc[t] \in Cut)
  /\ hold[t] = "on" /\ pc[t] \in {"spoken", "act"} => state = "ended"

\* The hold tone belongs to a turn that has yet to speak, or to a call that has ended.
ToneInv == \A t \in Turns : ToneOf(t)

\* A task keeps its place ahead of another while the queue is served.
LEMMA AheadServed ==
  ASSUME TypeOK, Once(ready), NEW x \in Task, NEW y \in Task, NEW q \in Seq(Task),
         Here(x), Here(y) => Ahead(x, y, ready),
         ready' = ready \o q \/ (ready' = Tail(ready) \o q /\ Head(ready) # x),
         (Here(y))'
  PROVE  Ahead(x, y, ready')
<1>t. ready \in Seq(Task) /\ ready # <<>>
  BY DEF TypeOK, ControlOK, Here, In
<1>h. In(x, ready) /\ (In(y, ready) => Ahead(x, y, ready)) /\ In(y, ready')
  BY DEF Here
<1>1. CASE ready' = ready \o q
  <2>1. /\ \A z : In(z, ready \o q) <=> In(z, ready) \/ In(z, q)
        /\ \A z, u : Ahead(z, u, ready) \/ (In(z, ready) /\ In(u, q)) => Ahead(z, u, ready \o q)
    BY <1>t, InConcat
  <2> HIDE DEF In, Ahead
  <2> QED BY <1>1, <1>h, <2>1
<1>2. CASE ready' = Tail(ready) \o q /\ Head(ready) # x
  <2> DEFINE r == Tail(ready)
  <2>1. /\ r \in Seq(Task) /\ (\A z : In(z, r) <=> In(z, ready) /\ z # Head(ready))
        /\ \A z, u : Ahead(z, u, ready) /\ z # Head(ready) => Ahead(z, u, r)
    BY <1>t, InTail
  <2> HIDE DEF r
  <2>2. /\ \A z : In(z, r \o q) <=> In(z, r) \/ In(z, q)
        /\ \A z, u : Ahead(z, u, r) \/ (In(z, r) /\ In(u, q)) => Ahead(z, u, r \o q)
    BY <2>1, InConcat
  <2>3. ready' = r \o q
    BY <1>2 DEF r
  <2> HIDE DEF In, Ahead
  <2> QED BY <1>2, <1>h, <2>1, <2>2, <2>3
<1> QED BY <1>1, <1>2

\* Once ended, a call stays ended.
LEMMA EndedStays ==
  ASSUME TypeOK, LoopInv, Ended
  PROVE  /\ \A p \in Proc : \A l : Arc(p, l) => Ended'
         /\ Rests => Ended'
         /\ RunStarts => Ended'
<1>1. ASSUME NEW p \in Proc, NEW l, Arc(p, l) PROVE Ended'
  <2>1. /\ \A w \in Proc \ {p} : pc'[w] = pc[w]
        /\ over' = over \/ over' = TRUE
        /\ pc[p] = "sentinel" => over'
    BY <1>1 DEF Arc, Treads, Duty, ArcState
  <2> QED BY <2>1 DEF Ended
<1>2. Rests => Ended'
  BY DEF Rests, Ended
<1>3. RunStarts => Ended'
  BY StartsFacts, Kinds DEF Ended
<1> QED BY <1>1, <1>2, <1>3

\* A turn about to start is in the queue.
LEMMA StartHere ==
  ASSUME LoopInv, NEW t \in Turns, pc[t] = "start"
  PROVE  Here(ProcTask(t))
<1>1. InPlace(t)
  BY Kinds DEF LoopInv, QueueInv
<1>2. ~MayAwait(t, "start", joining[t])
  BY Kinds DEF MayAwait, OnPlay, OnHold
<1> QED BY <1>1, <1>2 DEF InPlace, Runnable

\* Run() cannot go on before a turn that is ahead of it.
LEMMA RunBehind ==
  ASSUME LoopInv, TypeOK, NEW t \in Turns, pc[t] = "start", Prompt(t)
  PROVE  ~Leads(ProcTask("run"))
<1> SUFFICES ASSUME Leads(ProcTask("run")) PROVE FALSE
  OBVIOUS
<1>1. ready \in Seq(Task) /\ ready # <<>> /\ ready[1] = ProcTask("run") /\ Once(ready)
  BY DEF TypeOK, ControlOK, LoopInv, QueueInv, Leads
<1>2. Here(ProcTask("run"))
  BY <1>1 DEF Here, In
<1>3. PICK i, j \in 1..Len(ready) : i < j /\ ready[j] = ProcTask("run")
  BY <1>2 DEF Prompt, Ahead
<1>4. j = 1
  BY <1>1, <1>3 DEF Once
<1> QED BY <1>3, <1>4

\* No move of a task leaves a tone behind.
LEMMA ToneArc ==
  ASSUME TypeOK, LoopInv, LoopInv', OpenInv, CourseInv, ToneInv, NEW p \in Proc, NEW l \in Label, Arc(p, l)
  PROVE  ToneInv'
<1>k. /\ Turns \subseteq Proc /\ Speaker \subseteq Proc /\ {"run", "consumer", "watchdog"} \subseteq Proc
      /\ Turns \cap {"run", "consumer", "watchdog"} = {}
      /\ \A s \in Speaker : s = "run" \/ s = "watchdog" \/ s \in Turns
  BY Kinds
<1>1. /\ pc'[p] = l /\ \A w \in Proc \ {p} : pc'[w] = pc[w]
      /\ \A w \in Proc \ {p} : \/ joining'[w] = joining[w]
                               \/ joining[w] = ProcTask(p) /\ joining'[w] = NoTask
      /\ Leads(ProcTask(p))
  BY DEF Arc, Treads
<1>2. ArcPlace(p, l) /\ ArcState(p, l) /\ ArcSound(p, l)
  BY DEF Arc, Duty
<1>3. joining[p] = NoTask /\ Live(p)
  BY <1>1, LeadsLives DEF LoopInv
<1>4. Ended => Ended'
  BY EndedStays
<1>5. /\ p \in cancelled => Ended
      /\ state = "ended" => Ended
  BY DEF OpenInv, OpenNow, Underway
<1>6. hold \in [Turns -> {"on", "stopping", "over"}] /\ "none" \notin Turns
  BY Kinds DEF TypeOK, SoundOK
<1> SUFFICES ASSUME NEW t \in Turns PROVE (ToneOf(t))'
  BY DEF ToneInv
<1>t. ToneOf(t) /\ (\A u \in Turns : hold[u] = "on" <=> holdTask = u)
  BY DEF ToneInv, ToneOf
<1>7. hold'[t] = "on" <=> holdTask' = t
  BY <1>2, <1>6, <1>t DEF ArcSound, None
<1>8. hold'[t] = "stopping" => \E w \in Proc : joining'[w] = HoldTask(t)
  <2> SUFFICES ASSUME hold'[t] = "stopping" PROVE \E w \in Proc : joining'[w] = HoldTask(t)
    OBVIOUS
  <2>1. CASE hold[t] = "stopping"
    <3>1. PICK w \in Proc : joining[w] = HoldTask(t)
      BY <2>1, <1>t DEF ToneOf
    <3>2. w # p /\ joining[w] # ProcTask(p)
      BY <3>1, <1>3, Names
    <3> QED BY <3>1, <3>2, <1>1
  <2>2. CASE hold[t] # "stopping"
    <3>1. holdTask = t /\ joining'[p] = HoldTask(holdTask)
      BY <2>2, <1>2, <1>6 DEF ArcSound
    <3> QED BY <3>1
  <2> QED BY <2>1, <2>2
<1>9. /\ pc'[t] = "start" => pc[t] = "start" /\ t # p
      /\ hold'[t] = "on" => hold[t] = "on" \/ (pc[t] = "start" /\ t = p /\ l = "stt")
  <2>1. pc'[t] = "start" => pc[t] = "start" /\ t # p
    <3>1. l # "start"
      BY <1>2 DEF ArcPlace
    <3> QED BY <1>1, <1>k, <3>1
  <2>2. ASSUME hold'[t] = "on", hold[t] # "on"
        PROVE  pc[t] = "start" /\ t = p /\ l = "stt"
    <3>1. hold' # hold
      BY <2>2
    <3>2. CASE holdTask # None /\ hold' = [hold EXCEPT ![holdTask] = "stopping"]
      BY <2>2, <3>2, <1>6
    <3>3. CASE p \in Turns /\ pc[p] = "start" /\ l = "stt" /\ hold' = [hold EXCEPT ![p] = "on"]
      BY <2>2, <3>3, <1>6
    <3> QED BY <1>2, <3>1, <3>2, <3>3 DEF ArcSound
  <2> QED BY <2>1, <2>2
<1>10. ASSUME hold[t] = "on" \/ pc[t] = "start", p \in Turns
       PROVE  p = t
  BY <1>3, <1>10, <1>t DEF ToneOf, Held, CourseInv, OneTurn
<1>11. ASSUME hold[t] = "on" \/ pc[t] = "start"
       PROVE  /\ turnTask' = t /\ state' \in {"thinking", "transferring", "ended"} /\ ~Cuts' /\ ~Asks'
              /\ state' \in {state, "ended"} \/ (p = t /\ pc[t] = "act" /\ l = "hangup")
  <2>h. Held(t)
    BY <1>11, <1>t DEF ToneOf
  <2>t. p = t => pc[t] \in {"start"} \cup Holding \cup Cut
    BY <1>11, <1>t DEF ToneOf
  <2>1. turnTask' = t
    BY <1>2, <2>h DEF ArcState, Held
  <2>2. l # "announced" \/ p \notin Speaker
    <3>1. ASSUME l = "announced", p \in Speaker PROVE FALSE
      <4>1. pc[p] = "play"
        BY <3>1, <1>2, <1>k DEF ArcPlace
      <4>2. p \in Turns
        BY <3>1, <4>1, <1>k, <2>h DEF Held, Asks
      <4> QED BY <4>1, <4>2, <1>10, <1>11, <2>t DEF Holding, Cut
    <3> QED BY <3>1
  <2>3. \/ state' \in {state, "ended"}
        \/ state' = "transferring" /\ p = t /\ pc[t] = "act" /\ l = "hangup"
    <3>1. CASE state' = "listening"
      <4>1. ~(p \in Speaker /\ pc[p] = "speaking" /\ state = "speaking")
        BY <2>h DEF Held
      <4>2. ~(p = "consumer" /\ pc[p] = "listen") /\ ~(p = "run" /\ pc[p] = "greeted")
        BY <2>h DEF Held, Cuts
      <4>3. ~(p \in Turns /\ pc[p] = "unheard")
        BY <1>10, <1>11, <2>t DEF Holding, Cut
      <4>4. ~(p \in Turns /\ pc[p] = "act" /\ state # "ended")
        BY <1>10, <1>11, <1>t DEF ToneOf
      <4> QED BY <3>1, <4>1, <4>2, <4>3, <4>4, <1>2 DEF ArcState
    <3>2. CASE state' # "listening"
      BY <3>2, <2>2, <1>2, <1>10, <1>11 DEF ArcState
    <3> QED BY <3>1, <3>2
  <2>4. ~Cuts'
    BY <1>1, <1>2, <1>k, <2>h DEF Cuts, Held, ArcPlace
  <2>5. ~Asks'
    BY <1>1, <1>2, <1>k, <2>h DEF Asks, Held, ArcPlace
  <2> QED BY <2>1, <2>3, <2>4, <2>5, <2>h DEF Held
<1>12. ASSUME hold'[t] = "on" \/ pc'[t] = "start"
       PROVE  pc'["run"] \in {"waiting", "final", "join consumer", "stop hold"}
  <2>1. pc["run"] \in {"waiting", "final", "join consumer", "stop hold"}
    BY <1>9, <1>12, <1>t DEF ToneOf, Held
  <2>2. CASE p # "run"
    BY <2>1, <2>2, <1>1, <1>k
  <2>3. CASE p = "run"
    <3>1. l # "stop playback"
      <4>1. pc'[t] = "start" => pc["run"] = "waiting"
        BY <1>9, <1>t DEF ToneOf, Prompt
      <4>2. l = "stop playback" => holdTask' = None
        BY <2>3, <1>2 DEF ArcSound
      <4> QED BY <4>1, <4>2, <1>2, <1>6, <1>7, <1>12, <2>3 DEF ArcPlace, None
    <3>2. Roles'
      BY DEF LoopInv, RoleInv
    <3>3. l \in {"start", "connected", "enter", "play", "announced", "speaking", "greeted",
                    "waiting", "final", "join consumer", "stop hold", "stop playback",
                    "stop turn", "settle", "summarised", "commit", "done"}
      BY <3>2, <1>1, <2>3 DEF Roles
    <3> QED BY <1>1, <1>2, <2>1, <2>3, <3>1, <3>3 DEF ArcPlace, Early, Greets
  <2> QED BY <2>2, <2>3
<1>13. hold'[t] = "on" \/ pc'[t] = "start" => (Held(t))'
  BY <1>9, <1>11, <1>12 DEF Held
<1>14. ASSUME pc'[t] = "start" PROVE (Prompt(t))'
  <2>1. pc[t] = "start" /\ t # p /\ Prompt(t) /\ Held(t)
    BY <1>9, <1>14, <1>t DEF ToneOf
  <2>2. state' # "transferring"
    BY <1>11, <2>1 DEF Prompt
  <2>3. p # "run"
    BY <1>1, <2>1, RunBehind
  <2>4. pc'["run"] = "waiting"
    BY <1>1, <1>k, <2>1, <2>3 DEF Prompt
  <2>5. PICK q \in Seq(Task) : ready' = ready \o q \/ ready' = Tail(ready) \o q
    BY DEF Arc, Served
  <2>6. Head(ready) # ProcTask(t) /\ ProcTask(t) \in Task /\ ProcTask("run") \in Task /\ Once(ready)
    BY <1>1, <1>k, <2>1, Names, TaskNames DEF Leads, LoopInv, QueueInv
  <2>7. Here(ProcTask(t)) /\ (Here(ProcTask("run")) => Ahead(ProcTask(t), ProcTask("run"), ready))
    BY <2>1, StartHere DEF Prompt
  <2>8. (Here(ProcTask("run")))' => Ahead(ProcTask(t), ProcTask("run"), ready')
    BY <2>5, <2>6, <2>7, AheadServed
  <2> QED BY <2>2, <2>4, <2>8 DEF Prompt
<1>15. hold'[t] = "on" => pc'[t] \in Holding \/ (Ended' /\ pc'[t] \in Cut)
  <2> SUFFICES ASSUME hold'[t] = "on" PROVE pc'[t] \in Holding \/ (Ended' /\ pc'[t] \in Cut)
    OBVIOUS
  <2>1. CASE t # p
    <3>1. pc'[t] = pc[t] /\ hold[t] = "on"
      BY <2>1, <1>1, <1>9, <1>k
    <3> QED BY <3>1, <1>4, <1>t DEF ToneOf
  <2>2. CASE t = p /\ hold[t] # "on"
    BY <2>2, <1>1, <1>9 DEF Holding
  <2>3. CASE t = p /\ hold[t] = "on"
    <3>1. pc[t] \in Holding \/ (Ended /\ pc[t] \in Cut)
      BY <2>3, <1>t DEF ToneOf
    <3>2. Roles'
      BY DEF LoopInv, RoleInv
    <3>3. l \in Unspoken \cup {"idle", "announced", "speaking", "spoken", "act",
                                              "hangup", "sentinel", "hung up", "done"}
      BY <3>2, <1>1, <2>3 DEF Roles
    <3>4. l \notin {"unheard", "play"} /\ (l = "enter" => pc[t] # "line")
      BY <1>2, <1>6, <1>7, <2>3 DEF ArcSound, None
    <3>5. l \in {"spoken", "act"} /\ pc[t] \in Holding => Ended
      BY <1>2, <1>5, <2>3 DEF ArcSound, Holding
    <3>6. pc[t] \in Holding => l \in Holding \/ (Ended /\ l \in Cut)
      BY <1>2, <1>5, <2>3, <3>3, <3>4, <3>5 DEF ArcPlace, Holding, Cut, Unspoken
    <3>7. pc[t] \in Cut => l \in Cut
      BY <1>2, <2>3, <3>3 DEF ArcPlace, Cut, Unspoken
    <3> QED BY <1>1, <1>4, <2>3, <3>1, <3>6, <3>7
  <2> QED BY <2>1, <2>2, <2>3
<1>16. hold'[t] = "on" /\ pc'[t] \in {"spoken", "act"} => state' = "ended"
  <2> SUFFICES ASSUME hold'[t] = "on", pc'[t] \in {"spoken", "act"} PROVE state' = "ended"
    OBVIOUS
  <2>1. hold[t] = "on"
    BY <1>1, <1>9
  <2>2. state' \in {state, "ended"} \/ (p = t /\ l = "hangup")
    BY <1>11, <2>1
  <2>3. CASE t # p
    <3>1. pc'[t] = pc[t]
      BY <2>3, <1>1, <1>k
    <3> QED BY <2>1, <2>2, <2>3, <3>1, <1>t DEF ToneOf
  <2>4. CASE t = p
    <3>1. pc[t] \in Holding => state' = "ended"
      BY <1>1, <1>2, <2>4 DEF ArcSound, Holding
    <3>2. pc[t] \notin Holding => pc[t] = "spoken"
      <4>1. pc[t] \notin Holding => pc[t] \in Cut
        BY <2>1, <1>t DEF ToneOf
      <4> QED BY <1>1, <1>2, <2>4, <4>1 DEF ArcPlace, Cut
    <3>3. pc[t] = "spoken" => state = "ended"
      BY <2>1, <1>t DEF ToneOf
    <3> QED BY <1>1, <2>2, <2>4, <3>1, <3>2, <3>3
  <2> QED BY <2>3, <2>4
<1> HIDE DEF Held, Prompt, Ended, Holding, Cut
<1> QED BY <1>7, <1>8, <1>13, <1>14, <1>15, <1>16 DEF ToneOf

\* No step of the world or of a sound does.
LEMMA ToneRests ==
  ASSUME TypeOK, LoopInv, ToneInv, Rests
  PROVE  ToneInv'
<1>k. /\ Turns \subseteq Proc /\ {"run", "consumer", "watchdog"} \subseteq Proc
      /\ Turns \cap Hanger = {} /\ {"run", "consumer", "watchdog"} \cap Hanger = {}
  BY Kinds
<1>1. /\ \A w \in Turns \cup {"run", "consumer", "watchdog"} : pc'[w] = pc[w]
      /\ UNCHANGED <<state, turnTask, holdTask>>
      /\ \A t \in Turns : hold'[t] = hold[t] \/ (hold[t] = "stopping" /\ hold'[t] = "over")
      /\ Ended => Ended'
  BY <1>k, EndedStays DEF Rests
<1> SUFFICES ASSUME NEW t \in Turns PROVE (ToneOf(t))'
  BY DEF ToneInv
<1>t. ToneOf(t)
  BY DEF ToneInv
<1>2. hold'[t] = "stopping" => \E w \in Proc : joining'[w] = HoldTask(t)
  <2> SUFFICES ASSUME hold'[t] = "stopping" PROVE \E w \in Proc : joining'[w] = HoldTask(t)
    OBVIOUS
  <2>1. PICK w \in Proc : joining[w] = HoldTask(t)
    BY <1>1, <1>t DEF ToneOf
  <2>2. /\ \A s \in Speaker : joining[w] # PlayTask(s)
        /\ \A u \in Turns : joining[w] = HoldTask(u) => u = t
    BY <2>1, Names
  <2>3. joining'[w] = joining[w]
    <3> HIDE DEF HoldTask, PlayTask
    <3> QED BY <2>2 DEF Rests
  <2> QED BY <2>1, <2>3
<1>3. Held(t) => (Held(t))'
  BY <1>1 DEF Held, Cuts, Asks
<1>4. ASSUME pc'[t] = "start" PROVE (Prompt(t))'
  <2>1. pc[t] = "start" /\ Prompt(t)
    BY <1>1, <1>4, <1>t DEF ToneOf
  <2>2. PICK q \in Seq(Task) :
          ready' = ready \o q \/ (ready' = Tail(ready) \o q /\ Head(ready) # ProcTask(t))
    BY DEF Rests
  <2>3. ProcTask(t) \in Task /\ ProcTask("run") \in Task /\ Once(ready)
    BY <1>k, TaskNames DEF LoopInv, QueueInv
  <2>4. Here(ProcTask(t)) /\ (Here(ProcTask("run")) => Ahead(ProcTask(t), ProcTask("run"), ready))
    BY <2>1, StartHere DEF Prompt
  <2>5. (Here(ProcTask("run")))' => Ahead(ProcTask(t), ProcTask("run"), ready')
    BY <2>2, <2>3, <2>4, AheadServed
  <2> QED BY <1>1, <2>1, <2>5 DEF Prompt
<1> HIDE DEF Held, Prompt, Ended, Holding, Cut
<1> QED BY <1>1, <1>2, <1>3, <1>4, <1>t DEF ToneOf

\* A turn opens while no tone sounds.
LEMMA ToneOpens ==
  ASSUME TypeOK, LoopInv, OpenInv, CourseInv, ToneInv, NEW c \in Turns, TurnOpens(c)
  PROVE  ToneInv'
<1>k. /\ Turns \subseteq Proc /\ {"run", "consumer", "watchdog"} \subseteq Proc /\ "watchdog" \in Speaker
      /\ Turns \cap {"run", "consumer", "watchdog"} = {}
  BY Kinds
<1>1. /\ ~Ended /\ Leads(ProcTask("consumer")) /\ pc[c] = "idle"
      /\ state = "listening" /\ utterance = "speech"
      /\ (\A u \in Turns : ~Live(u)) /\ pc["run"] \notin Early \cup Greets
      /\ pc'["consumer"] = "loop" /\ pc'[c] = "start" /\ \A w \in Proc \ {"consumer", c} : pc'[w] = pc[w]
      /\ joining' = joining /\ <<ProcTask(c)>> \in Seq(Task)
      /\ ready' = ready \o <<ProcTask(c)>>
      /\ state' = "thinking" /\ turnTask' = c
      /\ UNCHANGED <<hold, holdTask>>
  BY OpensFacts
<1>2. OpenNow
  BY <1>1 DEF OpenInv
<1>3. pc["run"] = "waiting" /\ ~Here(ProcTask("run")) /\ ~Begins("watchdog")
  BY <1>1, <1>2, ConsumerRuns DEF OpenNow, Underway
<1>4. ~Asks
  <2>1. ~Talking("watchdog")
    BY <1>1, <1>2, <1>k DEF OpenNow, OnAir
  <2> QED BY <1>3, <2>1 DEF Asks, Begins, Talking
<1>5. \A t \in Turns : hold[t] # "on" /\ pc[t] # "start"
  BY <1>1 DEF ToneInv, ToneOf, Live, Holding
<1>6. ~(Here(ProcTask("run")))'
  <2> DEFINE q == <<ProcTask(c)>>
  <2>1. \A y : In(y, q) => y = ProcTask(c)
    BY DEF In
  <2>2. q \in Seq(Task) /\ ready' = ready \o q /\ ready \in Seq(Task)
    BY <1>1 DEF TypeOK, ControlOK
  <2>3. ProcTask("run") # ProcTask(c)
    BY <1>k, Names
  <2> HIDE DEF q
  <2>4. \A z : In(z, ready \o q) <=> In(z, ready) \/ In(z, q)
    BY <2>2, InConcat
  <2> HIDE DEF In
  <2> QED BY <1>3, <2>1, <2>2, <2>3, <2>4 DEF Here
<1>7. (Held(c))' /\ (Prompt(c))'
  BY <1>1, <1>3, <1>4, <1>6, <1>k DEF Held, Prompt, Cuts, Asks
<1>8. \A t \in Turns \ {c} : pc'[t] # "start"
  BY <1>1, <1>5, <1>k
<1> SUFFICES ASSUME NEW t \in Turns PROVE (ToneOf(t))'
  BY DEF ToneInv
<1>t. ToneOf(t)
  BY DEF ToneInv
<1> HIDE DEF Held, Prompt, Ended, Holding, Cut
<1> QED BY <1>1, <1>5, <1>7, <1>8, <1>t DEF ToneOf

\* The other tasks start while no tone sounds.
LEMMA ToneStarts ==
  ASSUME TypeOK, LoopInv, ToneInv, RunStarts
  PROVE  ToneInv'
<1>1. /\ \A t \in Turns : pc[t] = "idle" /\ pc'[t] = "idle"
      /\ UNCHANGED <<hold, holdTask, joining>>
  BY StartsFacts, Kinds
<1>2. \A t \in Turns : hold[t] # "on"
  BY <1>1 DEF ToneInv, ToneOf, Holding, Cut
<1> SUFFICES ASSUME NEW t \in Turns PROVE (ToneOf(t))'
  BY DEF ToneInv
<1>t. ToneOf(t)
  BY DEF ToneInv
<1> HIDE DEF Held, Prompt, Ended, Holding, Cut
<1> QED BY <1>1, <1>2, <1>t DEF ToneOf

\* No hold tone is kept when the greeting or the watchdog takes the floor.
LEMMA NoTone ==
  ASSUME TypeOK, ToneInv, Begins("run") \/ Begins("watchdog")
  PROVE  holdTask = None
<1>1. \A t \in Turns : holdTask # t
  BY DEF ToneInv, ToneOf, Held, Begins, Asks
<1> QED BY <1>1 DEF TypeOK, SoundOK

\* Nobody is left who could begin a line, or the tone of another.
Settled ==
  /\ \A t \in Turns : hold[t] # "on" /\ pc[t] \notin Unspoken
  /\ pc["run"] \notin Early \cup {"enter", "play", "announced"}
  /\ pc["watchdog"] \notin {"enter", "play", "announced"}
  /\ state = "listening" => idle = 0

\* Between the hangup and its sentinel nothing is heard, and nothing new begins.
EndingInv ==
  Ended /\ ~over =>
    /\ \A s \in Speaker : ~Heard(s)
    /\ state \in {"ended", "listening", "transferring"}
    /\ (\E p \in Proc : pc[p] = "sentinel" /\ Leads(ProcTask(p))) \/ Settled

\* While hangup waits for the cut playback the loop has something to run.
LEMMA SentinelStirs ==
  ASSUME LoopInv, NEW p \in Proc, pc[p] = "sentinel"
  PROVE  ready # <<>>
<1> SUFFICES ASSUME ready = <<>> PROVE FALSE
  OBVIOUS
<1>1. \A x : ~Here(x)
  BY StillLoop
<1>2. InPlace(p)
  BY DEF LoopInv, QueueInv
<1>3. joining[p] # NoTask
  BY <1>1, <1>2 DEF InPlace, Runnable, OnPlay
<1>4. MayAwait(p, "sentinel", joining[p]) /\ Alive(joining[p])
  BY <1>2, <1>3 DEF InPlace
<1>5. PICK s \in Speaker : joining[p] = PlayTask(s)
  BY <1>4 DEF MayAwait, OnHold
<1>6. play[s] \in Pending
  BY <1>4, <1>5, Names DEF Alive, Pending
<1>7. Here(PlayTask(s))
  BY <1>6 DEF LoopInv, QueueInv
<1> QED BY <1>1, <1>7

\* No move of a task makes an ending call heard again.
LEMMA EndingArc ==
  ASSUME TypeOK, LoopInv, OpenInv, CourseInv, ToneInv, EndingInv,
         NEW p \in Proc, NEW l \in Label, Arc(p, l)
  PROVE  EndingInv'
<1>k. /\ Turns \subseteq Proc /\ Turns \subseteq Speaker /\ Speaker \subseteq Proc
      /\ {"run", "consumer", "watchdog"} \subseteq Proc /\ {"run", "watchdog"} \subseteq Speaker
      /\ Turns \cap {"run", "consumer", "watchdog"} = {}
      /\ \A s \in Speaker : s = "run" \/ s = "watchdog" \/ s \in Turns
  BY Kinds
<1>1. pc'[p] = l /\ (\A w \in Proc \ {p} : pc'[w] = pc[w]) /\ Leads(ProcTask(p))
  BY DEF Arc, Treads
<1>2. ArcPlace(p, l) /\ ArcState(p, l) /\ ArcSound(p, l)
  BY DEF Arc, Duty
<1>3. hold \in [Turns -> {"on", "stopping", "over"}]
  BY DEF TypeOK, SoundOK
<1>4. \A t \in Turns : hold'[t] = "on" => hold[t] = "on" \/ (pc[t] = "start" /\ t = p /\ l = "stt")
  <2> SUFFICES ASSUME NEW t \in Turns, hold'[t] = "on", hold[t] # "on"
               PROVE  pc[t] = "start" /\ t = p /\ l = "stt"
    OBVIOUS
  <2>1. hold' # hold
    OBVIOUS
  <2>2. CASE holdTask # None /\ hold' = [hold EXCEPT ![holdTask] = "stopping"]
    BY <2>2, <1>3
  <2>3. CASE p \in Turns /\ pc[p] = "start" /\ l = "stt" /\ hold' = [hold EXCEPT ![p] = "on"]
    BY <2>3, <1>3
  <2> QED BY <1>2, <2>1, <2>2, <2>3 DEF ArcSound
<1> SUFFICES ASSUME Ended', ~over'
             PROVE  /\ \A s \in Speaker : ~(Heard(s))'
                    /\ state' \in {"ended", "listening", "transferring"}
                    /\ (\E w \in Proc : pc'[w] = "sentinel" /\ (Leads(ProcTask(w)))') \/ Settled'
  BY DEF EndingInv
<1>5. ~over /\ pc[p] # "sentinel"
  BY <1>2 DEF ArcState
<1>6. CASE Ended
  <2>1. state \in {"ended", "listening", "transferring"} /\ (\A s \in Speaker : ~Heard(s))
    BY <1>5, <1>6 DEF EndingInv
  <2>2. Settled
    <3>1. \A w : Leads(ProcTask(w)) => w = p
      BY <1>1, Names DEF Leads
    <3> HIDE DEF Leads
    <3> QED BY <1>5, <1>6, <3>1 DEF EndingInv
  <2>3. ~(p \in Speaker /\ l = "announced")
    BY <1>2, <1>k, <2>2 DEF ArcPlace, Settled, Unspoken
  <2>4. \A s \in Speaker : ~(Heard(s))'
    BY <1>2, <2>1, <2>3 DEF ArcSound, Heard
  <2>5. state' \in {"ended", "listening", "transferring"}
    BY <1>2, <2>1, <2>3 DEF ArcState
  <2>6. \A t \in Turns : hold'[t] # "on" /\ pc'[t] \notin Unspoken
    <3>1. \A t \in Turns : hold[t] # "on" /\ pc[t] \notin Unspoken
      BY <2>2 DEF Settled
    <3>2. \A t \in Turns : pc'[t] \notin Unspoken
      BY <1>1, <1>2, <1>k, <3>1 DEF ArcPlace
    <3> QED BY <1>4, <3>1, <3>2 DEF Unspoken
  <2>7. pc'["run"] \notin Early \cup {"enter", "play", "announced"}
    BY <1>1, <1>2, <1>k, <2>2 DEF ArcPlace, Settled, Early, Greets
  <2>8. pc'["watchdog"] \notin {"enter", "play", "announced"}
    BY <1>1, <1>2, <1>k, <2>2 DEF ArcPlace, Settled
  <2>9. state' = "listening" => idle' = 0
    <3> SUFFICES ASSUME state' = "listening" PROVE idle' = 0
      OBVIOUS
    <3>1. CASE state = "listening"
      BY <1>2, <2>2, <3>1 DEF ArcState, Settled
    <3>2. CASE state # "listening"
      <4>1. (p = "consumer" /\ idle' = 0) \/ p = "run" \/ p \in Turns
        BY <1>2, <2>1, <3>2 DEF ArcState
      <4>2. state = "transferring" => idle' = 0
        <5> SUFFICES ASSUME state = "transferring" PROVE idle' = 0
          OBVIOUS
        <5>1. PICK t \in Turns : pc[t] = "hangup"
          BY DEF CourseInv, Leaving
        <5>2. Leads(ProcTask(t))
          BY <5>1, <1>k DEF LoopInv, QueueInv, InPlace, PassesBy
        <5>3. t = p
          BY <5>2, <1>1, Names DEF Leads
        <5>4. p \notin cancelled
          BY <5>1, <5>3, <1>k DEF LoopInv, QueueInv, InPlace, PassesBy
        <5> QED BY <1>2, <5>1, <5>3, <5>4 DEF ArcState, ArcPlace
      <4> QED BY <1>2, <2>1, <2>2, <3>2, <4>1, <4>2 DEF ArcState, Settled, Unspoken
    <3> QED BY <3>1, <3>2
  <2>10. Settled'
    BY <2>6, <2>7, <2>8, <2>9 DEF Settled
  <2> QED BY <2>4, <2>5, <2>10
<1>7. CASE ~Ended
  <2>1. l = "sentinel"
    BY <1>1, <1>7 DEF Ended
  <2>2. pc[p] = "hangup" /\ state' = "ended"
    BY <1>2, <2>1 DEF ArcPlace, ArcState
  <2>3. OpenNow
    BY <1>7 DEF OpenInv
  <2>4. \A s \in Speaker : play[s] # "over" => Talking(s) /\ speaking = s
    BY <2>3 DEF OpenNow, OnAir
  <2>5. \A s \in Speaker : ~(Heard(s))'
    <3> SUFFICES ASSUME NEW s \in Speaker, (Heard(s))' PROVE FALSE
      OBVIOUS
    <3>1. play'[s] \in {"new", "playing"} /\ play[s] \in {"new", "playing"}
      BY <1>2, <2>1 DEF ArcSound, Heard
    <3>2. speaking = s
      BY <2>4, <3>1
    <3> QED BY <1>2, <2>1, <3>1, <3>2 DEF ArcSound
  <2>6. CASE (Leads(ProcTask(p)))'
    BY <1>1, <2>1, <2>2, <2>5, <2>6
  <2>7. CASE ~(Leads(ProcTask(p)))'
    <3>1. PICK s \in Speaker : speaking = s /\ play[s] # "over"
      BY <1>2, <2>1, <2>7 DEF ArcSound
    <3>2. Talking(s)
      BY <2>4, <3>1
    <3>3. /\ \A t \in Turns \ {s} : pc[t] \notin Unspoken
          /\ s # "run" => pc["run"] \notin Greets
          /\ s # "watchdog" => ~Asks
          /\ pc["run"] \notin Early
      BY <2>3, <3>2, HasFloor DEF CourseInv
    <3>4. pc[s] # "announced"
      <4> SUFFICES ASSUME pc[s] = "announced" PROVE FALSE
        OBVIOUS
      <4>1. Leads(ProcTask(s))
        BY <1>k DEF LoopInv, QueueInv, InPlace, PassesBy, Passing
      <4>2. s = p
        BY <4>1, <1>1, Names DEF Leads
      <4> QED BY <2>2, <4>2
    <3>5. pc[s] = "speaking"
      BY <3>2, <3>4 DEF Talking
    <3>6. \A t \in Turns : pc[t] \notin Unspoken
      BY <3>3, <3>5 DEF Unspoken
    <3>7. \A t \in Turns : hold'[t] # "on"
      BY <1>4, <1>7, <2>1, <3>6 DEF ToneInv, ToneOf, Holding, Unspoken
    <3>8. /\ pc["run"] \notin Early \cup {"enter", "play", "announced"}
          /\ pc["watchdog"] \notin {"enter", "play", "announced"}
      BY <3>3, <3>5 DEF Greets, Asks
    <3>9. Settled'
      BY <1>1, <1>k, <2>1, <2>2, <3>6, <3>7, <3>8 DEF Settled, Unspoken, Early
    <3> QED BY <2>2, <2>5, <3>9
  <2> QED BY <2>6, <2>7
<1> QED BY <1>6, <1>7

\* No step of the world or of a sound does.
LEMMA EndingRests ==
  ASSUME TypeOK, LoopInv, EndingInv, Rests
  PROVE  EndingInv'
<1>k. /\ Turns \subseteq Proc /\ {"run", "consumer", "watchdog"} \subseteq Proc
      /\ Turns \cap Hanger = {} /\ {"run", "consumer", "watchdog"} \cap Hanger = {}
  BY Kinds
<1>1. /\ \A w \in Turns \cup {"run", "watchdog"} : pc'[w] = pc[w]
      /\ \A w \in Proc : pc'[w] = "sentinel" <=> pc[w] = "sentinel"
      /\ UNCHANGED <<state, over>>
      /\ \A t \in Turns : hold'[t] = "on" => hold[t] = "on"
      /\ \A s \in Speaker : (Heard(s))' => Heard(s)
      /\ idle' = idle \/ ready = <<>>
  BY <1>k DEF Rests, Heard
<1>2. \A w : Leads(ProcTask(w)) => (Leads(ProcTask(w)))'
  <2>1. PICK q \in Seq(Task) :
          \/ ready' = ready \o q
          \/ (\A w : Head(ready) # ProcTask(w))
    BY DEF Rests
  <2>2. ready # <<>> => ready \o q # <<>> /\ Head(ready \o q) = Head(ready)
    BY InConcat DEF TypeOK, ControlOK
  <2> QED BY <2>1, <2>2 DEF Leads
<1> SUFFICES ASSUME Ended', ~over'
             PROVE  /\ \A s \in Speaker : ~(Heard(s))'
                    /\ state' \in {"ended", "listening", "transferring"}
                    /\ (\E w \in Proc : pc'[w] = "sentinel" /\ (Leads(ProcTask(w)))') \/ Settled'
  BY DEF EndingInv
<1>3. ~over /\ \E w \in Proc : pc[w] = "sentinel"
  BY <1>1 DEF Ended
<1>4. ready # <<>>
  BY <1>3, SentinelStirs
<1>5. /\ \A s \in Speaker : ~Heard(s)
      /\ state \in {"ended", "listening", "transferring"}
      /\ (\E w \in Proc : pc[w] = "sentinel" /\ Leads(ProcTask(w))) \/ Settled
  BY <1>3 DEF EndingInv, Ended
<1>6. Settled => Settled'
  BY <1>1, <1>4 DEF Settled
<1> HIDE DEF Leads, Settled, Heard
<1> QED BY <1>1, <1>2, <1>5, <1>6

\* No turn opens while the call ends.
LEMMA EndingOpens ==
  ASSUME TypeOK, LoopInv, CourseInv, NEW t \in Turns, TurnOpens(t)
  PROVE  EndingInv'
<1>1. /\ ~Ended /\ pc'["consumer"] = "loop" /\ pc'[t] = "start"
      /\ (\A w \in Proc \ {"consumer", t} : pc'[w] = pc[w]) /\ over' = over
  BY OpensFacts
<1>2. ~Ended'
  BY <1>1 DEF Ended
<1> QED BY <1>2 DEF EndingInv

\* Nor are the other tasks started then.
LEMMA EndingStarts ==
  ASSUME TypeOK, LoopInv, EndingInv, RunStarts
  PROVE  EndingInv'
<1>1. /\ Leads(ProcTask("run")) /\ pc["run"] = "connected"
      /\ pc'["run"] = "enter" /\ pc'["watchdog"] = "again" /\ pc'["consumer"] = "loop"
      /\ (\A w \in Proc \ {"run", "consumer", "watchdog"} : pc'[w] = pc[w]) /\ over' = over
  BY StartsFacts
<1>2. ~Ended \/ over
  <2>1. ~(\E p \in Proc : pc[p] = "sentinel" /\ Leads(ProcTask(p)))
    BY <1>1, Names DEF Leads
  <2> HIDE DEF Leads, Ended
  <2> QED BY <1>1, <2>1 DEF EndingInv, Settled, Early
<1>3. Ended' => over'
  BY <1>1, <1>2 DEF Ended
<1> QED BY <1>3 DEF EndingInv

-----------------------------------------------------------------------------
(* The theorems about an ordinary call. *)
\* The invariant of an ordinary call, inductive as it stands.
CallInv == LoopInv /\ OpenInv /\ CourseInv /\ FinishInv /\ AnswerInv /\ ToneInv /\ EndingInv

\* The invariant holds of a new call.
LEMMA InitCall == Init => CallInv
<1> SUFFICES ASSUME Init PROVE CallInv
  OBVIOUS
<1>k. /\ Turns \subseteq Proc /\ Turns \subseteq Speaker /\ Speaker \subseteq Proc
      /\ {"run", "consumer", "watchdog"} \subseteq Proc
      /\ Turns \cap {"run", "consumer", "watchdog"} = {} /\ "none" \notin Turns
      /\ \A s \in Speaker : s = "run" \/ s = "watchdog" \/ s \in Turns
  BY Kinds
<1>1. /\ pc["run"] = "start" /\ \A p \in Proc \ {"run"} : pc[p] = "idle"
      /\ state = "greeting" /\ saved = {} /\ ready = <<ProcTask("run")>> /\ cancelled = {}
      /\ (\A s \in Speaker : play[s] = "over") /\ (\A t \in Turns : hold[t] = "over")
      /\ speaking = "none" /\ holdTask = "none" /\ utterance = "idle" /\ idle = 0 /\ inbox = <<>>
      /\ (\A t \in Turns : exchange[t] = "none") /\ ~over
  BY <1>k DEF Init, None
<1>2. LoopInv
  BY InitLoop
<1>3. ~Ended /\ ~In("end", inbox)
  BY <1>1 DEF Ended, In
<1>4. /\ \A s \in Speaker : ~Talking(s)
      /\ \A t \in Turns : ~Live(t) /\ pc[t] = "idle"
      /\ ~Live("watchdog") /\ ~Live("consumer")
  BY <1>1, <1>k DEF Talking, Live
<1>5. OpenInv
  <2>1. Underway
    <3>1. \A p \in Proc : pc[p] \notin {"hung up", "bounded", "expired"}
      BY <1>1
    <3> QED BY <1>1, <1>3, <3>1 DEF Underway, Early
  <2>2. Floor
    <3>1. pc["watchdog"] = "idle"
      BY <1>1, <1>k
    <3> HIDE DEF Live
    <3> QED BY <1>1, <1>4, <3>1 DEF Floor, Greets, Asks, Begins, Early, Unspoken
  <2>3. \A s \in Speaker : OnAir(s)
    BY <1>1, <1>4 DEF OnAir, Talking
  <2>4. Barge
    BY <1>1, <1>k DEF Barge, Cuts
  <2> QED BY <2>1, <2>2, <2>3, <2>4 DEF OpenInv, OpenNow
<1>6. CourseInv
  <2>1. pc["consumer"] = "idle"
    BY <1>1, <1>k
  <2> HIDE DEF Live
  <2> QED BY <1>1, <1>3, <1>4, <2>1
          DEF CourseInv, EndIn, OneTurn, Spoke, Unsaid, Unheard, Deaf, Leaving
<1>7. FinishInv /\ AnswerInv
  BY <1>1, <1>4 DEF FinishInv, AnswerInv
<1>8. ToneInv
  BY <1>1, <1>4, <1>k DEF ToneInv, ToneOf
<1>9. EndingInv
  BY <1>3 DEF EndingInv
<1> QED BY <1>2, <1>5, <1>6, <1>7, <1>8, <1>9 DEF CallInv

\* Every step keeps it.
LEMMA CallStays ==
  ASSUME TypeOK, Ordinary, CallInv, Next
  PROVE  CallInv'
<1>1. LoopInv'
  BY LoopStays DEF CallInv, Ordinary
<1>2. OpenInv'
  <2>1. CASE Ended
    <3>1. ~(\E t \in Turns : TurnOpens(t))
      BY <2>1, OpensFacts DEF CallInv
    <3>2. Ended'
      BY <2>1, <3>1, EveryArc, EndedStays DEF CallInv
    <3> QED BY <3>2 DEF OpenInv
  <2>2. CASE ~Ended
    <3>1. OpenNow
      BY <2>2 DEF CallInv, OpenInv
    <3>2. Begins("run") \/ Begins("watchdog") => holdTask = None
      BY NoTone DEF CallInv
    <3>3. OpenNow' \/ Ended'
      BY <2>2, <3>1, <3>2, OpenStep DEF CallInv, CourseInv
    <3> QED BY <3>3 DEF OpenInv
  <2> QED BY <2>1, <2>2
<1>3. ASSUME NEW p \in Proc, NEW l \in Label, Arc(p, l)
      PROVE  CourseInv' /\ FinishInv' /\ AnswerInv' /\ ToneInv' /\ EndingInv'
  BY <1>1, <1>3, CourseArc, FinishArc, AnswerArc, ToneArc, EndingArc DEF CallInv
<1>4. Rests => CourseInv' /\ FinishInv' /\ AnswerInv' /\ ToneInv' /\ EndingInv'
  BY CourseRests, FinishRests, AnswerRests, ToneRests, EndingRests DEF CallInv
<1>5. RunStarts => CourseInv' /\ FinishInv' /\ AnswerInv' /\ ToneInv' /\ EndingInv'
  BY CourseStarts, FinishStarts, ToneStarts, EndingStarts DEF CallInv
<1>6. ASSUME NEW t \in Turns, TurnOpens(t)
      PROVE  CourseInv' /\ FinishInv' /\ AnswerInv' /\ ToneInv' /\ EndingInv'
  BY <1>6, CourseOpens, FinishOpens, ToneOpens, EndingOpens DEF CallInv
<1>7. CourseInv' /\ FinishInv' /\ AnswerInv' /\ ToneInv' /\ EndingInv'
  BY <1>3, <1>4, <1>5, <1>6, EveryArc DEF CallInv
<1> QED BY <1>1, <1>2, <1>7 DEF CallInv

\* So does a stuttering step.
LEMMA CallStutters ==
  ASSUME CallInv, UNCHANGED vars
  PROVE  CallInv'
<1>1. /\ UNCHANGED <<state, saved, pc, then, ready, joining, cancelled, play, finished, speaking, audible>>
      /\ UNCHANGED <<hold, holdTask, utterance, idle, turnTask, exchange, inbox, over>>
  BY DEF vars, record, plan, loop, voice, tone, caller, patience
<1>2. LoopInv'
  BY LoopStutters DEF CallInv
<1>3. /\ (Ended' <=> Ended) /\ (Cuts' <=> Cuts) /\ (Asks' <=> Asks)
      /\ \A x : ((Here(x))' <=> Here(x)) /\ ((Leads(x))' <=> Leads(x))
      /\ \A p : ((Live(p))' <=> Live(p)) /\ ((Talking(p))' <=> Talking(p)) /\ ((Begins(p))' <=> Begins(p))
      /\ \A s : (Heard(s))' <=> Heard(s)
      /\ \A x : (In(x, inbox))' <=> In(x, inbox)
      /\ \A x, y : (Ahead(x, y, ready))' <=> Ahead(x, y, ready)
  BY <1>1 DEF Ended, Cuts, Asks, Here, Leads, In, Live, Talking, Begins, Heard, Ahead
<1> HIDE DEF Ended, Cuts, Asks, Here, Leads, In, Live, Talking, Begins, Heard, Ahead
<1>4. OpenInv'
  <2>1. (Underway' <=> Underway) /\ (Floor' <=> Floor) /\ (Barge' <=> Barge)
    BY <1>1, <1>3 DEF Underway, Floor, Barge
  <2>2. ASSUME NEW s \in Speaker PROVE OnAir(s) => (OnAir(s))'
    <3>1. UNCHANGED <<state, idle, utterance, pc, play, finished, audible, speaking, joining>>
      BY <1>1
    <3> QED BY <1>3, <3>1 DEF OnAir
  <2> QED BY <1>3, <2>1, <2>2 DEF CallInv, OpenInv, OpenNow
<1>5. CourseInv'
  BY <1>1, <1>3 DEF CallInv, CourseInv, EndIn, OneTurn, Spoke, Unsaid, Unheard, Deaf, Leaving
<1>6. FinishInv' /\ AnswerInv'
  BY <1>1, <1>3 DEF CallInv, FinishInv, AnswerInv
<1>7. ToneInv'
  BY <1>1, <1>3 DEF CallInv, ToneInv, ToneOf, Held, Prompt
<1>8. EndingInv'
  BY <1>1, <1>3 DEF CallInv, EndingInv, Settled
<1> QED BY <1>2, <1>4, <1>5, <1>6, <1>7, <1>8 DEF CallInv

\* What is true of a call until it is strained.
UntilStrained == ~strained => CallInv /\ \A p \in Proc : ~HeldUp(p)

\* A new call holds nobody up.
LEMMA NoneWaits == Init => \A p \in Proc : ~HeldUp(p)
BY DEF Init, HeldUp

\* Until a step strains the call, the invariant is kept.
LEMMA StrainStays ==
  ASSUME TypeOK, UntilStrained, HNext
  PROVE  UntilStrained'
<1> SUFFICES ASSUME ~strained' PROVE CallInv' /\ \A p \in Proc : ~HeldUp(p)'
  BY DEF UntilStrained
<1>1. ~strained /\ ~Strains /\ Next
  BY DEF HNext
<1>2. CallInv /\ \A p \in Proc : ~HeldUp(p)
  BY <1>1 DEF UntilStrained
<1>3. \A p \in Proc : ~HeldUp(p)'
  BY <1>1 DEF Strains
<1>4. Ordinary
  BY <1>1, <1>2, <1>3 DEF Ordinary, Unhindered, Strains
<1> QED BY <1>1, <1>2, <1>3, <1>4, CallStays

\* A stuttering step keeps it, too.
LEMMA StrainStutters ==
  ASSUME UntilStrained, UNCHANGED hvars
  PROVE  UntilStrained'
<1>1. UNCHANGED vars /\ UNCHANGED <<strained, pc, ready>>
  BY DEF hvars, vars, loop
<1>2. \A p \in Proc : HeldUp(p)' <=> HeldUp(p)
  BY <1>1 DEF HeldUp, Queued
<1> QED BY <1>1, <1>2, CallStutters DEF UntilStrained

\* A call with its history is a call.
LEMMA IsACall == HSpec => Spec
<1>1. HInit => Init
  BY DEF HInit
<1>2. [HNext]_hvars => [Next]_vars
  BY DEF HNext, hvars
<1> QED BY <1>1, <1>2, PTL DEF HSpec, Spec

\* Every call keeps its invariant until a send is held up, audio comes in a backlog or an
\* answer has no words: while the call is open one task has the floor and the line
\* (OpenInv); once hangup() has begun nothing new is heard (EndingInv); the tone belongs
\* to the turn that may yet speak (ToneInv); run() sees the others out before it saves
\* (FinishInv, AnswerInv).
THEOREM CallAlways == HSpec => [](~strained => CallInv)
<1>1. HInit => UntilStrained
  BY InitCall, NoneWaits DEF HInit, UntilStrained
<1>2. TypeOK /\ UntilStrained /\ [HNext]_hvars => UntilStrained'
  BY StrainStays, StrainStutters
<1>3. UntilStrained => (~strained => CallInv)
  BY DEF UntilStrained
<1> QED BY <1>1, <1>2, <1>3, TypeCorrect, IsACall, PTL DEF HSpec

\* Until the call is strained or over no line is spoken over another, nor the tone under
\* a line.
THEOREM OneVoiceAlways ==
  HSpec => []OneVoice
<1>1. (~strained => CallInv) => OneVoice
  <2> SUFFICES ASSUME CallInv, ~over, NEW s \in Speaker, Heard(s)
               PROVE  /\ \A other \in Speaker : Heard(other) => other = s
                      /\ \A t \in Turns : hold[t] # "on"
    BY DEF OneVoice
  <2>1. ~Ended
    BY DEF CallInv, EndingInv
  <2>2. OpenNow
    BY <2>1 DEF CallInv, OpenInv
  <2>3. \A w \in Speaker : Heard(w) => Talking(w) /\ speaking = w
    BY <2>2 DEF OpenNow, OnAir, Heard
  <2>4. state # "thinking"
    BY <2>2, <2>3 DEF OpenNow, OnAir
  <2>5. \A t \in Turns : pc[t] \notin Unspoken
    BY <2>2, <2>4 DEF OpenNow, Floor
  <2>6. \A t \in Turns : hold[t] # "on"
    BY <2>1, <2>5 DEF CallInv, ToneInv, ToneOf, Holding, Unspoken
  <2> QED BY <2>3, <2>6
<1> QED BY <1>1, CallAlways, PTL

\* Until it is strained nobody is left thinking or speaking with no task to end it.
THEOREM AttendedAlways ==
  HSpec => []Attended
<1>1. (~strained => CallInv) => Attended
  <2> SUFFICES ASSUME CallInv
               PROVE  /\ state = "thinking" /\ ~over => \E t \in Turns : Live(t) /\ t \notin cancelled
                      /\ state = "speaking" => \E s \in Speaker : pc[s] \in {"announced", "speaking"}
    BY DEF Attended
  <2>1. state = "speaking" => \E s \in Speaker : pc[s] \in {"announced", "speaking"}
    BY DEF CallInv, CourseInv, Spoke, Talking
  <2>2. ASSUME state = "thinking", ~over
        PROVE  \E t \in Turns : Live(t) /\ t \notin cancelled
    <3>1. ~Ended
      BY <2>2 DEF CallInv, EndingInv
    <3>2. OpenNow
      BY <3>1 DEF CallInv, OpenInv
    <3>3. cancelled = {} /\ \E t \in Turns : pc[t] \in Unspoken
      BY <2>2, <3>2 DEF OpenNow, Underway, Floor
    <3> QED BY <3>3 DEF Live, Unspoken
  <2> QED BY <2>1, <2>2
<1> QED BY <1>1, CallAlways, PTL

\* When run() returns from a call nothing strained no turn is alive and no tone sounds.
THEOREM QuietAlways ==
  HSpec => []QuietAfterFinish
<1>1. TypeOK /\ (~strained => CallInv) => QuietAfterFinish
  <2> SUFFICES ASSUME TypeOK, CallInv, pc["run"] = "done", NEW t \in Turns
               PROVE  hold[t] = "over" /\ ~Live(t)
    BY DEF QuietAfterFinish
  <2>1. (\A u \in Turns : ~Live(u)) /\ ~Live("watchdog") /\ ~Live("consumer")
    BY DEF CallInv, FinishInv
  <2>2. hold[t] # "on"
    BY DEF CallInv, ToneInv, ToneOf, Held
  <2>3. hold[t] # "stopping"
    <3> SUFFICES ASSUME hold[t] = "stopping" PROVE FALSE
      OBVIOUS
    <3>1. PICK p \in Proc : joining[p] = HoldTask(t)
      BY DEF CallInv, ToneInv, ToneOf
    <3>2. MayAwait(p, pc[p], HoldTask(t))
      BY <3>1, Names DEF CallInv, LoopInv, QueueInv, InPlace
    <3>3. pc[p] \in OnHold
      BY <3>2, Names DEF MayAwait
    <3>4. p \notin Turns \cup {"run", "watchdog", "consumer"}
      BY <2>1, <3>3 DEF Live, OnHold
    <3>5. p \in Hanger
      BY <3>4, Kinds
    <3> QED BY <3>3, <3>5 DEF CallInv, LoopInv, RoleInv, Roles, OnHold
  <2> QED BY <2>1, <2>2, <2>3 DEF TypeOK, SoundOK
<1> QED BY <1>1, CallAlways, TypeCorrect, IsACall, PTL

\* No answered exchange is missing from the record that is saved of a call nothing strained.
THEOREM AnswersAlways ==
  HSpec => []AnswersRecorded
<1>1. (~strained => CallInv) => AnswersRecorded
  <2> SUFFICES ASSUME CallInv, saved # {}, NEW t \in Turns, exchange[t] = "answered"
               PROVE  FALSE
    BY DEF AnswersRecorded
  <2>1. ~Live(t)
    BY DEF CallInv, FinishInv
  <2>2. Live(t)
    BY DEF CallInv, AnswerInv, Answering, Live
  <2> QED BY <2>1, <2>2
<1> QED BY <1>1, CallAlways, PTL
=============================================================================
