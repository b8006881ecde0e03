-------------------------------- MODULE Line --------------------------------
(***************************************************************************)
(* One Smartflo call on its socket: the wait for the carrier's start frame *)
(* (api/smartflo.py) and what the session's tasks then put on the wire     *)
(* (telephony/smartflo.py).  A frame goes out under a lock that is held    *)
(* while the socket takes it; the tasks that queue for it may be cancelled *)
(* wherever they wait.                                                     *)
(* A line is what is said, or hummed, in one go: an utterance or a hold    *)
(* tone.  Its audio is counted in units, Frame of which make a media frame.*)
(***************************************************************************)
EXTENDS Naturals, Sequences

CONSTANTS
  None,
  Frame,      \* units in a frame (160 bytes)
  ChunkSizes, \* units the synthesiser may hand over at a time
  MaxChunks,  \* bound: chunks in a line
  MaxLines    \* bound: lines in a call

ASSUME LineAssumption ==
  /\ Frame \in Nat \ {0} /\ ChunkSizes \subseteq Nat \ {0}
  /\ MaxChunks \in Nat /\ MaxLines \in Nat

\* The tasks that write: a line's playback, the hold tone, the turn that speaks and
\* the consumer of the caller's frames.
Writer == {"player", "hold", "talker", "consumer"}

ASSUME NoneAssumption == None \notin Writer

Idle == [at |-> "off"]

VARIABLES
  stage,    \* of the connection
  open,     \* whether the transport still sends
  owner,    \* who holds the lock
  queue,    \* who waits for it, in order
  task,     \* by writer, how far it is
  pending,  \* the units that do not make a frame yet
  seq,      \* the last sequence number taken
  taken,     \* what the socket has taken
  line,     \* the lines begun
  made,     \* by line, the units handed to the transport
  cut       \* the lines that were cut short

lock == <<owner, queue>>
wireVars == <<stage, open, lock, task, pending, seq, taken, line, made, cut>>

LineNos == 1 .. MaxLines

Unit == [line : LineNos, nr : Nat]
FrameSent == [kind : {"media"}, seq : Nat, units : Seq(Unit)]
               \cup [kind : {"clear", "mark"}, seq : Nat, line : LineNos]

\* What a writer does once its call of the transport returns, what it waits to send,
\* and where it may be.
Rest == {Idle} \cup [at : {"renders"}, line : LineNos]
Job == [kind : {"audio"}, units : Seq(Unit), then : Rest]
         \cup [kind : {"clear", "mark"}, line : LineNos, then : {Idle}]
Task == {Idle}
          \cup [at : {"renders", "speaks", "woken", "clears"}, line : LineNos]
          \cup [at : {"waits"}, job : Job]
          \cup [at : {"sends"}, frame : FrameSent, then : Rest]

LineInit ==
  /\ stage = "waiting"
  /\ open = TRUE
  /\ owner = None /\ queue = <<>>
  /\ task = [w \in Writer |-> Idle]
  /\ pending = <<>> /\ seq = 0 /\ taken = <<>>
  /\ line = 0 /\ made = [l \in LineNos |-> 0] /\ cut = {}

-----------------------------------------------------------------------------
(* Before the call: the wait for start, under one deadline, and the routing. *)

Becomes(next) ==
  /\ stage' = next
  /\ UNCHANGED <<open, lock, task, pending, seq, taken, line, made, cut>>

\* A start with a stream id; or none, a stop, a carrier that is gone, no start in time.
Start == stage = "waiting" /\ Becomes("routing")
NoStart == stage = "waiting" /\ Becomes("closed")

\* The number is routed and the line registered, or there is none free.
Routed == stage = "routing" /\ (Becomes("live") \/ Becomes("closed"))

-----------------------------------------------------------------------------
(* The transport. *)

\* A writer that has the lock goes on to the next frame of its audio, or gives the
\* lock to the next in the queue and is "then".  pend are the units it holds.
Release == owner' = (IF queue = <<>> THEN None ELSE Head(queue))
           /\ queue' = (IF queue = <<>> THEN <<>> ELSE Tail(queue))

SendsAudio(w, pend, then) ==
  \/ /\ open /\ Len(pend) >= Frame
     /\ pending' = SubSeq(pend, Frame + 1, Len(pend))
     /\ seq' = seq + 1
     /\ task' = [task EXCEPT ![w] =
          [at |-> "sends", then |-> then,
           frame |-> [kind |-> "media", seq |-> seq + 1, units |-> SubSeq(pend, 1, Frame)]]]
     /\ owner' = w /\ UNCHANGED queue
  \/ /\ ~open \/ Len(pend) < Frame
     /\ pending' = pend
     /\ task' = [task EXCEPT ![w] = then]
     /\ Release
     /\ UNCHANGED seq

\* Mutant: a clear leaves our own remainder.
SendsSignalOnly(w, kind, l, then) ==
  /\ seq' = seq + 1
  /\ UNCHANGED pending
  /\ \/ /\ open
        /\ task' = [task EXCEPT ![w] =
             [at |-> "sends", then |-> then,
              frame |-> [kind |-> kind, seq |-> seq + 1, line |-> l]]]
        /\ owner' = w /\ UNCHANGED queue
     \/ /\ ~open
        /\ task' = [task EXCEPT ![w] = then]
        /\ Release
\* A mark or a clear; a clear takes the units that wait with it.
SendsSignal(w, kind, l, then) ==
  /\ pending' = IF kind = "clear" THEN <<>> ELSE pending
  /\ seq' = seq + 1
  /\ \/ /\ open
        /\ task' = [task EXCEPT ![w] =
             [at |-> "sends", then |-> then,
              frame |-> [kind |-> kind, seq |-> seq + 1, line |-> l]]]
        /\ owner' = w /\ UNCHANGED queue
     \/ /\ ~open
        /\ task' = [task EXCEPT ![w] = then]
        /\ Release

\* Mutant: the remainder goes after the new audio.
WorksNewFirst(w, job) ==
  IF job.kind = "audio" THEN SendsAudio(w, job.units \o pending, job.then)
                        ELSE SendsSignal(w, job.kind, job.line, job.then)
Works(w, job) ==
  IF job.kind = "audio" THEN SendsAudio(w, pending \o job.units, job.then)
                        ELSE SendsSignal(w, job.kind, job.line, job.then)

\* Mutant: a clear does not wait for the lock.
EntersAhead(w, job) ==
  \/ /\ owner = None \/ job.kind = "clear"
     /\ Works(w, job)
  \/ /\ owner # None /\ job.kind # "clear"
     /\ queue' = Append(queue, w)
     /\ task' = [task EXCEPT ![w] = [at |-> "waits", job |-> job]]
     /\ UNCHANGED <<owner, pending, seq>>
\* A call of the transport: at once when the lock is free, in the queue otherwise.
Enters(w, job) ==
  \/ /\ owner = None
     /\ Works(w, job)
  \/ /\ owner # None
     /\ queue' = Append(queue, w)
     /\ task' = [task EXCEPT ![w] = [at |-> "waits", job |-> job]]
     /\ UNCHANGED <<owner, pending, seq>>

\* The lock has come to a writer that waited for it.
Acquires(w) ==
  /\ owner = w /\ task[w].at = "waits"
  /\ Works(w, task[w].job)
  /\ UNCHANGED <<stage, open, taken, line, made, cut>>

\* Mutant: one frame for each chunk, and no more.
SentOnce(w) ==
  /\ task[w].at = "sends"
  /\ taken' = Append(taken, task[w].frame)
  /\ task' = [task EXCEPT ![w] = task[w].then]
  /\ Release
  /\ UNCHANGED <<stage, open, pending, seq, line, made, cut>>
\* The socket takes the frame, and the writer goes on.
Sent(w) ==
  /\ task[w].at = "sends"
  /\ taken' = Append(taken, task[w].frame)
  /\ IF task[w].frame.kind = "media"
       THEN SendsAudio(w, pending, task[w].then)
       ELSE /\ task' = [task EXCEPT ![w] = task[w].then]
            /\ Release
            /\ UNCHANGED <<pending, seq>>
  /\ UNCHANGED <<stage, open, line, made, cut>>

\* The socket fails: the transport is closed for good.
SendFails(w) ==
  /\ task[w].at = "sends"
  /\ open' = FALSE
  /\ task' = [task EXCEPT ![w] = task[w].then]
  /\ Release
  /\ UNCHANGED <<stage, pending, seq, taken, line, made, cut>>

\* A queue without one that waits in it.
Left(q, w) ==
  IF \E i \in 1 .. Len(q) : q[i] = w
    THEN LET i == CHOOSE i \in 1 .. Len(q) : q[i] = w IN
         SubSeq(q, 1, i - 1) \o SubSeq(q, i + 1, Len(q))
    ELSE q

\* Of writers that are cancelled, the one the socket was taking a frame from may have
\* got it out or not.
MayBeOut(ws) ==
  taken' \in {taken} \cup {Append(taken, task[w].frame) : w \in {v \in ws : task[v].at = "sends"}}

\* A writer is cancelled, wherever it waits: with the lock, for it, or elsewhere.
Cancelled(w) ==
  /\ MayBeOut({w})
  /\ \/ owner = w /\ Release
     \/ owner # w /\ owner' = owner /\ queue' = Left(queue, w)

-----------------------------------------------------------------------------
(* The session's use of it. *)

Live == stage = "live"
Voice(w) == task[w].at # "off"

\* Whoever a cancelled playback woke has moved on before anything new begins.
Settled == task["consumer"].at # "clears"

\* The hold tone under a turn's thinking.
StartHold ==
  /\ Live /\ Settled /\ line < MaxLines
  /\ ~Voice("talker") /\ ~Voice("hold")
  /\ line' = line + 1
  /\ task' = [task EXCEPT !["hold"] = [at |-> "renders", line |-> line']]
  /\ UNCHANGED <<stage, open, lock, pending, seq, taken, made, cut>>

\* _speak: the hold tone is cancelled and waited for, and the playback begins.
Speak ==
  /\ Live /\ Settled /\ line < MaxLines
  /\ ~Voice("talker")
  /\ line' = line + 1
  /\ Cancelled("hold")
  /\ task' = [task EXCEPT !["hold"] = Idle,
                          !["player"] = [at |-> "renders", line |-> line'],
                          !["talker"] = [at |-> "speaks", line |-> line']]
  /\ cut' = IF Voice("hold") THEN cut \cup {line} ELSE cut
  /\ UNCHANGED <<stage, open, pending, seq, made>>

Chunk(l, n) == [i \in 1 .. n |-> [line |-> l, nr |-> made[l] + i]]

\* A chunk of the line is handed to the transport, which drops it once closed.
Hands(w, n) ==
  LET l == task[w].line IN
  /\ task[w].at = "renders"
  /\ made[l] + n <= MaxChunks * Frame
  /\ open
  /\ made' = [made EXCEPT ![l] = @ + n]
  /\ Enters(w, [kind |-> "audio", units |-> Chunk(l, n), then |-> task[w]])
  /\ UNCHANGED <<stage, open, taken, line, cut>>

Renders == \E n \in ChunkSizes : Hands("player", n)
Hums == Hands("hold", Frame)

\* The playback is over, its line said or the synthesiser failed.
PlayEnds ==
  /\ task["player"].at = "renders"
  /\ task' = [task EXCEPT !["player"] = Idle, !["talker"].at = "woken"]
  /\ UNCHANGED <<stage, open, lock, pending, seq, taken, line, made, cut>>

\* The caller interrupts a line they have heard something of, once, since the call
\* listens afterwards: its playback is cancelled and waited for, which wakes the
\* talker too, before the clear.
BargeIn ==
  LET l == task["talker"].line IN
  /\ Live
  /\ task["talker"].at \in {"speaks", "woken"}
  /\ made[l] > 0 /\ l \notin cut /\ ~Voice("consumer")
  /\ \/ /\ Voice("player")
        /\ Cancelled("player")
        /\ task' = [task EXCEPT !["player"] = Idle, !["talker"].at = "woken",
                                !["consumer"] = [at |-> "clears", line |-> l]]
        /\ cut' = cut \cup {l}
        /\ UNCHANGED <<pending, seq>>
     \/ /\ ~Voice("player")
        /\ Enters("consumer", [kind |-> "clear", line |-> l, then |-> Idle])
        /\ cut' = cut \cup {l}
        /\ UNCHANGED taken
  /\ UNCHANGED <<stage, open, line, made>>

Clears ==
  /\ task["consumer"].at = "clears"
  /\ Enters("consumer", [kind |-> "clear", line |-> task["consumer"].line, then |-> Idle])
  /\ UNCHANGED <<stage, open, taken, line, made, cut>>

\* speech_end, from the task that spoke.
SpeechEnds ==
  /\ task["talker"].at = "woken"
  /\ Enters("talker", [kind |-> "mark", line |-> task["talker"].line, then |-> Idle])
  /\ UNCHANGED <<stage, open, taken, line, made, cut>>

\* The turn is superseded by the caller's next while its mark waits.
Superseded ==
  /\ Live /\ ~Voice("player") /\ ~Voice("consumer")
  /\ task["talker"].at \in {"waits", "sends"}
  /\ Cancelled("talker")
  /\ task' = [task EXCEPT !["talker"] = Idle]
  /\ UNCHANGED <<stage, open, pending, seq, line, made, cut>>

\* Either side ends the call: the session cancels the hold tone, ...
Finishes ==
  /\ Live
  /\ stage' = "finishing"
  /\ Cancelled("hold")
  /\ task' = [task EXCEPT !["hold"] = Idle]
  /\ cut' = IF Voice("hold") THEN cut \cup {line} ELSE cut
  /\ UNCHANGED <<open, pending, seq, line, made>>

\* ... the playback, which wakes the talker, ...
FinishesPlayback ==
  /\ stage = "finishing" /\ Voice("player")
  /\ Cancelled("player")
  /\ task' = [task EXCEPT !["player"] = Idle, !["talker"].at = "woken"]
  /\ cut' = cut \cup {line}
  /\ UNCHANGED <<stage, open, pending, seq, line, made>>

\* ... then every other task, and the transport is closed.
Closes ==
  /\ stage = "finishing" /\ ~Voice("player")
  /\ stage' = "closed"
  /\ open' = FALSE
  /\ MayBeOut(Writer)
  /\ owner' = None /\ queue' = <<>>
  /\ task' = [w \in Writer |-> Idle]
  /\ UNCHANGED <<pending, seq, line, made, cut>>

LineNext ==
  \/ Start \/ NoStart \/ Routed
  \/ \E w \in Writer : Acquires(w) \/ Sent(w) \/ SendFails(w)
  \/ StartHold \/ Speak \/ Renders \/ Hums \/ PlayEnds
  \/ BargeIn \/ Clears \/ SpeechEnds \/ Superseded \/ Finishes \/ FinishesPlayback \/ Closes

LineSpec == LineInit /\ [][LineNext]_wireVars

-----------------------------------------------------------------------------
LineTypeOK ==
  /\ stage \in {"waiting", "routing", "live", "finishing", "closed"}
  /\ open \in BOOLEAN
  /\ owner \in Writer \cup {None} /\ queue \in Seq(Writer)
  /\ task \in [Writer -> Task]
  /\ pending \in Seq(Unit) /\ seq \in Nat
  /\ taken \in Seq(FrameSent)
  /\ line \in 0 .. MaxLines /\ made \in [LineNos -> Nat] /\ cut \subseteq 0 .. MaxLines

\* Frames reach the carrier in the order of their sequence numbers, whatever is
\* cancelled or queues while the socket is slow ("the carrier then sees sequence
\* numbers out of order").
SequenceKept == \A i, j \in DOMAIN taken : i < j => taken[i].seq < taken[j].seq

Before(x, y) == x.line < y.line \/ (x.line = y.line /\ x.nr < y.nr)
Media == {i \in DOMAIN taken : taken[i].kind = "media"}

\* The caller hears no unit twice and none out of order, within a line or across
\* two of them.
AudioInOrder ==
  /\ \A i \in Media : \A m, n \in DOMAIN taken[i].units :
       m < n => Before(taken[i].units[m], taken[i].units[n])
  /\ \A i, j \in Media : i < j =>
       \A m \in DOMAIN taken[i].units, n \in DOMAIN taken[j].units :
         Before(taken[i].units[m], taken[j].units[n])

\* A clear cuts cleanly: it follows whatever was sent of the line it interrupts, and
\* nothing of that line follows it, its own remainder included; nor does it come
\* after audio of the next line, which it would take with it.
ClearCutsClean ==
  \A c \in DOMAIN taken : taken[c].kind = "clear" =>
    \A i \in Media : \A n \in DOMAIN taken[i].units :
      IF i < c THEN taken[i].units[n].line <= taken[c].line
               ELSE taken[i].units[n].line > taken[c].line

\* How many units of a line are among the first frames taken.
Heard(l, upTo) ==
  {u \in [line : {l}, nr : 1 .. made[l]] :
     \E i \in Media : i <= upTo /\ \E n \in DOMAIN taken[i].units : taken[i].units[n] = u}

\* The mark of a line that was not cut short follows its audio but for less than a
\* frame: what its echo confirms has been played.
MarkClosesLine ==
  \A c \in DOMAIN taken : taken[c].kind = "mark" /\ taken[c].line \notin cut =>
    \A nr \in 1 .. made[taken[c].line] :
      made[taken[c].line] - nr >= Frame - 1 =>
        \E u \in Heard(taken[c].line, c) : u.nr = nr
=============================================================================
