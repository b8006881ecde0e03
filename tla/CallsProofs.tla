---------------------------- MODULE CallsProofs ----------------------------
(***************************************************************************)
(* Theorems about Calls, for any set of lines, however they come, any cap, *)
(* and whatever goes wrong on a line; and about Line, one of those calls   *)
(* on its wire, for frames and chunks of any size.                         *)
(***************************************************************************)
EXTENDS Calls, Line, FiniteSetTheorems, SequenceTheorems, TLAPS

LEMMA LatestType ==
  ASSUME NEW S, NEW s \in Seq(S), NEW n \in Nat
  PROVE  Latest(s, n) \in Seq(S)
<1>1. Len(s) \in Nat
  BY LenProperties
<1>2. CASE Len(s) > n
  <2>1. Len(s) - n + 1 \in 1..Len(s) + 1
    BY <1>1, <1>2
  <2>2. SubSeq(s, Len(s) - n + 1, Len(s)) \in Seq(S)
    BY <1>1, <1>2, <2>1, SubSeqProperties
  <2> QED BY <1>2, <2>2 DEF Latest
<1>3. CASE ~(Len(s) > n)
  BY <1>1, <1>3, SubSeqProperties DEF Latest
<1> QED
  BY <1>2, <1>3

\* A hangup touches two things, and keeps their types.
LEMMA HangUpTypes ==
  ASSUME TypeOK, NEW l \in Lines,
         NEW who \in {"session", "route", "operator", "drain"}, HangUp(l, who)
  PROVE  /\ ended' \in [Lines -> BOOLEAN]
         /\ hanging' \in [Lines -> {"none", "session", "route", "operator", "drain"}]
<1>1. ended' = ended \/ ended' = [ended EXCEPT ![l] = TRUE]
  BY DEF HangUp
<1>2. hanging' = hanging \/ hanging' = [hanging EXCEPT ![l] = who]
  BY DEF HangUp
<1>3. ended \in [Lines -> BOOLEAN]
      /\ hanging \in [Lines -> {"none", "session", "route", "operator", "drain"}]
  BY DEF TypeOK
<1>4. ended' \in [Lines -> BOOLEAN]
  BY <1>1, <1>3
<1>5. hanging' \in [Lines -> {"none", "session", "route", "operator", "drain"}]
  BY <1>2, <1>3
<1> QED
  BY <1>4, <1>5

\* run() reaching its finally keeps the types.
LEMMA FinishingTypes ==
  ASSUME TypeOK, NEW l \in Lines, Finishing(l)
  PROVE  /\ session' \in [Lines -> {"none", "running", "finishing", "over"}]
         /\ wedged' \in [Lines -> BOOLEAN]
         /\ hanging' \in [Lines -> {"none", "session", "route", "operator", "drain"}]
BY DEF Finishing, TypeOK

LEMMA ManagerTypes ==
  ASSUME TypeOK, NEW l \in Lines, Register(l) \/ Unregister(l)
  PROVE  live' \subseteq Lines /\ history' \in Seq(Lines) /\ total' \in Nat
<1>1. Append(history, l) \in Seq(Lines)
  BY AppendProperties DEF TypeOK
<1>2. Latest(Append(history, l), HistorySize) \in Seq(Lines)
  BY <1>1, LatestType, HistoryAssumption
<1> QED
  BY <1>2 DEF Register, Unregister, TypeOK

LEMMA SessionStepTypes ==
  ASSUME TypeOK, NEW l \in Lines, SessionStep(l)
  PROVE  TypeOK'
<1> USE DEF modeVars, managerVars
<1>1. CASE SessionHangsUp(l)
  <2>1. /\ ended' \in [Lines -> BOOLEAN]
        /\ hanging' \in [Lines -> {"none", "session", "route", "operator", "drain"}]
    BY <1>1, HangUpTypes DEF SessionHangsUp
  <2> QED BY <1>1, <2>1 DEF SessionHangsUp, TypeOK
<1>2. CASE Wedge(l)
  BY <1>2 DEF Wedge, TypeOK
<1>3. CASE Unwedge(l)
  BY <1>3 DEF Unwedge, TypeOK
<1>4. CASE Backlog(l)
  BY <1>4 DEF Backlog, TypeOK
<1>5. CASE Consume(l)
  BY <1>5 DEF Consume, TypeOK
<1>6. CASE RunEnds(l)
  <2>1. Finishing(l)
    BY <1>6 DEF RunEnds
  <2> QED BY <1>6, <2>1, FinishingTypes DEF RunEnds, TypeOK
<1>7. CASE RunReturns(l)
  BY <1>7 DEF RunReturns, TypeOK
<1> QED
  BY <1>1, <1>2, <1>3, <1>4, <1>5, <1>6, <1>7 DEF SessionStep

LEMMA RouteStepTypes ==
  ASSUME TypeOK, NEW l \in Lines, RouteStep(l)
  PROVE  TypeOK'
<1> USE DEF modeVars, managerVars, Goes, Serve, Route
<1>1. CASE Connects(l) \/ NeverStarts(l)
  BY <1>1 DEF Connects, NeverStarts, TypeOK
<1>2. CASE Admitted(l)
  <2>1. live' \subseteq Lines /\ history' \in Seq(Lines) /\ total' \in Nat
    BY <1>2, ManagerTypes DEF Admitted
  <2> QED BY <1>2, <2>1 DEF Admitted, TypeOK
<1>3. CASE CallStarts(l)
  BY <1>3 DEF CallStarts, TypeOK
<1>4. CASE Refused(l)
  <2>1. CASE Via[l] = "asterisk"
    <3>1. live' \subseteq Lines /\ history' \in Seq(Lines) /\ total' \in Nat
      BY <1>4, <2>1, ManagerTypes DEF Refused
    <3>2. /\ ended' \in [Lines -> BOOLEAN]
          /\ hanging' \in [Lines -> {"none", "session", "route", "operator", "drain"}]
      BY <1>4, <2>1, HangUpTypes DEF Refused
    <3> QED BY <1>4, <3>1, <3>2 DEF Refused, TypeOK
  <2>2. CASE Via[l] # "asterisk"
    BY <1>4, <2>2 DEF Refused, TypeOK
  <2> QED BY <2>1, <2>2
<1>5. CASE CallerLeaves(l)
  BY <1>5 DEF CallerLeaves, TypeOK
<1>6. CASE RouteHangsUp(l)
  <2>1. /\ ended' \in [Lines -> BOOLEAN]
        /\ hanging' \in [Lines -> {"none", "session", "route", "operator", "drain"}]
    BY <1>6, HangUpTypes DEF RouteHangsUp
  <2> QED BY <1>6, <2>1 DEF RouteHangsUp, TypeOK
<1>7. CASE Unblocks(l) \/ GivesUpHangup(l)
  BY <1>7 DEF Unblocks, GivesUpHangup, TypeOK
<1>8. CASE CancelsSession(l)
  <2>1. CASE Finishing(l)
    BY <1>8, <2>1, FinishingTypes DEF CancelsSession, TypeOK
  <2>2. CASE ~Finishing(l)
    BY <1>8, <2>2 DEF CancelsSession, TypeOK
  <2> QED BY <2>1, <2>2
<1>9. CASE Releases(l)
  <2>1. live' \subseteq Lines /\ history' \in Seq(Lines) /\ total' \in Nat
    BY <1>9, ManagerTypes DEF Releases
  <2> QED BY <1>9, <2>1 DEF Releases, TypeOK
<1> QED
  BY <1>1, <1>2, <1>3, <1>4, <1>5, <1>6, <1>7, <1>8, <1>9 DEF RouteStep

LEMMA OtherStepTypes ==
  ASSUME TypeOK, \/ \E l \in Lines : OperatorHangsUp(l)
                 \/ StopAnswering \/ DrainStep \/ UNCHANGED vars
  PROVE  TypeOK'
<1> USE DEF modeVars, managerVars, lineVars, Mode
<1>1. ASSUME NEW l \in Lines, OperatorHangsUp(l) PROVE TypeOK'
  <2>1. /\ ended' \in [Lines -> BOOLEAN]
        /\ hanging' \in [Lines -> {"none", "session", "route", "operator", "drain"}]
    BY <1>1, HangUpTypes DEF OperatorHangsUp
  <2> QED BY <1>1, <2>1 DEF OperatorHangsUp, TypeOK
<1>2. ASSUME NEW l \in Lines, DrainHangsUp(l) PROVE TypeOK'
  <2>1. /\ ended' \in [Lines -> BOOLEAN]
        /\ hanging' \in [Lines -> {"none", "session", "route", "operator", "drain"}]
    BY <1>2, HangUpTypes DEF DrainHangsUp
  <2> QED BY <1>2, <2>1 DEF DrainHangsUp, TypeOK
<1>3. CASE StopAnswering
  BY <1>3 DEF StopAnswering, TypeOK
<1>4. CASE DrainStarts
  BY <1>4 DEF DrainStarts, TypeOK
<1>5. CASE DrainGivesUp
  BY <1>5 DEF DrainGivesUp, TypeOK
<1>6. CASE DrainEnds
  BY <1>6 DEF DrainEnds, TypeOK
<1>7. CASE UNCHANGED vars
  BY <1>7 DEF vars, TypeOK
<1> QED
  BY <1>1, <1>2, <1>3, <1>4, <1>5, <1>6, <1>7 DEF DrainStep

\* The registry and its routes keep their types.
THEOREM CallsTyped == Spec => []TypeOK
<1>1. Init => TypeOK
  BY DEF Init, TypeOK, Route, Mode
<1>2. TypeOK /\ [Next]_vars => TypeOK'
  BY SessionStepTypes, RouteStepTypes, OtherStepTypes DEF Next
<1> QED
  BY <1>1, <1>2, PTL DEF Spec

-----------------------------------------------------------------------------
(* Nothing runs that is not on the list, and the list keeps to the cap.    *)

\* What a line's place on the list says of its route and session, and what its
\* route's progress says of its session.
Served == \A l \in Lines :
  /\ l \in live <=> route[l] \in Held
  /\ session[l] \in {"running", "finishing"} => l \in live
  /\ route[l] \in {"idle", "accepted", "registered"} => session[l] = "none"

Capped == IsFiniteSet(live) /\ Cardinality(live) <= Max

CallsInv == TypeOK /\ Served /\ Capped

\* A step of one line that leaves the list alone.
LEMMA LineServed ==
  ASSUME CallsInv, NEW l \in Lines, UNCHANGED live,
         \A k \in Lines \ {l} : route'[k] = route[k] /\ session'[k] = session[k],
         route[l] \in Held <=> route'[l] \in Held,
         session'[l] \in {"running", "finishing"} =>
           session[l] \in {"running", "finishing"} \/ route[l] \in Held,
         route'[l] \in {"idle", "accepted", "registered"} => session'[l] = "none"
  PROVE  Served' /\ Capped'
BY DEF CallsInv, Served, Capped

\* The list shrinks by a line whose route is done with it.
LEMMA ReleaseServed ==
  ASSUME CallsInv, NEW l \in Lines, live' = live \ {l}, UNCHANGED session,
         route' = [route EXCEPT ![l] = "gone"],
         session[l] \in {"none", "over"}
  PROVE  Served' /\ Capped'
<1>1. Served'
  BY DEF CallsInv, TypeOK, Served, Held
<1>2. IsFiniteSet(live') /\ Cardinality(live') <= Cardinality(live)
  BY FS_Subset DEF CallsInv, Capped
<1>3. Cardinality(live) \in Nat /\ Cardinality(live') \in Nat
  BY <1>2, FS_CardinalityType DEF CallsInv, Capped
<1> QED
  BY <1>1, <1>2, <1>3, MaxAssumption DEF CallsInv, Capped

LEMMA SessionStepServed ==
  ASSUME CallsInv, NEW l \in Lines, SessionStep(l)
  PROVE  Served' /\ Capped'
<1>1. /\ UNCHANGED <<live, route>>
      /\ \A k \in Lines \ {l} : session'[k] = session[k]
      /\ session'[l] \in {"running", "finishing"} => session[l] \in {"running", "finishing"}
      /\ session[l] = "none" => session'[l] = "none"
  BY DEF SessionStep, SessionHangsUp, Wedge, Unwedge, Backlog, Consume, RunEnds, RunReturns,
         Finishing, Consumed, managerVars, CallsInv, TypeOK
<1> QED
  BY <1>1, LineServed DEF CallsInv, Served

LEMMA RouteStepServed ==
  ASSUME CallsInv, NEW l \in Lines, RouteStep(l)
  PROVE  Served' /\ Capped'
<1> USE DEF Goes, Held, managerVars
<1>1. route \in [Lines -> Route] /\ session \in [Lines -> {"none", "running", "finishing", "over"}]
  BY DEF CallsInv, TypeOK
<1>2. CASE Connects(l) \/ NeverStarts(l)
  <2>1. session[l] = "none"
    BY <1>2 DEF Connects, NeverStarts, CallsInv, Served
  <2> QED BY <1>1, <1>2, <2>1, LineServed DEF Connects, NeverStarts
<1>3. CASE Admitted(l)
  <2>1. /\ live' = live \cup {l} /\ ~(Cardinality(live) >= Max)
        /\ \A k \in Lines \ {l} : route'[k] = route[k] /\ session'[k] = session[k]
        /\ \/ route'[l] = "registered" /\ session'[l] = session[l]
           \/ route'[l] = "serving" /\ session'[l] = "running"
        /\ session[l] = "none"
    BY <1>1, <1>3 DEF Admitted, Register, AtCapacity, Serve, CallsInv, Served
  <2>2. Served'
    BY <2>1 DEF CallsInv, Served
  <2>3. IsFiniteSet(live') /\ (Cardinality(live') = Cardinality(live) \/ Cardinality(live') = Cardinality(live) + 1)
    BY <2>1, FS_AddElement DEF CallsInv, Capped
  <2>4. Cardinality(live) \in Nat /\ Cardinality(live) < Max
    BY <2>1, MaxAssumption, FS_CardinalityType DEF CallsInv, Capped
  <2> QED BY <2>2, <2>3, <2>4, MaxAssumption DEF Capped
<1>4. CASE CallStarts(l)
  <2>1. /\ UNCHANGED live /\ route[l] = "registered"
        /\ \A k \in Lines \ {l} : route'[k] = route[k] /\ session'[k] = session[k]
        /\ route'[l] = "serving"
    BY <1>1, <1>4 DEF CallStarts, Serve
  <2> QED BY <2>1, LineServed
<1>5. CASE Refused(l)
  <2>1. /\ session[l] = "none" /\ l \notin live /\ UNCHANGED session
        /\ route' = [route EXCEPT ![l] = "gone"]
    BY <1>5 DEF Refused, CallsInv, Served
  <2>2. live' = live \ {l}
    BY <1>5, <2>1 DEF Refused, Unregister
  <2> QED BY <2>1, <2>2, ReleaseServed
<1>6. CASE CallerLeaves(l)
  BY <1>6, LineServed DEF CallerLeaves, CallsInv, Served
<1>7. CASE RouteHangsUp(l) \/ Unblocks(l) \/ GivesUpHangup(l)
  <2>1. UNCHANGED <<live, session>>
    BY <1>7 DEF RouteHangsUp, Unblocks, GivesUpHangup
  <2>2. CASE route' = route
    BY <2>1, <2>2, LineServed DEF CallsInv, Served
  <2>3. CASE route[l] \in Held /\ \E p \in Held \ {"registered"} : route' = [route EXCEPT ![l] = p]
    BY <1>1, <2>1, <2>3, LineServed
  <2> QED BY <1>7, <2>2, <2>3 DEF RouteHangsUp, Unblocks, GivesUpHangup
<1>8. CASE CancelsSession(l)
  <2>1. /\ UNCHANGED live /\ route[l] = "waiting" /\ route'[l] = "cancelling"
        /\ \A k \in Lines \ {l} : route'[k] = route[k] /\ session'[k] = session[k]
    BY <1>1, <1>8 DEF CancelsSession, Finishing
  <2> QED BY <2>1, LineServed
<1>9. CASE Releases(l)
  BY <1>9, ReleaseServed DEF Releases, Unregister
<1> QED
  BY <1>2, <1>3, <1>4, <1>5, <1>6, <1>7, <1>8, <1>9 DEF RouteStep

LEMMA CallsInvNext == CallsInv /\ [Next]_vars => CallsInv'
<1> SUFFICES ASSUME CallsInv, [Next]_vars
             PROVE  CallsInv'
  OBVIOUS
<1>1. TypeOK'
  BY SessionStepTypes, RouteStepTypes, OtherStepTypes DEF Next, CallsInv
<1>2. CASE \/ \E l \in Lines : OperatorHangsUp(l)
           \/ StopAnswering \/ DrainStep \/ UNCHANGED vars
  <2>1. UNCHANGED <<live, route, session>>
    BY <1>2 DEF OperatorHangsUp, StopAnswering, DrainStep, DrainStarts, DrainGivesUp, DrainEnds,
                DrainHangsUp, vars, managerVars, lineVars
  <2> QED BY <1>1, <2>1 DEF CallsInv, Served, Capped
<1> QED
  BY <1>1, <1>2, SessionStepServed, RouteStepServed DEF Next, CallsInv

LEMMA CallsInvAlways == Spec => []CallsInv
<1>1. Init => CallsInv
  <2>1. Init => TypeOK
    BY DEF Init, TypeOK, Route, Mode
  <2>2. Init => Served
    BY DEF Init, Served, Held
  <2>3. Init => Capped
    BY FS_EmptySet, MaxAssumption DEF Init, Capped
  <2> QED BY <2>1, <2>2, <2>3 DEF CallsInv
<1> QED
  BY <1>1, CallsInvNext, PTL DEF Spec

\* Every session that runs or finishes is on the list of live calls, and every
\* call on the list has a route that will free its line.
THEOREM LivesAreServed == Spec => []LiveIsServed
<1>1. ASSUME CallsInv PROVE LiveIsServed
  <2>1. live \subseteq Lines
    BY <1>1 DEF CallsInv, TypeOK
  <2>2. Served
    BY <1>1 DEF CallsInv
  <2> QED BY <2>1, <2>2 DEF Served, LiveIsServed, Occupied, Held
<1> QED
  BY <1>1, CallsInvAlways, PTL

\* No more calls than the cap, however many lines ring and however they end: the
\* cap on the list is one on the sessions, since none of them is off the list.
THEOREM CapacityHolds == Spec => []CapacityKept
<1>1. CallsInv => CapacityKept
  <2>1. CallsInv => Occupied \cup live = live
    BY DEF CallsInv, Served, Occupied, Held
  <2> QED BY <2>1 DEF CallsInv, Capped, CapacityKept
<1> QED
  BY <1>1, CallsInvAlways, PTL

-----------------------------------------------------------------------------
(* The lock: who holds it, who waits for it, in what order. *)

\* Where a writer waits: for the lock, or for the socket.
Waits(w) == task[w].at = "waits"
Sends(w) == task[w].at = "sends"

\* The lock as asyncio keeps it: held by one that waits for its turn to come round or sends;
\* whoever else waits is queued once, and only the holder sends.
LockKept ==
  /\ owner = None => queue = <<>>
  /\ owner # None => Waits(owner) \/ Sends(owner)
  /\ \A i, j \in 1 .. Len(queue) : queue[i] = queue[j] => i = j
  /\ \A i \in 1 .. Len(queue) : queue[i] # owner /\ Waits(queue[i])
  /\ \A w \in Writer : Waits(w) => w = owner \/ \E i \in 1 .. Len(queue) : queue[i] = w
  /\ \A w \in Writer : Sends(w) => w = owner

\* Where both queue, a is before b.
InTurn(a, b) == \A i, j \in 1 .. Len(queue) : queue[i] = a /\ queue[j] = b => i < j

\* Where both wait for the lock, a has it before b.
Precedes(a, b) == Waits(a) /\ Waits(b) => b # owner /\ InTurn(a, b)

LockTyped == owner \in Writer \cup {None} /\ queue \in Seq(Writer)

\* Nobody but w begins or ends to wait for the lock or to send.
Apart(w) == \A v \in Writer \ {w} : (Waits(v)' <=> Waits(v)) /\ (Sends(v)' <=> Sends(v))

\* The holder lets go of the lock, takes it, or joins the queue: it stays as asyncio keeps
\* it, and those that waited keep their turns.
LEMMA LockReleased ==
  ASSUME LockTyped, LockKept, NEW w \in Writer, owner \in {w, None}, Release,
         ~Waits(w)', ~Sends(w)', Apart(w)
  PROVE  /\ LockTyped' /\ LockKept'
         /\ \A a, b \in Writer : a # b /\ Precedes(a, b) => Precedes(a, b)'
<1>1. CASE queue = <<>>
  <2>1. owner' = None /\ queue' = <<>>
    BY <1>1 DEF Release
  <2>2. \A v \in Writer : Waits(v) \/ Sends(v) => v = owner
    BY <1>1 DEF LockKept
  <2>3. \A v \in Writer : ~Waits(v)' /\ ~Sends(v)'
    BY <2>2, NoneAssumption DEF Apart
  <2> QED
    BY <2>1, <2>3 DEF LockTyped, LockKept, Precedes
<1>2. CASE queue # <<>>
  <2> DEFINE n == Len(queue)
  <2>1. /\ n \in Nat \ {0} /\ queue \in [1 .. n -> Writer]
        /\ owner' = queue[1] /\ queue' = Tail(queue)
        /\ queue' \in Seq(Writer) /\ Len(queue') = n - 1
        /\ \A i \in 1 .. n - 1 : queue'[i] = queue[i + 1]
    BY <1>2, HeadTailProperties, EmptySeq, LenProperties DEF Release, LockTyped
  <2>2. owner = w /\ LockTyped'
    BY <1>2, <2>1 DEF LockKept, LockTyped
  <2>3. \A i \in 1 .. n : queue[i] # w /\ Waits(queue[i])
    BY <2>2 DEF LockKept
  <2>4. Waits(owner)'
    <3>1. 1 \in 1 .. n
      BY <2>1
    <3>2. queue[1] \in Writer \ {w} /\ Waits(queue[1])
      BY <3>1, <2>3, <2>1
    <3> QED BY <3>2, <2>1 DEF Apart, Waits
  <2>5. \A i, j \in 1 .. n - 1 : queue'[i] = queue'[j] => i = j
    <3> TAKE i, j \in 1 .. n - 1
    <3>1. i + 1 \in 1 .. n /\ j + 1 \in 1 .. n
      BY <2>1
    <3>2. queue[i + 1] = queue[j + 1] => i + 1 = j + 1
      BY <3>1 DEF LockKept
    <3> QED BY <3>2, <2>1
  <2>6. \A i \in 1 .. n - 1 : queue'[i] # owner' /\ task'[queue'[i]].at = "waits"
    <3> TAKE i \in 1 .. n - 1
    <3>1. i + 1 \in 1 .. n /\ 1 \in 1 .. n /\ i + 1 # 1
      BY <2>1
    <3>2. queue[i + 1] # queue[1]
      BY <3>1 DEF LockKept
    <3>3. queue[i + 1] \in Writer \ {w} /\ Waits(queue[i + 1])
      BY <3>1, <2>3, <2>1
    <3>4. task'[queue[i + 1]].at = "waits"
      BY <3>3, <2>1 DEF Apart, Waits
    <3> QED BY <3>2, <3>4, <2>1
  <2>7. \A v \in Writer : Waits(v)' => v = owner' \/ \E i \in 1 .. n - 1 : queue'[i] = v
    <3> SUFFICES ASSUME NEW v \in Writer, Waits(v)'
                 PROVE  v = owner' \/ \E i \in 1 .. n - 1 : queue'[i] = v
      OBVIOUS
    <3>1. v # w /\ Waits(v)
      BY DEF Apart
    <3>2. PICK i \in 1 .. n : queue[i] = v
      BY <3>1, <2>2 DEF LockKept
    <3>3. CASE i = 1
      BY <3>2, <3>3, <2>1
    <3>4. CASE i # 1
      <4>1. i - 1 \in 1 .. n - 1 /\ (i - 1) + 1 = i
        BY <3>4, <2>1
      <4> QED BY <4>1, <3>2, <2>1
    <3> QED BY <3>3, <3>4
  <2>8. \A v \in Writer : Sends(v)' => v = owner'
    BY <2>2 DEF LockKept, Apart
  <2>9. LockKept'
    <3>1. owner' # None
      BY <2>1, NoneAssumption, EmptySeq DEF LockTyped
    <3>2. \A i \in 1 .. Len(queue') : queue'[i] # owner' /\ Waits(queue[i])'
      BY <2>6, <2>1 DEF Waits
    <3> QED BY <3>1, <3>2, <2>1, <2>4, <2>5, <2>7, <2>8 DEF LockKept, Waits
  <2>10. ASSUME NEW a \in Writer, NEW b \in Writer, InTurn(a, b)
         PROVE  InTurn(a, b)'
    <3> SUFFICES ASSUME NEW i \in 1 .. n - 1, NEW j \in 1 .. n - 1,
                        queue'[i] = a, queue'[j] = b
                 PROVE  i < j
      BY <2>1 DEF InTurn
    <3>1. i + 1 \in 1 .. n /\ j + 1 \in 1 .. n
      BY <2>1
    <3>2. i + 1 < j + 1
      BY <3>1, <2>1, <2>10 DEF InTurn
    <3> QED BY <3>2
  <2>11. ASSUME NEW a \in Writer, NEW b \in Writer, a # b, Precedes(a, b), Waits(a)', Waits(b)'
         PROVE  b # owner' /\ InTurn(a, b)'
    <3>1. a # w /\ b # w /\ Waits(a) /\ Waits(b)
      BY <2>11 DEF Apart
    <3>2. InTurn(a, b)
      BY <3>1, <2>11 DEF Precedes
    <3>3. PICK i \in 1 .. n : queue[i] = a
      BY <3>1, <2>2 DEF LockKept
    <3>4. b = queue[1] => FALSE
      <4>1. 1 \in 1 .. n
        BY <2>1
      <4> QED BY <3>2, <3>3, <4>1, <2>1 DEF InTurn
    <3> QED BY <3>2, <3>4, <2>1, <2>10
  <2> QED
    BY <2>2, <2>9, <2>11 DEF Precedes
<1> QED
  BY <1>1, <1>2

LEMMA LockGrabbed ==
  ASSUME LockTyped, LockKept, NEW w \in Writer, owner \in {w, None},
         owner' = w, queue' = queue, Sends(w)', Apart(w)
  PROVE  /\ LockTyped' /\ LockKept'
         /\ \A a, b \in Writer : a # b /\ Precedes(a, b) => Precedes(a, b)'
<1>1. \A i \in 1 .. Len(queue) : queue[i] \in Writer \ {w} /\ Waits(queue[i])
  <2> TAKE i \in 1 .. Len(queue)
  <2>1. queue[i] \in Writer
    BY ElementOfSeq DEF LockTyped
  <2>2. queue # <<>>
    BY EmptySeq DEF LockTyped
  <2> QED BY <2>1, <2>2 DEF LockKept
<1>2. \A i \in 1 .. Len(queue) : queue[i] # w /\ Waits(queue[i])'
  <2> TAKE i \in 1 .. Len(queue)
  <2>1. queue[i] \in Writer \ {w} /\ Waits(queue[i])
    BY <1>1
  <2> QED BY <2>1 DEF Apart, Waits
<1>3. \A v \in Writer : Waits(v)' => v = owner' \/ \E i \in 1 .. Len(queue) : queue[i] = v
  BY NoneAssumption DEF Apart, LockKept, Waits, Sends
<1>4. \A v \in Writer : Sends(v)' => v = owner'
  BY NoneAssumption DEF Apart, LockKept
<1>5. LockTyped' /\ LockKept'
  BY <1>2, <1>3, <1>4, NoneAssumption DEF LockTyped, LockKept, Waits, Sends
<1>6. ASSUME NEW a \in Writer, NEW b \in Writer, a # b, Precedes(a, b), Waits(a)', Waits(b)'
      PROVE  b # owner' /\ InTurn(a, b)'
  <2>1. a # w /\ b # w
    BY <1>6 DEF Waits, Sends
  <2> QED BY <2>1, <1>6 DEF Apart, Precedes, InTurn
<1> QED
  BY <1>5, <1>6 DEF Precedes

LEMMA LockJoined ==
  ASSUME LockTyped, LockKept, NEW w \in Writer, owner # None, ~Waits(w), ~Sends(w),
         owner' = owner, queue' = Append(queue, w), Waits(w)', Apart(w)
  PROVE  /\ LockTyped' /\ LockKept' /\ owner # w
         /\ \A a \in Writer : a # w => Precedes(a, w)'
         /\ \A a, b \in Writer : a # w /\ Precedes(a, b) => Precedes(a, b)'
<1> DEFINE n == Len(queue)
<1>1. /\ n \in Nat /\ queue \in [1 .. n -> Writer]
      /\ queue' \in Seq(Writer) /\ Len(queue') = n + 1
      /\ \A i \in 1 .. n : queue'[i] = queue[i]
      /\ queue'[n + 1] = w
  BY AppendProperties, LenProperties DEF LockTyped
<1>2. \A i \in 1 .. n : queue[i] \in Writer \ {w} /\ Waits(queue[i]) /\ queue[i] # owner
  <2> TAKE i \in 1 .. n
  <2>1. queue[i] \in Writer
    BY <1>1
  <2> QED BY <2>1 DEF LockKept
<1>3. owner # w /\ owner \in Writer
  BY DEF LockKept, LockTyped
<1>4. \A i \in 1 .. n + 1 : queue'[i] # owner' /\ task'[queue'[i]].at = "waits"
  <2> TAKE i \in 1 .. n + 1
  <2>1. CASE i = n + 1
    BY <2>1, <1>1, <1>3 DEF Waits
  <2>2. CASE i # n + 1
    <3>1. i \in 1 .. n
      BY <2>2, <1>1
    <3> QED BY <3>1, <1>1, <1>2 DEF Apart, Waits
  <2> QED BY <2>1, <2>2
<1>5. \A i, j \in 1 .. n + 1 : queue'[i] = queue'[j] => i = j
  <2> SUFFICES ASSUME NEW i \in 1 .. n + 1, NEW j \in 1 .. n + 1, queue'[i] = queue'[j], i # j
               PROVE  FALSE
    OBVIOUS
  <2>1. CASE i # n + 1 /\ j # n + 1
    <3>1. i \in 1 .. n /\ j \in 1 .. n
      BY <2>1, <1>1
    <3> QED BY <3>1, <1>1 DEF LockKept
  <2>2. CASE i = n + 1
    <3>1. j \in 1 .. n
      BY <2>2, <1>1
    <3> QED BY <2>2, <3>1, <1>1, <1>2
  <2>3. CASE j = n + 1
    <3>1. i \in 1 .. n
      BY <2>3, <1>1
    <3> QED BY <2>3, <3>1, <1>1, <1>2
  <2> QED BY <2>1, <2>2, <2>3
<1>6. \A v \in Writer : Waits(v)' => v = owner' \/ \E i \in 1 .. n + 1 : queue'[i] = v
  <2> SUFFICES ASSUME NEW v \in Writer, Waits(v)', v # owner
               PROVE  \E i \in 1 .. n + 1 : queue'[i] = v
    OBVIOUS
  <2>1. CASE v = w
    BY <2>1, <1>1
  <2>2. CASE v # w
    <3>1. PICK i \in 1 .. n : queue[i] = v
      BY <2>2 DEF Apart, LockKept
    <3> QED BY <3>1, <1>1
  <2> QED BY <2>1, <2>2
<1>7. \A v \in Writer : Sends(v)' => v = owner'
  BY DEF Apart, LockKept, Waits, Sends
<1>8. Waits(owner)' \/ Sends(owner)'
  <2>1. owner \in Writer \ {w} /\ (Waits(owner) \/ Sends(owner))
    BY <1>3 DEF LockKept
  <2> QED BY <2>1 DEF Apart, Waits, Sends
<1>9. LockTyped' /\ LockKept'
  BY <1>1, <1>4, <1>5, <1>6, <1>7, <1>8 DEF LockTyped, LockKept, Waits
<1>10. ASSUME NEW a \in Writer, NEW b \in Writer, a # w, b = w \/ InTurn(a, b)
       PROVE  InTurn(a, b)'
  <2> SUFFICES ASSUME NEW i \in 1 .. n + 1, NEW j \in 1 .. n + 1,
                      queue'[i] = a, queue'[j] = b
               PROVE  i < j
    BY <1>1 DEF InTurn
  <2>1. i \in 1 .. n
    BY <1>1, <1>10
  <2>2. CASE j = n + 1
    BY <2>1, <2>2, <1>1
  <2>3. CASE j # n + 1
    <3>1. j \in 1 .. n
      BY <2>3, <1>1
    <3> QED BY <2>1, <3>1, <1>1, <1>2, <1>10 DEF InTurn
  <2> QED BY <2>2, <2>3
<1>11. \A a \in Writer : a # w => Precedes(a, w)'
  BY <1>3, <1>10 DEF Precedes
<1>12. ASSUME NEW a \in Writer, NEW b \in Writer, a # w, b # w, Precedes(a, b)
       PROVE  Precedes(a, b)'
  BY <1>10, <1>12 DEF Precedes, Apart
<1> QED
  BY <1>3, <1>9, <1>11, <1>12

\* What is left of a queue whose writers differ, once one has left it.
LEMMA LeftProperties ==
  ASSUME NEW q \in Seq(Writer), NEW w \in Writer,
         \A i, j \in 1 .. Len(q) : q[i] = q[j] => i = j
  PROVE  /\ Left(q, w) \in Seq(Writer)
         /\ \A i \in 1 .. Len(Left(q, w)) : \E m \in 1 .. Len(q) :
              /\ Left(q, w)[i] = q[m] /\ q[m] # w
         /\ \A i, j \in 1 .. Len(Left(q, w)) : i < j => \E m, n \in 1 .. Len(q) :
              /\ Left(q, w)[i] = q[m] /\ Left(q, w)[j] = q[n] /\ m < n
         /\ \A m \in 1 .. Len(q) : q[m] # w => \E i \in 1 .. Len(Left(q, w)) : Left(q, w)[i] = q[m]
<1> DEFINE n == Len(q)
           s == Left(q, w)
<1>0. n \in Nat /\ q \in [1 .. n -> Writer]
  BY LenProperties
<1>1. CASE \E i \in 1 .. n : q[i] = w
  <2> DEFINE k == CHOOSE i \in 1 .. Len(q) : q[i] = w
             a == SubSeq(q, 1, k - 1)
             b == SubSeq(q, k + 1, n)
  <2>1. k \in 1 .. n /\ q[k] = w
    BY <1>1
  <2>2. s = a \o b
    BY <1>1 DEF Left
  <2> HIDE DEF k
  <2>3. a \in Seq(Writer) /\ Len(a) = k - 1 /\ \A i \in 1 .. k - 1 : a[i] = q[i]
    <3>1. 1 \in Int /\ k - 1 \in Int /\ \A i \in 1 .. k - 1 : q[i] \in Writer
      BY <2>1, <1>0
    <3>2. /\ a \in Seq(Writer) /\ Len(a) = IF 1 <= k - 1 THEN (k - 1) - 1 + 1 ELSE 0
          /\ \A i \in 1 .. (k - 1) - 1 + 1 : a[i] = q[1 + i - 1]
      BY <3>1, SubSeqProperties
    <3> QED BY <3>2, <2>1, <1>0
  <2>4. b \in Seq(Writer) /\ Len(b) = n - k /\ \A i \in 1 .. n - k : b[i] = q[k + i]
    <3>1. k + 1 \in Int /\ n \in Int /\ \A i \in k + 1 .. n : q[i] \in Writer
      BY <2>1, <1>0
    <3>2. /\ b \in Seq(Writer) /\ Len(b) = IF k + 1 <= n THEN n - (k + 1) + 1 ELSE 0
          /\ \A i \in 1 .. n - (k + 1) + 1 : b[i] = q[(k + 1) + i - 1]
      BY <3>1, SubSeqProperties
    <3> QED BY <3>2, <2>1, <1>0
  <2> DEFINE at(i) == IF i < k THEN i ELSE i + 1
  <2> HIDE DEF a, b, s
  <2>5. s \in Seq(Writer) /\ Len(s) = n - 1 /\ \A i \in 1 .. n - 1 : at(i) \in 1 .. n /\ s[i] = q[at(i)]
    <3>1. /\ s \in Seq(Writer) /\ Len(s) = Len(a) + Len(b)
          /\ \A i \in 1 .. Len(a) + Len(b) : s[i] = IF i <= Len(a) THEN a[i] ELSE b[i - Len(a)]
      BY <2>2, <2>3, <2>4, ConcatProperties
    <3>2. Len(a) + Len(b) = n - 1
      BY <2>1, <2>3, <2>4, <1>0
    <3>3. ASSUME NEW i \in 1 .. n - 1
          PROVE  at(i) \in 1 .. n /\ s[i] = q[at(i)]
      <4>1. CASE i < k
        BY <4>1, <3>1, <3>2, <2>1, <2>3, <1>0
      <4>2. CASE ~(i < k)
        <5>1. i - Len(a) \in 1 .. n - k /\ k + (i - Len(a)) = i + 1 /\ ~(i <= Len(a))
          BY <4>2, <2>1, <2>3, <1>0
        <5>2. s[i] = b[i - Len(a)]
          BY <5>1, <3>1, <3>2
        <5>3. b[i - Len(a)] = q[i + 1]
          BY <5>1, <2>4
        <5> QED BY <4>2, <5>2, <5>3, <1>0
      <4> QED BY <4>1, <4>2
    <3> QED BY <3>1, <3>2, <3>3
  <2>6. \A i \in 1 .. n - 1 : s[i] # w
    <3> TAKE i \in 1 .. n - 1
    <3>1. at(i) \in 1 .. n /\ at(i) # k
      BY <2>1, <2>5, <1>0
    <3> QED BY <3>1, <2>1, <2>5
  <2>7. \A i, j \in 1 .. n - 1 : i < j => at(i) < at(j)
    BY <2>1, <1>0
  <2>8. \A m \in 1 .. n : q[m] # w => \E i \in 1 .. n - 1 : s[i] = q[m]
    <3> SUFFICES ASSUME NEW m \in 1 .. n, q[m] # w
                 PROVE  \E i \in 1 .. n - 1 : s[i] = q[m]
      OBVIOUS
    <3> DEFINE i == IF m < k THEN m ELSE m - 1
    <3>1. i \in 1 .. n - 1 /\ at(i) = m
      BY <2>1, <1>0
    <3> QED BY <3>1, <2>5
  <2> QED
    <3> HIDE DEF s, at
    <3>1. \A i \in 1 .. Len(s) : \E m \in 1 .. n : s[i] = q[m] /\ q[m] # w
      BY <2>5, <2>6
    <3>2. \A i, j \in 1 .. Len(s) : i < j => \E m, l \in 1 .. n : s[i] = q[m] /\ s[j] = q[l] /\ m < l
      BY <2>5, <2>7
    <3> USE DEF s
    <3> QED BY <2>5, <2>8, <3>1, <3>2
<1>2. CASE ~\E i \in 1 .. n : q[i] = w
  <2>1. s = q
    BY <1>2 DEF Left
  <2> QED BY <2>1, <1>2
<1> QED
  BY <1>1, <1>2

\* One that waits is cancelled and leaves the queue.
LEMMA LockLeft ==
  ASSUME LockTyped, LockKept, NEW w \in Writer, owner # w,
         owner' = owner, queue' = Left(queue, w), ~Waits(w)', ~Sends(w)', Apart(w)
  PROVE  /\ LockTyped' /\ LockKept'
         /\ \A a, b \in Writer : a # b /\ Precedes(a, b) => Precedes(a, b)'
<1> DEFINE n == Len(queue)
           m == Len(queue')
<1>0. \A i, j \in 1 .. n : queue[i] = queue[j] => i = j
  BY DEF LockKept
<1>1. /\ queue' \in Seq(Writer)
      /\ \A i \in 1 .. m : \E k \in 1 .. n : queue'[i] = queue[k] /\ queue[k] # w
      /\ \A i, j \in 1 .. m : i < j => \E k, l \in 1 .. n :
           queue'[i] = queue[k] /\ queue'[j] = queue[l] /\ k < l
      /\ \A k \in 1 .. n : queue[k] # w => \E i \in 1 .. m : queue'[i] = queue[k]
  <2>1. queue \in Seq(Writer)
    BY DEF LockTyped
  <2>2. /\ Left(queue, w) \in Seq(Writer)
        /\ \A i \in 1 .. Len(Left(queue, w)) : \E k \in 1 .. Len(queue) :
             Left(queue, w)[i] = queue[k] /\ queue[k] # w
        /\ \A i, j \in 1 .. Len(Left(queue, w)) : i < j => \E k, l \in 1 .. Len(queue) :
             Left(queue, w)[i] = queue[k] /\ Left(queue, w)[j] = queue[l] /\ k < l
        /\ \A k \in 1 .. Len(queue) : queue[k] # w =>
             \E i \in 1 .. Len(Left(queue, w)) : Left(queue, w)[i] = queue[k]
    BY <2>1, <1>0, LeftProperties
  <2> QED BY <2>2
<1>2. n \in Nat /\ m \in Nat /\ queue \in [1 .. n -> Writer]
  BY <1>1, LenProperties DEF LockTyped
<1>3. \A i \in 1 .. m : queue'[i] # owner' /\ task'[queue'[i]].at = "waits"
  <2> TAKE i \in 1 .. m
  <2>1. PICK k \in 1 .. n : queue'[i] = queue[k] /\ queue[k] # w
    BY <1>1
  <2>2. queue[k] \in Writer \ {w} /\ queue[k] # owner /\ Waits(queue[k])
    BY <2>1, <1>2 DEF LockKept
  <2> QED BY <2>1, <2>2 DEF Apart, Waits
<1>4. \A i, j \in 1 .. m : queue'[i] = queue'[j] => i = j
  <2> SUFFICES ASSUME NEW i \in 1 .. m, NEW j \in 1 .. m, i < j, queue'[i] = queue'[j]
               PROVE  FALSE
    BY <1>2
  <2>1. PICK k \in 1 .. n, l \in 1 .. n : queue'[i] = queue[k] /\ queue'[j] = queue[l] /\ k < l
    BY <1>1
  <2>2. queue[k] = queue[l]
    BY <2>1
  <2>3. k = l
    BY <2>2, <1>0
  <2> QED BY <2>1, <2>3, <1>2
<1>5. \A v \in Writer : Waits(v)' => v = owner' \/ \E i \in 1 .. m : queue'[i] = v
  <2> SUFFICES ASSUME NEW v \in Writer, Waits(v)', v # owner
               PROVE  \E i \in 1 .. m : queue'[i] = v
    OBVIOUS
  <2>1. v # w /\ Waits(v)
    BY DEF Apart
  <2>2. PICK k \in 1 .. n : queue[k] = v
    BY <2>1 DEF LockKept
  <2> QED BY <2>1, <2>2, <1>1
<1>6. \A v \in Writer : Sends(v)' => v = owner'
  BY DEF Apart, LockKept
<1>7. owner # None => Waits(owner)' \/ Sends(owner)'
  BY DEF LockKept, LockTyped, Apart, Waits, Sends
<1>8. owner = None => queue' = <<>>
  <2> SUFFICES ASSUME owner = None PROVE queue' = <<>>
    OBVIOUS
  <2>1. n = 0
    BY EmptySeq DEF LockKept
  <2>2. m = 0
    BY <2>1, <1>1, <1>2
  <2> QED BY <2>2, <1>1, EmptySeq
<1>9. LockTyped' /\ LockKept'
  BY <1>1, <1>3, <1>4, <1>5, <1>6, <1>7, <1>8 DEF LockTyped, LockKept, Waits, Sends
<1>10. ASSUME NEW a \in Writer, NEW b \in Writer, InTurn(a, b)
       PROVE  InTurn(a, b)'
  <2> SUFFICES ASSUME NEW i \in 1 .. m, NEW j \in 1 .. m,
                      queue'[i] = a, queue'[j] = b, ~(i < j)
               PROVE  FALSE
    BY DEF InTurn
  <2>1. CASE i = j
    <3>1. PICK k \in 1 .. n : queue'[i] = queue[k]
      BY <1>1
    <3>2. queue[k] = a /\ queue[k] = b
      BY <3>1, <2>1
    <3> QED BY <3>2, <1>2, <1>10 DEF InTurn
  <2>2. CASE j < i
    <3>1. PICK k \in 1 .. n, l \in 1 .. n : queue'[j] = queue[k] /\ queue'[i] = queue[l] /\ k < l
      BY <2>2, <1>1
    <3> QED BY <3>1, <1>2, <1>10 DEF InTurn
  <2> QED BY <2>1, <2>2, <1>2
<1>11. \A a, b \in Writer : Precedes(a, b) => Precedes(a, b)'
  BY <1>10 DEF Precedes, Apart
<1> QED
  BY <1>9, <1>11

LEMMA LockStays ==
  ASSUME LockTyped, LockKept, owner' = owner, queue' = queue,
         \A v \in Writer : (Waits(v)' <=> Waits(v)) /\ (Sends(v)' <=> Sends(v))
  PROVE  /\ LockTyped' /\ LockKept'
         /\ \A a, b \in Writer : a # b /\ Precedes(a, b) => Precedes(a, b)'
<1>1. \A i \in 1 .. Len(queue) : queue[i] \in Writer
  BY ElementOfSeq DEF LockTyped
<1>2. \A i \in 1 .. Len(queue) : queue[i] # owner /\ task'[queue[i]].at = "waits"
  BY <1>1 DEF LockKept, Waits
<1>3. owner # None => Waits(owner)' \/ Sends(owner)'
  BY DEF LockKept, LockTyped, Waits, Sends
<1> QED
  BY <1>2, <1>3 DEF LockTyped, LockKept, Waits, Sends, InTurn, Precedes

LEMMA LockCancelled ==
  ASSUME LockTyped, LockKept, NEW w \in Writer, Cancelled(w),
         ~Waits(w)', ~Sends(w)', Apart(w)
  PROVE  /\ LockTyped' /\ LockKept'
         /\ \A a, b \in Writer : a # b /\ Precedes(a, b) => Precedes(a, b)'
<1>1. CASE owner = w /\ Release
  BY <1>1, LockReleased
<1>2. CASE owner # w /\ owner' = owner /\ queue' = Left(queue, w)
  BY <1>2, LockLeft
<1> QED
  BY <1>1, <1>2 DEF Cancelled

-----------------------------------------------------------------------------
\* The two that hand audio to the transport.
Producer == {"player", "hold"}

\* The shapes a task may have, by what it does.
Rendering(l) == [at |-> "renders", line |-> l]
Asks(u) == [at |-> "waits", job |-> [kind |-> "audio", units |-> u, then |-> Rendering(line)]]
Plays(u) == [at |-> "sends", then |-> Rendering(line),
             frame |-> [kind |-> "media", seq |-> seq, units |-> u]]
AsksSignal(kind, l) == [at |-> "waits", job |-> [kind |-> kind, line |-> l, then |-> Idle]]
SendsSign(kind, l) == [at |-> "sends", then |-> Idle,
                       frame |-> [kind |-> kind, seq |-> seq, line |-> l]]

\* What a producer does is of the line that goes on.
Utters(w) ==
  \/ task[w] = Idle
  \/ /\ line \in LineNos
     /\ \/ task[w] = Rendering(line)
        \/ \E u \in Seq(Unit) : task[w] = Asks(u) /\ \A i \in 1 .. Len(u) : u[i].line = line
        \/ \E u \in Seq(Unit) : task[w] = Plays(u) /\ Len(u) = Frame

\* The talker waits for its line to be said and then marks it.
TalkerKept ==
  \/ task["talker"] = Idle
  \/ /\ line \in LineNos
     /\ \/ task["talker"] = [at |-> "speaks", line |-> line]
        \/ task["talker"] = [at |-> "woken", line |-> line]
        \/ task["talker"] = AsksSignal("mark", line)
        \/ task["talker"] = SendsSign("mark", line)

\* The consumer clears a line that was cut, and until it asks for it nobody speaks.
ConsumerKept ==
  \/ task["consumer"] = Idle
  \/ \E l \in LineNos :
       /\ l \in cut /\ l <= line
       /\ \/ /\ task["consumer"] = [at |-> "clears", line |-> l]
             /\ l = line /\ ~Voice("player") /\ ~Voice("hold")
          \/ task["consumer"] = AsksSignal("clear", l)
          \/ task["consumer"] = SendsSign("clear", l)

\* The tasks together: the player and the talker that waits for it are one; under a turn
\* that speaks there is no hold tone.
RolesKept ==
  /\ Utters("player") /\ Utters("hold") /\ TalkerKept /\ ConsumerKept
  /\ Voice("player") <=> task["talker"].at = "speaks"
  /\ Voice("talker") => ~Voice("hold")
  /\ Voice("hold") => stage = "live"

WireTyped ==
  /\ stage \in {"waiting", "routing", "live", "finishing", "closed"}
  /\ open \in BOOLEAN
  /\ LockTyped
  /\ pending \in Seq(Unit) /\ seq \in Nat
  /\ taken \in Seq(FrameSent)
  /\ line \in 0 .. MaxLines /\ made \in [LineNos -> Nat] /\ cut \subseteq 0 .. line

TasksTotal == task = [w \in Writer |-> task[w]]

\* A clear that waits is before any audio that does, and none is being sent.
TurnsKept == \A p \in Producer :
  Precedes("consumer", p) /\ (Waits("consumer") => ~Sends(p))

\* What every step of the line keeps of the tasks and the lock: the roles need the lock's
\* turns (a clear that waits is before the audio that does), and those the roles.
WireInv == WireTyped /\ TasksTotal /\ LockKept /\ TurnsKept /\ RolesKept

\* The roles are what gives the tasks their type.
LEMMA TasksTyped ==
  ASSUME WireTyped, TasksTotal, RolesKept
  PROVE  LineTypeOK
<1>1. Idle \in Task
  BY DEF Task
<1>2. ASSUME line \in LineNos, NEW u \in Seq(Unit)
      PROVE  Rendering(line) \in Rest /\ Rendering(line) \in Task /\ Asks(u) \in Task
             /\ Plays(u) \in Task
  <2>1. Rendering(line) \in Rest /\ Rendering(line) \in Task
    BY <1>2 DEF Rendering, Rest, Task
  <2>2. Asks(u) \in Task
    BY <1>2, <2>1 DEF Asks, Task, Job
  <2>3. Plays(u) \in Task
    BY <1>2, <2>1 DEF Plays, Task, FrameSent, WireTyped
  <2> QED BY <2>1, <2>2, <2>3
<1>3. ASSUME NEW l \in LineNos, NEW kind \in {"clear", "mark"}
      PROVE  AsksSignal(kind, l) \in Task /\ SendsSign(kind, l) \in Task
  <2>0. Idle \in Rest
    BY DEF Rest
  <2>1. AsksSignal(kind, l) \in Task
    BY <2>0 DEF AsksSignal, Task, Job
  <2>2. SendsSign(kind, l) \in Task
    BY <2>0 DEF SendsSign, Task, FrameSent, WireTyped
  <2> QED BY <2>1, <2>2
<1>4. \A w \in Producer : task[w] \in Task
  <2>1. <<>> \in Seq(Unit)
    BY EmptySeq
  <2> QED BY <1>1, <1>2, <2>1 DEF RolesKept, Utters, Producer
<1>5. task["talker"] \in Task
  BY <1>1, <1>3 DEF RolesKept, TalkerKept, Task
<1>6. task["consumer"] \in Task
  <2>1. \A l \in LineNos : [at |-> "clears", line |-> l] \in Task
    BY DEF Task
  <2> QED BY <1>1, <1>3, <2>1 DEF RolesKept, ConsumerKept
<1>7. \A w \in Writer : task[w] \in Task
  BY <1>4, <1>5, <1>6 DEF Writer, Producer
<1>8. task \in [Writer -> Task]
  BY <1>7 DEF TasksTotal
<1>9. cut \subseteq 0 .. MaxLines
  BY LineAssumption DEF WireTyped
<1> QED
  BY <1>8, <1>9 DEF WireTyped, LockTyped, LineTypeOK

LEMMA UttersStays ==
  ASSUME NEW w \in Producer, Utters(w), task'[w] = task[w], line' = line,
         seq' = seq \/ ~Sends(w)
  PROVE  Utters(w)'
<1>1. CASE task[w] = Idle \/ task[w] = Rendering(line)
  BY <1>1 DEF Utters
<1>2. ASSUME NEW u \in Seq(Unit), line \in LineNos, task[w] = Asks(u),
             \A i \in 1 .. Len(u) : u[i].line = line
      PROVE  Utters(w)'
  <2>1. Asks(u)' = Asks(u)
    BY DEF Asks
  <2> QED BY <1>2, <2>1 DEF Utters
<1>3. ASSUME NEW u \in Seq(Unit), line \in LineNos, task[w] = Plays(u), Len(u) = Frame
      PROVE  Utters(w)'
  <2>1. seq' = seq
    BY <1>3 DEF Plays, Sends
  <2>2. Plays(u)' = Plays(u)
    BY <2>1 DEF Plays
  <2> QED BY <1>3, <2>2 DEF Utters
<1> QED
  BY <1>1, <1>2, <1>3 DEF Utters

LEMMA TalkerStays ==
  ASSUME TalkerKept, task'["talker"] = task["talker"], line' = line,
         seq' = seq \/ ~Sends("talker")
  PROVE  TalkerKept'
BY DEF TalkerKept, AsksSignal, SendsSign, Sends

LEMMA ConsumerStays ==
  ASSUME WireTyped, ConsumerKept, task'["consumer"] = task["consumer"], cut \subseteq cut',
         seq' = seq \/ ~Sends("consumer"), line' \in Nat, line <= line',
         \/ task["consumer"].at # "clears"
         \/ line' = line /\ \A p \in Producer : Voice(p)' => Voice(p)
  PROVE  ConsumerKept'
<1>1. CASE task["consumer"] = Idle
  BY <1>1 DEF ConsumerKept
<1>2. CASE task["consumer"] # Idle
  <2>1. PICK l \in LineNos :
       /\ l \in cut /\ l <= line
       /\ \/ /\ task["consumer"] = [at |-> "clears", line |-> l]
             /\ l = line /\ ~Voice("player") /\ ~Voice("hold")
          \/ task["consumer"] = AsksSignal("clear", l)
          \/ task["consumer"] = SendsSign("clear", l)
    BY <1>2 DEF ConsumerKept
  <2>2. l \in cut' /\ l <= line'
    BY <2>1 DEF WireTyped, LineNos
  <2>3. CASE task["consumer"] = [at |-> "clears", line |-> l]
    <3>1. task["consumer"].at = "clears" /\ l = line /\ ~Voice("player") /\ ~Voice("hold")
      BY <2>1, <2>3 DEF AsksSignal, SendsSign
    <3>2. line' = line /\ ~Voice("player")' /\ ~Voice("hold")'
      BY <3>1 DEF Producer
    <3> QED BY <2>2, <2>3, <3>1, <3>2 DEF ConsumerKept
  <2>4. CASE task["consumer"] = AsksSignal("clear", l)
    BY <2>2, <2>4 DEF ConsumerKept, AsksSignal
  <2>5. CASE task["consumer"] = SendsSign("clear", l)
    BY <2>2, <2>5 DEF ConsumerKept, SendsSign, Sends
  <2> QED BY <2>1, <2>3, <2>4, <2>5
<1> QED
  BY <1>1, <1>2

\* One writer's task changes: the others are where they were.
LEMMA OthersStay ==
  ASSUME TasksTotal, NEW w \in Writer, NEW x, task' = [task EXCEPT ![w] = x]
  PROVE  /\ TasksTotal' /\ task'[w] = x
         /\ \A v \in Writer \ {w} : task'[v] = task[v]
         /\ Apart(w)
<1> DEFINE T == {task[v] : v \in Writer}
<1>1. task \in [Writer -> T]
  BY DEF TasksTotal
<1> HIDE DEF T
<1>2. task' = [v \in Writer |-> IF v = w THEN x ELSE task[v]]
  BY <1>1
<1>3. TasksTotal' /\ task'[w] = x /\ \A v \in Writer \ {w} : task'[v] = task[v]
  BY <1>2 DEF TasksTotal
<1> QED
  BY <1>3 DEF Apart, Waits, Sends

LEMMA OthersSilent ==
  ASSUME WireInv, NEW w \in Writer, owner \in {w, None}
  PROVE  /\ \A v \in Writer \ {w} : ~Sends(v)
         /\ w \in Producer => ~Waits("consumer")
<1>1. \A v \in Writer \ {w} : ~Sends(v)
  BY NoneAssumption DEF WireInv, LockKept
<1>2. ASSUME w \in Producer, Waits("consumer")
      PROVE  FALSE
  <2>1. "consumer" \in Writer /\ w # "consumer"
    BY <1>2 DEF Writer, Producer
  <2>2. CASE owner = None
    <3>1. queue = <<>> /\ Len(queue) = 0
      BY <2>2, EmptySeq DEF WireInv, LockKept
    <3> QED BY <2>1, <2>2, <3>1, <1>2, NoneAssumption DEF WireInv, LockKept
  <2>3. CASE owner = w
    <3>1. Waits(w) \/ Sends(w)
      BY <2>3, NoneAssumption DEF WireInv, LockKept
    <3> QED BY <2>3, <3>1, <1>2 DEF WireInv, TurnsKept, Precedes
  <2> QED BY <2>2, <2>3
<1> QED
  BY <1>1, <1>2

LEMMA ProducerMoves ==
  ASSUME WireInv, NEW w \in Producer, Voice(w), NEW x, task' = [task EXCEPT ![w] = x],
         x.at \in {"renders", "waits", "sends"}, Utters(w)',
         stage' = stage, line' = line, cut' = cut,
         seq' = seq \/ (\A v \in Writer \ {w} : ~Sends(v))
  PROVE  RolesKept' /\ TasksTotal'
<1>0. w \in Writer /\ \A v \in Writer \ {w} : task'[v] = task[v]
  BY OthersStay DEF WireInv, Producer, Writer
<1>1. TasksTotal' /\ task'[w] = x
  BY <1>0, OthersStay DEF WireInv
<1>2. task'[w].at # "off"
  BY <1>1
<1>3. \A v \in Writer : Voice(v)' <=> Voice(v)
  BY <1>0, <1>2 DEF Voice
<1>4. \A v \in Producer : Utters(v)'
  BY <1>0, UttersStays DEF Producer, Writer, WireInv, RolesKept
<1>5. TalkerKept'
  BY <1>0, TalkerStays DEF Producer, Writer, WireInv, RolesKept
<1>6. ConsumerKept'
  <2>1. task'["consumer"] = task["consumer"] /\ (seq' = seq \/ ~Sends("consumer"))
    BY <1>0 DEF Producer, Writer
  <2>2. line' \in Nat /\ line <= line'
    BY LineAssumption DEF WireInv, WireTyped
  <2>3. \A p \in Producer : Voice(p)' => Voice(p)
    BY <1>3 DEF Producer, Writer
  <2> QED BY <2>1, <2>2, <2>3, ConsumerStays DEF WireInv, RolesKept
<1>7. task'["talker"] = task["talker"] /\ "talker" \in Writer /\ "player" \in Writer /\ "hold" \in Writer
  BY <1>0 DEF Producer, Writer
<1> QED
  BY <1>1, <1>3, <1>4, <1>5, <1>6, <1>7 DEF WireInv, RolesKept, Producer

LEMMA TalkerMoves ==
  ASSUME WireInv, NEW x, task' = [task EXCEPT !["talker"] = x], x.at # "speaks",
         task["talker"].at # "speaks", Voice("talker") \/ x = Idle, TalkerKept',
         stage' = stage, line' = line, cut' = cut,
         seq' = seq \/ (\A v \in Writer \ {"talker"} : ~Sends(v))
  PROVE  RolesKept' /\ TasksTotal'
<1>0. "talker" \in Writer /\ \A v \in Writer \ {"talker"} : task'[v] = task[v]
  BY OthersStay DEF WireInv, Writer
<1>1. TasksTotal' /\ task'["talker"] = x
  BY <1>0, OthersStay DEF WireInv
<1>2. \A v \in Writer \ {"talker"} : Voice(v)' <=> Voice(v)
  BY <1>0 DEF Voice
<1>4. \A v \in Producer : Utters(v)'
  BY <1>0, UttersStays DEF Producer, Writer, WireInv, RolesKept
<1>5. "player" \in Writer \ {"talker"} /\ "hold" \in Writer \ {"talker"} /\ "consumer" \in Writer \ {"talker"}
  BY DEF Writer
<1>6. ConsumerKept'
  <2>1. task'["consumer"] = task["consumer"] /\ (seq' = seq \/ ~Sends("consumer"))
    BY <1>0, <1>5
  <2>2. line' \in Nat /\ line <= line'
    BY LineAssumption DEF WireInv, WireTyped
  <2>3. \A p \in Producer : Voice(p)' => Voice(p)
    BY <1>2, <1>5 DEF Producer
  <2> QED BY <2>1, <2>2, <2>3, ConsumerStays DEF WireInv, RolesKept
<1>7. ~Voice("player") /\ ~Voice("player")' /\ task'["talker"].at # "speaks"
  BY <1>1, <1>2, <1>5 DEF WireInv, RolesKept
<1>8. Voice("talker")' => ~Voice("hold")'
  BY <1>1, <1>2, <1>5 DEF WireInv, RolesKept, Voice, Idle
<1> QED
  BY <1>1, <1>2, <1>4, <1>5, <1>6, <1>7, <1>8 DEF WireInv, RolesKept, Producer

LEMMA ConsumerMoves ==
  ASSUME WireInv, NEW x, task' = [task EXCEPT !["consumer"] = x], ConsumerKept',
         stage' = stage, line' = line,
         seq' = seq \/ (\A v \in Writer \ {"consumer"} : ~Sends(v))
  PROVE  RolesKept' /\ TasksTotal'
<1>0. "consumer" \in Writer /\ \A v \in Writer \ {"consumer"} : task'[v] = task[v]
  BY OthersStay DEF WireInv, Writer
<1>1. TasksTotal'
  BY <1>0, OthersStay DEF WireInv
<1>2. \A v \in Writer \ {"consumer"} : Voice(v)' <=> Voice(v)
  BY <1>0 DEF Voice
<1>3. "player" \in Writer \ {"consumer"} /\ "hold" \in Writer \ {"consumer"} /\ "talker" \in Writer \ {"consumer"}
  BY DEF Writer
<1>4. \A v \in Producer : Utters(v)'
  BY <1>0, <1>3, UttersStays DEF Producer, WireInv, RolesKept
<1>5. TalkerKept'
  BY <1>0, <1>3, TalkerStays DEF WireInv, RolesKept
<1> QED
  BY <1>0, <1>1, <1>2, <1>3, <1>4, <1>5 DEF WireInv, RolesKept, Producer

\* A frame's worth of units, and what is left.
LEMMA FrameTaken ==
  ASSUME NEW S, NEW s \in Seq(S), Len(s) >= Frame
  PROVE  /\ SubSeq(s, 1, Frame) \in Seq(S) /\ Len(SubSeq(s, 1, Frame)) = Frame
         /\ SubSeq(s, Frame + 1, Len(s)) \in Seq(S)
         /\ Len(SubSeq(s, Frame + 1, Len(s))) = Len(s) - Frame
         /\ \A i \in 1 .. Frame : SubSeq(s, 1, Frame)[i] = s[i]
         /\ \A i \in 1 .. Len(s) - Frame : SubSeq(s, Frame + 1, Len(s))[i] = s[Frame + i]
<1> DEFINE n == Len(s)
<1>1. n \in Nat /\ s \in [1 .. n -> S] /\ Frame \in Nat \ {0}
  BY LenProperties, LineAssumption
<1>2. /\ SubSeq(s, 1, Frame) \in Seq(S)
      /\ Len(SubSeq(s, 1, Frame)) = IF 1 <= Frame THEN Frame - 1 + 1 ELSE 0
      /\ \A i \in 1 .. Frame - 1 + 1 : SubSeq(s, 1, Frame)[i] = s[1 + i - 1]
  <2>1. \A i \in 1 .. Frame : s[i] \in S
    BY <1>1
  <2> QED BY <1>1, <2>1, SubSeqProperties
<1>3. /\ SubSeq(s, Frame + 1, n) \in Seq(S)
      /\ Len(SubSeq(s, Frame + 1, n)) = IF Frame + 1 <= n THEN n - (Frame + 1) + 1 ELSE 0
      /\ \A i \in 1 .. n - (Frame + 1) + 1 : SubSeq(s, Frame + 1, n)[i] = s[(Frame + 1) + i - 1]
  <2>1. \A i \in Frame + 1 .. n : s[i] \in S
    BY <1>1
  <2>2. Frame + 1 \in Int /\ n \in Int
    BY <1>1
  <2> QED BY <2>1, <2>2, SubSeqProperties
<1>4. \A i \in 1 .. Frame : SubSeq(s, 1, Frame)[i] = s[i]
  BY <1>1, <1>2
<1>5. \A i \in 1 .. n - Frame : SubSeq(s, Frame + 1, n)[i] = s[Frame + i]
  <2> TAKE i \in 1 .. n - Frame
  <2>1. i \in 1 .. n - (Frame + 1) + 1 /\ (Frame + 1) + i - 1 = Frame + i
    BY <1>1
  <2> QED BY <2>1, <1>3
<1>6. Len(SubSeq(s, 1, Frame)) = Frame
  BY <1>1, <1>2
<1>7. Len(SubSeq(s, Frame + 1, n)) = n - Frame
  <2>1. n >= Frame
    OBVIOUS
  <2> HIDE DEF n
  <2>2. CASE Frame + 1 <= n
    BY <1>1, <1>3, <2>2
  <2>3. CASE n = Frame
    BY <1>1, <1>3, <2>3
  <2> QED BY <1>1, <2>1, <2>2, <2>3
<1> QED
  BY <1>2, <1>3, <1>4, <1>5, <1>6, <1>7

\* A producer's step with the lock, and one that must wait for it.
LEMMA AudioSent ==
  ASSUME WireInv, line \in LineNos, NEW w \in Producer, Voice(w), owner \in {w, None},
         NEW pend \in Seq(Unit), SendsAudio(w, pend, Rendering(line)),
         stage' = stage, line' = line, cut' = cut, open' = open,
         made' \in [LineNos -> Nat], taken' \in Seq(FrameSent)
  PROVE  WireInv'
<1>0. w \in Writer /\ (\A v \in Writer \ {w} : ~Sends(v)) /\ ~Waits("consumer") /\ w # "consumer"
  BY OthersSilent DEF Producer, Writer
<1>1. CASE /\ open /\ Len(pend) >= Frame
           /\ pending' = SubSeq(pend, Frame + 1, Len(pend))
           /\ seq' = seq + 1
           /\ task' = [task EXCEPT ![w] =
                [at |-> "sends", then |-> Rendering(line),
                 frame |-> [kind |-> "media", seq |-> seq + 1, units |-> SubSeq(pend, 1, Frame)]]]
           /\ owner' = w /\ queue' = queue
  <2> DEFINE u == SubSeq(pend, 1, Frame)
             x == [at |-> "sends", then |-> Rendering(line),
                   frame |-> [kind |-> "media", seq |-> seq + 1, units |-> u]]
  <2>1. u \in Seq(Unit) /\ Len(u) = Frame /\ pending' \in Seq(Unit)
    BY <1>1, FrameTaken
  <2>2. task'[w] = x /\ Apart(w)
    BY <1>0, <1>1, OthersStay DEF WireInv
  <2>3. Utters(w)'
    <3>1. Plays(u)' = x
      BY <1>1 DEF Plays, Rendering
    <3> HIDE DEF u, x
    <3> QED BY <2>1, <2>2, <3>1 DEF Utters
  <2>4. RolesKept' /\ TasksTotal'
    BY <1>0, <1>1, <2>3, ProducerMoves
  <2>5. LockTyped' /\ LockKept' /\ \A a, b \in Writer : a # b /\ Precedes(a, b) => Precedes(a, b)'
    BY <1>0, <1>1, <2>2, LockGrabbed DEF WireInv, WireTyped, Sends
  <2>6. TurnsKept'
    <3>1. ~Waits("consumer")'
      BY <1>0, <2>2 DEF Apart, Writer
    <3> QED BY <3>1 DEF TurnsKept, Precedes
  <2>7. WireTyped'
    BY <1>1, <2>1, <2>5 DEF WireInv, WireTyped
  <2> QED BY <2>4, <2>5, <2>6, <2>7 DEF WireInv
<1>2. CASE /\ ~open \/ Len(pend) < Frame
           /\ pending' = pend
           /\ task' = [task EXCEPT ![w] = Rendering(line)]
           /\ Release
           /\ seq' = seq
  <2>2. task'[w] = Rendering(line) /\ Apart(w)
    BY <1>0, <1>2, OthersStay DEF WireInv
  <2>3. Utters(w)'
    BY <2>2 DEF Utters, Rendering
  <2>4. RolesKept' /\ TasksTotal'
    <3>1. Rendering(line).at = "renders"
      BY DEF Rendering
    <3> QED BY <1>0, <1>2, <2>3, <3>1, ProducerMoves
  <2>5. LockTyped' /\ LockKept'
    <3>1. ~Waits(w)' /\ ~Sends(w)'
      BY <2>2 DEF Waits, Sends, Rendering
    <3> QED BY <1>0, <1>2, <2>2, <3>1, LockReleased DEF WireInv, WireTyped
  <2>6. TurnsKept'
    <3>1. ~Waits("consumer")'
      BY <1>0, <2>2 DEF Apart, Writer
    <3> QED BY <3>1 DEF TurnsKept, Precedes
  <2>7. WireTyped'
    BY <1>2, <2>5 DEF WireInv, WireTyped
  <2> QED BY <2>4, <2>5, <2>6, <2>7 DEF WireInv
<1> QED
  BY <1>1, <1>2 DEF SendsAudio

LEMMA AudioQueued ==
  ASSUME WireInv, line \in LineNos, NEW w \in Producer, task[w] = Rendering(line),
         NEW u \in Seq(Unit), \A i \in 1 .. Len(u) : u[i].line = line,
         owner # None, owner' = owner, queue' = Append(queue, w),
         task' = [task EXCEPT ![w] = Asks(u)],
         stage' = stage, line' = line, cut' = cut, open' = open, pending' = pending, seq' = seq,
         made' \in [LineNos -> Nat], taken' \in Seq(FrameSent)
  PROVE  WireInv'
<1>0. w \in Writer /\ w # "consumer" /\ "consumer" \in Writer
  BY DEF Producer, Writer
<1>1. task'[w] = Asks(u) /\ Apart(w)
  BY <1>0, OthersStay DEF WireInv
<1>2. Utters(w)'
  <2>1. Asks(u)' = Asks(u)
    BY DEF Asks, Rendering
  <2> QED BY <1>1, <2>1 DEF Utters
<1>3. Voice(w) /\ Waits(w)' /\ ~Sends(w)' /\ ~Waits(w) /\ ~Sends(w) /\ Asks(u).at = "waits"
  BY <1>1 DEF Voice, Waits, Sends, Rendering, Asks
<1>4. RolesKept' /\ TasksTotal'
  BY <1>0, <1>2, <1>3, ProducerMoves
<1>5. /\ LockTyped' /\ LockKept'
      /\ \A a \in Writer : a # w => Precedes(a, w)'
      /\ \A a, b \in Writer : a # w /\ Precedes(a, b) => Precedes(a, b)'
  BY <1>0, <1>1, <1>3, LockJoined DEF WireInv, WireTyped
<1>6. TurnsKept'
  <2> SUFFICES ASSUME NEW p \in Producer
               PROVE  Precedes("consumer", p)' /\ (Waits("consumer")' => ~Sends(p)')
    BY DEF TurnsKept
  <2>1. p \in Writer
    BY DEF Producer, Writer
  <2>2. Precedes("consumer", p)'
    BY <1>0, <1>5, <2>1 DEF WireInv, TurnsKept
  <2>3. Waits("consumer")' => ~Sends(p)'
    BY <1>0, <1>1, <1>3, <2>1 DEF WireInv, TurnsKept, Apart
  <2> QED BY <2>2, <2>3
<1>7. WireTyped'
  BY <1>5 DEF WireInv, WireTyped
<1> QED
  BY <1>4, <1>5, <1>6, <1>7 DEF WireInv

\* The writers of marks and clears: what either's call of the transport comes to.
Signals(w, kind, l) ==
  \/ /\ w = "talker" /\ kind = "mark" /\ l = line /\ line \in LineNos
     /\ Voice("talker") /\ task["talker"].at # "speaks" /\ cut' = cut
  \/ /\ w = "consumer" /\ kind = "clear" /\ l \in LineNos /\ l <= line
     /\ cut \subseteq cut' /\ cut' \subseteq 0 .. line /\ l \in cut'

LEMMA SignalMoves ==
  ASSUME WireInv, NEW w \in {"talker", "consumer"}, NEW kind, NEW l, Signals(w, kind, l),
         NEW x \in {Idle, AsksSignal(kind, l), SendsSign(kind, l)'},
         task' = [task EXCEPT ![w] = x], stage' = stage, line' = line,
         seq' = seq \/ (\A v \in Writer \ {w} : ~Sends(v))
  PROVE  RolesKept' /\ TasksTotal'
<1>0. w \in Writer /\ task'[w] = x
  BY OthersStay DEF WireInv, Writer
<1>1. AsksSignal(kind, l)' = AsksSignal(kind, l)
  BY DEF AsksSignal
<1>2. x.at # "speaks"
  BY DEF Idle, AsksSignal, SendsSign
<1>3. CASE w = "talker"
  <2>1. kind = "mark" /\ l = line /\ line \in LineNos
        /\ Voice("talker") /\ task["talker"].at # "speaks" /\ cut' = cut
    BY <1>3 DEF Signals
  <2>2. TalkerKept'
    BY <1>0, <1>1, <1>3, <2>1 DEF TalkerKept
  <2> QED BY <1>2, <1>3, <2>1, <2>2, TalkerMoves
<1>4. CASE w = "consumer"
  <2>1. kind = "clear" /\ l \in LineNos /\ l <= line /\ l \in cut'
    BY <1>4 DEF Signals
  <2>2. ConsumerKept'
    BY <1>0, <1>1, <1>4, <2>1 DEF ConsumerKept
  <2> QED BY <1>4, <2>2, ConsumerMoves
<1> QED
  BY <1>3, <1>4

\* Nothing new waits or sends but a signal: the turns are as they were.
LEMMA TurnsStay ==
  ASSUME TurnsKept, NEW w \in {"talker", "consumer"}, Apart(w),
         w = "consumer" => ~Waits("consumer")',
         \A a, b \in Writer : a # b /\ Precedes(a, b) => Precedes(a, b)'
  PROVE  TurnsKept'
<1> SUFFICES ASSUME NEW p \in Producer
             PROVE  Precedes("consumer", p)' /\ (Waits("consumer")' => ~Sends(p)')
  BY DEF TurnsKept
<1>1. p \in Writer \ {w} /\ p # "consumer" /\ "consumer" \in Writer
  BY DEF Producer, Writer
<1>2. Precedes("consumer", p)'
  BY <1>1 DEF TurnsKept
<1>3. Waits("consumer")' => ~Sends(p)'
  <2>1. CASE w = "consumer"
    BY <2>1
  <2>2. CASE w # "consumer"
    <3>1. Waits("consumer")' => Waits("consumer")
      BY <1>1, <2>2 DEF Apart
    <3>2. Sends(p)' <=> Sends(p)
      BY <1>1 DEF Apart
    <3> QED BY <3>1, <3>2 DEF TurnsKept
  <2> QED BY <2>1, <2>2
<1> QED
  BY <1>2, <1>3

\* The same of a mark or a clear.
LEMMA SignalSent ==
  ASSUME WireInv, NEW w \in {"talker", "consumer"}, NEW kind, NEW l, Signals(w, kind, l),
         owner \in {w, None}, SendsSignal(w, kind, l, Idle),
         stage' = stage, line' = line, open' = open, made' = made, taken' = taken
  PROVE  WireInv'
<1>0. w \in Writer /\ (\A v \in Writer \ {w} : ~Sends(v))
  BY OthersSilent DEF Writer
<1>1. pending' \in Seq(Unit) /\ seq' = seq + 1 /\ cut' \subseteq 0 .. line
  BY EmptySeq DEF SendsSignal, Signals, WireInv, WireTyped
<1>2. CASE /\ task' = [task EXCEPT ![w] =
                [at |-> "sends", then |-> Idle,
                 frame |-> [kind |-> kind, seq |-> seq + 1, line |-> l]]]
           /\ owner' = w /\ queue' = queue
  <2> DEFINE x == [at |-> "sends", then |-> Idle,
                   frame |-> [kind |-> kind, seq |-> seq + 1, line |-> l]]
  <2>1. x = SendsSign(kind, l)'
    BY <1>1 DEF SendsSign, Idle
  <2>2. task'[w] = x /\ Apart(w)
    BY <1>0, <1>2, OthersStay DEF WireInv
  <2>3. RolesKept' /\ TasksTotal'
    <3>1. task' = [task EXCEPT ![w] = x]
      BY <1>2
    <3> HIDE DEF x
    <3> QED BY <1>0, <2>1, <3>1, SignalMoves
  <2>4. Sends(w)' /\ ~Waits(w)'
    BY <2>2 DEF Sends, Waits
  <2>5. LockTyped' /\ LockKept' /\ \A a, b \in Writer : a # b /\ Precedes(a, b) => Precedes(a, b)'
    BY <1>0, <1>2, <2>2, <2>4, LockGrabbed DEF WireInv, WireTyped
  <2>6. TurnsKept'
    BY <2>2, <2>4, <2>5, TurnsStay DEF WireInv
  <2> QED BY <1>1, <2>3, <2>5, <2>6 DEF WireInv, WireTyped
<1>3. CASE task' = [task EXCEPT ![w] = Idle] /\ Release
  <2>2. task'[w] = Idle /\ Apart(w)
    BY <1>0, <1>3, OthersStay DEF WireInv
  <2>3. RolesKept' /\ TasksTotal'
    BY <1>0, <1>3, SignalMoves
  <2>4. ~Sends(w)' /\ ~Waits(w)'
    BY <2>2 DEF Sends, Waits, Idle
  <2>5. LockTyped' /\ LockKept' /\ \A a, b \in Writer : a # b /\ Precedes(a, b) => Precedes(a, b)'
    BY <1>0, <1>3, <2>2, <2>4, LockReleased DEF WireInv, WireTyped
  <2>6. TurnsKept'
    BY <2>2, <2>4, <2>5, TurnsStay DEF WireInv
  <2> QED BY <1>1, <2>3, <2>5, <2>6 DEF WireInv, WireTyped
<1> QED
  BY <1>2, <1>3 DEF SendsSignal

LEMMA SignalQueued ==
  ASSUME WireInv, NEW w \in {"talker", "consumer"}, NEW kind, NEW l, Signals(w, kind, l),
         ~Waits(w), ~Sends(w), w = "consumer" => ~Voice("player") /\ ~Voice("hold"),
         owner # None, owner' = owner, queue' = Append(queue, w),
         task' = [task EXCEPT ![w] = AsksSignal(kind, l)],
         pending' = pending, seq' = seq,
         stage' = stage, line' = line, open' = open, made' = made, taken' = taken
  PROVE  WireInv'
<1>0. w \in Writer /\ "consumer" \in Writer
  BY DEF Writer
<1>1. task'[w] = AsksSignal(kind, l) /\ Apart(w)
  BY <1>0, OthersStay DEF WireInv
<1>2. Waits(w)'
  BY <1>1 DEF Waits, AsksSignal
<1>3. RolesKept' /\ TasksTotal'
  BY SignalMoves
<1>4. /\ LockTyped' /\ LockKept'
      /\ \A a \in Writer : a # w => Precedes(a, w)'
      /\ \A a, b \in Writer : a # w /\ Precedes(a, b) => Precedes(a, b)'
  BY <1>0, <1>1, <1>2, LockJoined DEF WireInv, WireTyped
<1>5. TurnsKept'
  <2> SUFFICES ASSUME NEW p \in Producer
               PROVE  Precedes("consumer", p)' /\ (Waits("consumer")' => ~Sends(p)')
    BY DEF TurnsKept
  <2>1. p \in Writer \ {w} /\ (Waits(p)' <=> Waits(p)) /\ (Sends(p)' <=> Sends(p))
    BY <1>1 DEF Producer, Writer, Apart
  <2>2. CASE w = "consumer"
    <3>1. ~Voice(p)
      BY <2>2 DEF Producer
    <3>2. ~Waits(p) /\ ~Sends(p)
      BY <3>1 DEF Voice, Waits, Sends
    <3> QED BY <2>1, <3>2 DEF Precedes
  <2>3. CASE w # "consumer"
    <3>1. Waits("consumer")' <=> Waits("consumer")
      BY <1>0, <1>1, <2>3 DEF Apart
    <3> QED BY <1>0, <1>4, <2>1, <2>3, <3>1 DEF WireInv, TurnsKept
  <2> QED BY <2>2, <2>3
<1>6. cut' \subseteq 0 .. line
  BY DEF Signals, WireInv, WireTyped
<1> QED
  BY <1>3, <1>4, <1>5, <1>6 DEF WireInv, WireTyped

\* A task says where it is.
LEMMA Places ==
  /\ Idle.at = "off"
  /\ \A l : Rendering(l).at = "renders"
  /\ \A u : Asks(u).at = "waits" /\ Plays(u).at = "sends"
  /\ \A kind, l : AsksSignal(kind, l).at = "waits" /\ SendsSign(kind, l).at = "sends"
BY DEF Idle, Rendering, Asks, Plays, AsksSignal, SendsSign

\* Who sends, and what.
LEMMA SenderKnown ==
  ASSUME WireInv, NEW w \in Writer, Sends(w)
  PROVE  /\ task[w].frame \in FrameSent
         /\ \/ /\ w \in Producer /\ line \in LineNos
               /\ \E u \in Seq(Unit) : task[w] = Plays(u) /\ Len(u) = Frame
            \/ /\ w \in {"talker", "consumer"}
               /\ \E kind \in {"mark", "clear"}, l \in LineNos :
                    /\ task[w] = SendsSign(kind, l)
                    /\ cut' = cut => Signals(w, kind, l)
<1>1. CASE w \in Producer
  <2>1. line \in LineNos /\ \E u \in Seq(Unit) : task[w] = Plays(u) /\ Len(u) = Frame
    <3>1. Utters(w)
      BY <1>1 DEF WireInv, RolesKept, Producer
    <3> QED BY <3>1, Places DEF Utters, Sends
  <2>2. PICK u \in Seq(Unit) : task[w] = Plays(u)
    BY <2>1
  <2>3. task[w].frame = [kind |-> "media", seq |-> seq, units |-> u]
    BY <2>2 DEF Plays
  <2>4. task[w].frame \in FrameSent
    BY <2>3 DEF FrameSent, WireInv, WireTyped
  <2> QED BY <1>1, <2>1, <2>4
<1>2. CASE w = "talker"
  <2>1. line \in LineNos /\ task[w] = SendsSign("mark", line)
    BY <1>2 DEF WireInv, RolesKept, TalkerKept, Sends, Idle, AsksSignal
  <2>2. task[w].frame = [kind |-> "mark", seq |-> seq, line |-> line]
    BY <2>1 DEF SendsSign
  <2>3. task[w].frame \in FrameSent
    BY <2>1, <2>2 DEF FrameSent, WireInv, WireTyped
  <2>4. cut' = cut => Signals(w, "mark", line)
    BY <1>2, <2>1 DEF Signals, SendsSign, Voice
  <2> QED BY <1>2, <2>1, <2>3, <2>4
<1>3. CASE w = "consumer"
  <2>5. task[w] # Idle
    BY Places DEF Sends
  <2>6. PICK l \in LineNos : /\ l \in cut /\ l <= line
                            /\ \/ task[w] = [at |-> "clears", line |-> l]
                               \/ task[w] = AsksSignal("clear", l)
                               \/ task[w] = SendsSign("clear", l)
    BY <1>3, <2>5 DEF WireInv, RolesKept, ConsumerKept
  <2>1. l \in cut /\ l <= line /\ task[w] = SendsSign("clear", l)
    <3>1. task[w] # [at |-> "clears", line |-> l]
      BY DEF Sends
    <3> QED BY <2>6, <3>1, Places DEF Sends
  <2>2. task[w].frame = [kind |-> "clear", seq |-> seq, line |-> l]
    BY <2>1 DEF SendsSign
  <2>3. task[w].frame \in FrameSent
    BY <2>1, <2>2 DEF FrameSent, WireInv, WireTyped
  <2>4. cut' = cut => Signals(w, "clear", l)
    BY <1>3, <2>1 DEF Signals, WireInv, WireTyped
  <2> QED BY <1>3, <2>1, <2>3, <2>4
<1> QED
  BY <1>1, <1>2, <1>3 DEF Writer, Producer

LEMMA Returns ==
  ASSUME WireInv, NEW w \in Writer, Sends(w), task' = [task EXCEPT ![w] = task[w].then],
         Release, stage' = stage, pending' = pending, seq' = seq, line' = line, made' = made,
         cut' = cut, open' \in BOOLEAN, taken' \in Seq(FrameSent)
  PROVE  WireInv'
<1>1. owner = w
  BY DEF WireInv, LockKept
<1>2. task'[w] = task[w].then /\ Apart(w)
  BY OthersStay DEF WireInv
<1>3. task[w].then.at \notin {"waits", "sends"} /\ RolesKept' /\ TasksTotal'
  <2>1. CASE w \in Producer
    <3>0. line \in LineNos /\ \E u \in Seq(Unit) : task[w] = Plays(u)
      BY <2>1, SenderKnown DEF Producer
    <3>1. task[w].then = Rendering(line)
      BY <3>0 DEF Plays
    <3>2. Utters(w)' /\ Voice(w) /\ Rendering(line).at = "renders"
      BY <1>2, <3>0, <3>1 DEF Utters, Rendering, Voice, Sends
    <3> QED BY <2>1, <3>1, <3>2, ProducerMoves
  <2>2. CASE w \notin Producer
    <3>1. PICK kind \in {"mark", "clear"}, l \in LineNos :
            task[w] = SendsSign(kind, l) /\ Signals(w, kind, l)
      BY <2>2, SenderKnown
    <3>2. task[w].then = Idle
      BY <3>1 DEF SendsSign
    <3>3. w \in {"talker", "consumer"} /\ task' = [task EXCEPT ![w] = Idle]
      BY <2>2, <3>2 DEF Writer, Producer
    <3>4. RolesKept' /\ TasksTotal'
      BY <3>1, <3>3, SignalMoves
    <3> QED BY <3>2, <3>4, Places
  <2> QED BY <2>1, <2>2
<1>4. ~Waits(w)' /\ ~Sends(w)'
  BY <1>2, <1>3 DEF Waits, Sends
<1>5. LockTyped' /\ LockKept' /\ \A a, b \in Writer : a # b /\ Precedes(a, b) => Precedes(a, b)'
  BY <1>1, <1>2, <1>4, LockReleased DEF WireInv, WireTyped
<1>6. TurnsKept'
  <2> SUFFICES ASSUME NEW p \in Producer
               PROVE  Precedes("consumer", p)' /\ (Waits("consumer")' => ~Sends(p)')
    BY DEF TurnsKept
  <2>1. p \in Writer /\ "consumer" \in Writer /\ p # "consumer"
    BY DEF Producer, Writer
  <2>2. Precedes("consumer", p)'
    BY <1>5, <2>1 DEF WireInv, TurnsKept
  <2>3. Waits("consumer")' => Waits("consumer")
    BY <1>2, <1>4, <2>1 DEF Apart
  <2>4. Sends(p)' => Sends(p)
    BY <1>2, <1>4, <2>1 DEF Apart
  <2> QED BY <2>2, <2>3, <2>4 DEF WireInv, TurnsKept
<1> QED
  BY <1>3, <1>5, <1>6 DEF WireInv, WireTyped

\* Where a writer waits, what it asks is known.
LEMMA WaiterKnown ==
  ASSUME WireInv, NEW w \in Writer, Waits(w)
  PROVE  \/ /\ w \in Producer /\ line \in LineNos
            /\ \E u \in Seq(Unit) : task[w] = Asks(u) /\ \A i \in 1 .. Len(u) : u[i].line = line
         \/ /\ w \in {"talker", "consumer"}
            /\ \E kind \in {"mark", "clear"}, l \in LineNos :
                 /\ task[w] = AsksSignal(kind, l)
                 /\ cut' = cut => Signals(w, kind, l)
<1>1. CASE w \in Producer
  <2>1. Utters(w)
    BY <1>1 DEF WireInv, RolesKept, Producer
  <2> QED BY <1>1, <2>1, Places DEF Utters, Waits
<1>2. CASE w = "talker"
  <2>1. line \in LineNos /\ task[w] = AsksSignal("mark", line)
    BY <1>2 DEF WireInv, RolesKept, TalkerKept, Waits, Idle, SendsSign
  <2>2. cut' = cut => Signals(w, "mark", line)
    BY <1>2, <2>1 DEF Signals, AsksSignal, Voice
  <2> QED BY <1>2, <2>1, <2>2
<1>3. CASE w = "consumer"
  <2>5. task[w] # Idle
    BY Places DEF Waits
  <2>6. PICK l \in LineNos : /\ l \in cut /\ l <= line
                            /\ \/ task[w] = [at |-> "clears", line |-> l]
                               \/ task[w] = AsksSignal("clear", l)
                               \/ task[w] = SendsSign("clear", l)
    BY <1>3, <2>5 DEF WireInv, RolesKept, ConsumerKept
  <2>1. l \in cut /\ l <= line /\ task[w] = AsksSignal("clear", l)
    <3>1. task[w] # [at |-> "clears", line |-> l]
      BY DEF Waits
    <3> QED BY <2>6, <3>1, Places DEF Waits
  <2>2. cut' = cut => Signals(w, "clear", l)
    BY <1>3, <2>1 DEF Signals, WireInv, WireTyped
  <2> QED BY <1>3, <2>1, <2>2
<1> QED
  BY <1>1, <1>2, <1>3 DEF Writer, Producer

\* The actions one by one.
LEMMA AcquiresKeeps ==
  ASSUME WireInv, NEW w \in Writer, Acquires(w)
  PROVE  WireInv'
<1>1. /\ owner = w /\ Waits(w) /\ Works(w, task[w].job)
      /\ UNCHANGED <<stage, open, taken, line, made, cut>>
  BY DEF Acquires, Waits
<1>2. CASE w \in Producer
  <2>1. line \in LineNos
    BY <1>1, <1>2, WaiterKnown DEF Producer
  <2>2. PICK u \in Seq(Unit) : task[w] = Asks(u)
    BY <1>1, <1>2, WaiterKnown DEF Producer
  <2>3. task[w].job.kind = "audio" /\ task[w].job.units = u /\ task[w].job.then = Rendering(line)
    BY <2>2 DEF Asks
  <2>4. SendsAudio(w, pending \o u, Rendering(line))
    BY <1>1, <2>3 DEF Works
  <2>5. pending \o u \in Seq(Unit)
    BY ConcatProperties DEF WireInv, WireTyped
  <2>6. Voice(w) /\ made' \in [LineNos -> Nat] /\ taken' \in Seq(FrameSent)
    BY <1>1 DEF WireInv, WireTyped, Voice, Waits
  <2> QED BY <1>1, <1>2, <2>1, <2>4, <2>5, <2>6, AudioSent
<1>3. CASE w \notin Producer
  <2>1. PICK kind \in {"mark", "clear"}, l \in LineNos :
          task[w] = AsksSignal(kind, l) /\ Signals(w, kind, l)
    BY <1>1, <1>3, WaiterKnown
  <2>2. SendsSignal(w, kind, l, Idle)
    BY <1>1, <2>1 DEF Works, AsksSignal
  <2> QED BY <1>1, <1>3, <2>1, <2>2, SignalSent DEF Writer, Producer
<1> QED
  BY <1>2, <1>3

LEMMA SentKeeps ==
  ASSUME WireInv, NEW w \in Writer, Sent(w)
  PROVE  WireInv'
<1>1. Sends(w) /\ taken' = Append(taken, task[w].frame) /\ UNCHANGED <<stage, open, line, made, cut>>
  BY DEF Sent, Sends
<1>2. taken' \in Seq(FrameSent) /\ owner = w
  BY <1>1, SenderKnown, AppendProperties DEF WireInv, WireTyped, LockKept
<1>3. CASE w \in Producer
  <2>1. line \in LineNos /\ \E u \in Seq(Unit) : task[w] = Plays(u)
    BY <1>1, <1>3, SenderKnown DEF Producer
  <2>2. SendsAudio(w, pending, Rendering(line))
    BY <2>1 DEF Sent, Plays
  <2>3. Voice(w) /\ pending \in Seq(Unit) /\ made' \in [LineNos -> Nat]
    BY <1>1 DEF WireInv, WireTyped, Voice, Sends
  <2> QED BY <1>1, <1>2, <1>3, <2>1, <2>2, <2>3, AudioSent
<1>4. CASE w \notin Producer
  <2>1. PICK kind \in {"mark", "clear"}, l \in LineNos :
          task[w] = SendsSign(kind, l) /\ Signals(w, kind, l)
    BY <1>1, <1>4, SenderKnown
  <2>2. /\ task' = [task EXCEPT ![w] = task[w].then]
        /\ Release /\ pending' = pending /\ seq' = seq
    BY <2>1 DEF Sent, SendsSign
  <2>3. open' \in BOOLEAN
    BY <1>1 DEF WireInv, WireTyped
  <2> QED BY <1>1, <1>2, <2>2, <2>3, Returns
<1> QED
  BY <1>3, <1>4

LEMMA SendFailsKeeps ==
  ASSUME WireInv, NEW w \in Writer, SendFails(w)
  PROVE  WireInv'
<1>1. Sends(w) /\ open' \in BOOLEAN /\ taken' \in Seq(FrameSent)
  BY DEF SendFails, Sends, WireInv, WireTyped
<1> QED
  BY <1>1, Returns DEF SendFails

LEMMA ChunkTyped ==
  ASSUME WireInv, line \in LineNos, NEW n \in Nat
  PROVE  /\ Chunk(line, n) \in Seq(Unit) /\ Len(Chunk(line, n)) = n
         /\ \A i \in 1 .. n : Chunk(line, n)[i] = [line |-> line, nr |-> made[line] + i]
<1>1. made[line] \in Nat
  BY DEF WireInv, WireTyped
<1>2. \A i \in 1 .. n : [line |-> line, nr |-> made[line] + i] \in Unit
  BY <1>1 DEF Unit
<1>3. Chunk(line, n) \in [1 .. n -> Unit]
  BY <1>2 DEF Chunk
<1>4. Chunk(line, n) \in Seq(Unit)
  BY <1>3, SeqDef
<1>5. DOMAIN Chunk(line, n) = 1 .. n
  BY <1>3
<1>6. Len(Chunk(line, n)) = n
  BY <1>4, <1>5, LenProperties
<1> QED
  BY <1>4, <1>6 DEF Chunk

LEMMA HandsKeeps ==
  ASSUME WireInv, NEW w \in Producer, NEW n \in Nat, Hands(w, n)
  PROVE  WireInv'
<1> DEFINE job == [kind |-> "audio", units |-> Chunk(line, n), then |-> Rendering(line)]
<1>1. line \in LineNos /\ task[w] = Rendering(line)
  <2>1. Utters(w) /\ task[w].at = "renders"
    BY DEF WireInv, RolesKept, Producer, Hands
  <2> QED BY <2>1, Places DEF Utters
<1>2. /\ made' \in [LineNos -> Nat] /\ open' = open /\ stage' = stage /\ line' = line /\ cut' = cut
      /\ taken' \in Seq(FrameSent)
      /\ Enters(w, job)
  <2>1. task[w].line = line
    BY <1>1 DEF Rendering
  <2>2. /\ made' = [made EXCEPT ![line] = @ + n] /\ UNCHANGED <<stage, open, taken, line, cut>>
        /\ Enters(w, [kind |-> "audio", units |-> Chunk(line, n), then |-> task[w]])
    BY <2>1 DEF Hands
  <2>3. Enters(w, job)
    BY <1>1, <2>2
  <2> QED BY <1>1, <2>2, <2>3 DEF WireInv, WireTyped
<1>3. /\ Chunk(line, n) \in Seq(Unit) /\ Len(Chunk(line, n)) = n
      /\ \A i \in 1 .. n : Chunk(line, n)[i].line = line
  <2>1. /\ Chunk(line, n) \in Seq(Unit) /\ Len(Chunk(line, n)) = n
        /\ \A i \in 1 .. n : Chunk(line, n)[i] = [line |-> line, nr |-> made[line] + i]
    BY <1>1, ChunkTyped
  <2> QED BY <2>1
<1>4. CASE owner = None /\ Works(w, job)
  <2>1. SendsAudio(w, pending \o Chunk(line, n), Rendering(line))
    BY <1>4 DEF Works
  <2>2. pending \o Chunk(line, n) \in Seq(Unit)
    BY <1>3, ConcatProperties DEF WireInv, WireTyped
  <2>3. Voice(w)
    BY <1>1, Places DEF Voice
  <2> QED BY <1>1, <1>2, <1>4, <2>1, <2>2, <2>3, AudioSent
<1>5. CASE /\ owner # None
           /\ queue' = Append(queue, w)
           /\ task' = [task EXCEPT ![w] = [at |-> "waits", job |-> job]]
           /\ UNCHANGED <<owner, pending, seq>>
  <2>1. task' = [task EXCEPT ![w] = Asks(Chunk(line, n))]
    BY <1>5 DEF Asks
  <2> QED BY <1>1, <1>2, <1>3, <1>5, <2>1, AudioQueued
<1> QED
  BY <1>2, <1>4, <1>5 DEF Enters

LEMMA SignalEnters ==
  ASSUME WireInv, NEW w \in {"talker", "consumer"}, NEW kind \in {"mark", "clear"}, NEW l,
         Signals(w, kind, l), ~Waits(w), ~Sends(w),
         w = "consumer" => ~Voice("player") /\ ~Voice("hold"),
         Enters(w, [kind |-> kind, line |-> l, then |-> Idle]),
         stage' = stage, line' = line, open' = open, made' = made, taken' = taken
  PROVE  WireInv'
<1> DEFINE job == [kind |-> kind, line |-> l, then |-> Idle]
<1>1. CASE owner = None /\ Works(w, job)
  <2>1. SendsSignal(w, kind, l, Idle)
    BY <1>1 DEF Works
  <2> QED BY <1>1, <2>1, SignalSent
<1>2. CASE /\ owner # None
           /\ queue' = Append(queue, w)
           /\ task' = [task EXCEPT ![w] = [at |-> "waits", job |-> job]]
           /\ UNCHANGED <<owner, pending, seq>>
  <2>1. task' = [task EXCEPT ![w] = AsksSignal(kind, l)]
    BY <1>2 DEF AsksSignal
  <2> QED BY <1>2, <2>1, SignalQueued
<1> QED
  BY <1>1, <1>2 DEF Enters

LEMMA SpeechEndsKeeps ==
  ASSUME WireInv, SpeechEnds
  PROVE  WireInv'
<1>1. task["talker"] = [at |-> "woken", line |-> line] /\ line \in LineNos
  <2>1. task["talker"].at = "woken"
    BY DEF SpeechEnds
  <2>2. task["talker"] # Idle
    BY <2>1, Places
  <2>3. \/ task["talker"] = [at |-> "speaks", line |-> line]
        \/ task["talker"] = [at |-> "woken", line |-> line]
        \/ task["talker"] = AsksSignal("mark", line)
        \/ task["talker"] = SendsSign("mark", line)
    BY <2>2 DEF WireInv, RolesKept, TalkerKept
  <2>4. line \in LineNos
    BY <2>2 DEF WireInv, RolesKept, TalkerKept
  <2> QED BY <2>1, <2>3, <2>4, Places
<1>2. Signals("talker", "mark", line) /\ ~Waits("talker") /\ ~Sends("talker")
  BY <1>1 DEF Signals, SpeechEnds, Voice, Waits, Sends
<1> QED
  BY <1>1, <1>2, SignalEnters DEF SpeechEnds

LEMMA ClearsKnown ==
  ASSUME WireInv, task["consumer"].at = "clears"
  PROVE  /\ task["consumer"].line = line /\ line \in LineNos /\ line \in cut
         /\ ~Voice("player") /\ ~Voice("hold")
<1>1. task["consumer"] # Idle
  BY Places
<1>2. PICK l \in LineNos :
       /\ l \in cut /\ l <= line
       /\ \/ /\ task["consumer"] = [at |-> "clears", line |-> l]
             /\ l = line /\ ~Voice("player") /\ ~Voice("hold")
          \/ task["consumer"] = AsksSignal("clear", l)
          \/ task["consumer"] = SendsSign("clear", l)
  BY <1>1 DEF WireInv, RolesKept, ConsumerKept
<1>3. /\ task["consumer"] = [at |-> "clears", line |-> l]
      /\ l = line /\ ~Voice("player") /\ ~Voice("hold")
  BY <1>2, Places
<1> QED
  BY <1>2, <1>3

LEMMA ClearsKeeps ==
  ASSUME WireInv, Clears
  PROVE  WireInv'
<1>1. /\ task["consumer"].line = line /\ line \in LineNos /\ line \in cut
      /\ ~Voice("player") /\ ~Voice("hold")
  BY ClearsKnown DEF Clears
<1>2. Signals("consumer", "clear", line) /\ ~Waits("consumer") /\ ~Sends("consumer")
  BY <1>1 DEF Signals, Clears, WireInv, WireTyped, Waits, Sends, LineNos
<1> QED
  BY <1>1, <1>2, SignalEnters DEF Clears

\* A writer that may have got its frame out before it was cancelled.
LEMMA MayBeOutTyped ==
  ASSUME WireInv, NEW ws \in SUBSET Writer, MayBeOut(ws)
  PROVE  taken' \in Seq(FrameSent)
<1>1. CASE taken' = taken
  BY <1>1 DEF WireInv, WireTyped
<1>2. CASE taken' # taken
  <2>1. PICK w \in ws : task[w].at = "sends" /\ taken' = Append(taken, task[w].frame)
    BY <1>2 DEF MayBeOut
  <2> QED BY <2>1, SenderKnown, AppendProperties DEF WireInv, WireTyped, Sends
<1> QED
  BY <1>1, <1>2

LEMMA TurnsShrink ==
  ASSUME TurnsKept, \A a, b \in Writer : a # b /\ Precedes(a, b) => Precedes(a, b)',
         Waits("consumer")' => Waits("consumer"), \A p \in Producer : Sends(p)' => Sends(p)
  PROVE  TurnsKept'
<1>1. \A p \in Producer : p \in Writer /\ p # "consumer" /\ "consumer" \in Writer
  BY DEF Producer, Writer
<1> QED
  BY <1>1 DEF TurnsKept

LEMMA StagesKeep ==
  ASSUME WireInv, Start \/ NoStart \/ Routed \/ UNCHANGED wireVars
  PROVE  WireInv'
<1>1. /\ UNCHANGED <<open, owner, queue, task, pending, seq, taken, line, made, cut>>
      /\ stage' \in {"waiting", "routing", "live", "finishing", "closed"}
      /\ stage = "live" => stage' = "live"
  BY DEF Start, NoStart, Routed, Becomes, wireVars, lock, WireInv, WireTyped
<1>2. LockTyped' /\ LockKept' /\ \A a, b \in Writer : a # b /\ Precedes(a, b) => Precedes(a, b)'
  <2>1. \A v \in Writer : (Waits(v)' <=> Waits(v)) /\ (Sends(v)' <=> Sends(v))
    BY <1>1 DEF Waits, Sends
  <2> QED BY <1>1, <2>1, LockStays DEF WireInv, WireTyped
<1>3. TurnsKept'
  BY <1>1, <1>2, TurnsShrink DEF WireInv, Waits, Sends
<1>4. \A p \in Producer : Utters(p)'
  BY <1>1, UttersStays DEF WireInv, RolesKept, Producer
<1>5. TalkerKept'
  BY <1>1, TalkerStays DEF WireInv, RolesKept
<1>6. ConsumerKept'
  BY <1>1 DEF WireInv, RolesKept, ConsumerKept, Voice, AsksSignal, SendsSign
<1> QED
  BY <1>1, <1>2, <1>3, <1>4, <1>5, <1>6
     DEF WireInv, WireTyped, TasksTotal, RolesKept, Voice, Producer

\* A playback that begins or ends touches three tasks, of whom it names the hold tone,
\* the player and the talker, or the player, the talker and the consumer.
LEMMA PlaybackBegun ==
  ASSUME TasksTotal, NEW x, NEW y, NEW z,
         task' = [task EXCEPT !["hold"] = x, !["player"] = y, !["talker"] = z]
  PROVE  /\ TasksTotal' /\ task'["hold"] = x /\ task'["player"] = y /\ task'["talker"] = z
         /\ task'["consumer"] = task["consumer"]
<1> DEFINE T == {task[v] : v \in Writer}
<1>1. task \in [Writer -> T]
  BY DEF TasksTotal
<1> HIDE DEF T
<1>2. task' = [v \in Writer |-> IF v = "talker" THEN z ELSE IF v = "player" THEN y
                                  ELSE IF v = "hold" THEN x ELSE task[v]]
  BY <1>1
<1> QED
  BY <1>2 DEF TasksTotal, Writer

LEMMA SpeakerKnown ==
  ASSUME WireInv
  PROVE  /\ Voice("player") => /\ line \in LineNos
                               /\ task["talker"] = [at |-> "speaks", line |-> line]
                               /\ ~Voice("hold")
         /\ task["talker"].at = "speaks" => Voice("player") /\ line \in LineNos
         /\ task["talker"].at = "woken" => task["talker"] = [at |-> "woken", line |-> line]
         /\ \A w \in Producer : task[w].at = "renders" => task[w] = Rendering(line) /\ line \in LineNos
         /\ \A w \in Producer : Voice(w) => line \in LineNos
<1>1. task["talker"] # Idle =>
        /\ line \in LineNos
        /\ \/ task["talker"] = [at |-> "speaks", line |-> line]
           \/ task["talker"] = [at |-> "woken", line |-> line]
           \/ task["talker"] = AsksSignal("mark", line)
           \/ task["talker"] = SendsSign("mark", line)
  BY DEF WireInv, RolesKept, TalkerKept
<1>2. ASSUME task["talker"].at = "speaks"
      PROVE  line \in LineNos /\ task["talker"] = [at |-> "speaks", line |-> line]
  BY <1>1, <1>2, Places
<1>3. ASSUME task["talker"].at = "woken"
      PROVE  task["talker"] = [at |-> "woken", line |-> line]
  BY <1>1, <1>3, Places
<1>4. ASSUME NEW w \in Producer, task[w].at = "renders"
      PROVE  task[w] = Rendering(line) /\ line \in LineNos
  <2>1. Utters(w)
    BY DEF WireInv, RolesKept, Producer
  <2> QED BY <1>4, <2>1, Places DEF Utters
<1>5. ASSUME NEW w \in Producer, Voice(w)
      PROVE  line \in LineNos
  <2>1. Utters(w)
    BY DEF WireInv, RolesKept, Producer
  <2> QED BY <1>5, <2>1, Places DEF Utters, Voice
<1>6. Voice("player") <=> task["talker"].at = "speaks"
  BY DEF WireInv, RolesKept
<1>7. Voice("player") => ~Voice("hold")
  <2>1. ASSUME Voice("player")
        PROVE  Voice("talker")
    BY <2>1, <1>6 DEF Voice
  <2> QED BY <2>1 DEF WireInv, RolesKept
<1> QED
  BY <1>2, <1>3, <1>4, <1>5, <1>6, <1>7

\* A line that begins: nobody speaks, no clear is about to be sent.
LEMMA LineBegins ==
  ASSUME WireInv, Settled, line < MaxLines, line' = line + 1
  PROVE  /\ line' \in LineNos
         /\ task'["consumer"] = task["consumer"] /\ seq' = seq /\ cut \subseteq cut' => ConsumerKept'
<1>1. line \in Nat /\ line' \in LineNos
  BY LineAssumption DEF WireInv, WireTyped, LineNos
<1> QED
  BY <1>1, ConsumerStays DEF WireInv, RolesKept, Settled

LEMMA StartHoldKeeps ==
  ASSUME WireInv, StartHold
  PROVE  WireInv'
<1>1. /\ Live /\ Settled /\ line < MaxLines /\ line' = line + 1
      /\ ~Voice("talker") /\ ~Voice("hold")
      /\ task' = [task EXCEPT !["hold"] = Rendering(line')]
      /\ UNCHANGED <<stage, open, owner, queue, pending, seq, taken, made, cut>>
  BY DEF StartHold, Rendering, lock
<1>2. /\ TasksTotal' /\ task'["hold"] = Rendering(line')
      /\ \A v \in Writer \ {"hold"} : task'[v] = task[v]
  BY <1>1, OthersStay DEF WireInv, Writer
<1>3. ~Voice("player") /\ task["player"] = Idle /\ task["talker"] = Idle
  <2>1. ~Voice("player")
    BY <1>1, SpeakerKnown DEF Voice
  <2>2. Utters("player") /\ TalkerKept
    BY DEF WireInv, RolesKept
  <2> QED BY <1>1, <2>1, <2>2, Places DEF Utters, TalkerKept, Voice
<1>4. \A v \in Writer : (Waits(v)' <=> Waits(v)) /\ (Sends(v)' <=> Sends(v))
  BY <1>1, <1>2, Places DEF Waits, Sends, Voice
<1>5. /\ LockTyped' /\ LockKept'
      /\ \A a, b \in Writer : a # b /\ Precedes(a, b) => Precedes(a, b)'
  BY <1>1, <1>4, LockStays DEF WireInv, WireTyped
<1>6. TurnsKept'
  BY <1>4, <1>5, TurnsShrink DEF WireInv, Producer, Writer
<1>7. /\ task'["player"] = Idle /\ task'["talker"] = Idle /\ task'["consumer"] = task["consumer"]
  BY <1>2, <1>3 DEF Writer
<1>8. line' \in LineNos /\ ConsumerKept'
  BY <1>1, <1>7, LineBegins
<1>9. RolesKept'
  <2>1. Utters("player")' /\ TalkerKept'
    BY <1>7 DEF Utters, TalkerKept
  <2>2. Utters("hold")'
    BY <1>2, <1>8 DEF Utters, Rendering
  <2>3. ~Voice("player")' /\ task'["talker"].at # "speaks" /\ ~Voice("talker")' /\ stage' = "live"
    BY <1>1, <1>7 DEF Voice, Idle, Live
  <2> QED BY <1>8, <2>1, <2>2, <2>3 DEF RolesKept
<1>10. line' \in 0 .. MaxLines /\ cut' \subseteq 0 .. line'
  BY <1>1, <1>8, LineAssumption DEF WireInv, WireTyped, LineNos
<1> QED
  BY <1>1, <1>2, <1>5, <1>6, <1>9, <1>10 DEF WireInv, WireTyped

LEMMA SpeakKeeps ==
  ASSUME WireInv, Speak
  PROVE  WireInv'
<1>1. /\ Live /\ Settled /\ line < MaxLines /\ line' = line + 1 /\ ~Voice("talker")
      /\ Cancelled("hold")
      /\ task' = [task EXCEPT !["hold"] = Idle, !["player"] = Rendering(line'),
                              !["talker"] = [at |-> "speaks", line |-> line']]
      /\ cut' = IF Voice("hold") THEN cut \cup {line} ELSE cut
      /\ UNCHANGED <<stage, open, pending, seq, made>>
  BY DEF Speak, Rendering
<1>2. /\ TasksTotal' /\ task'["hold"] = Idle /\ task'["player"] = Rendering(line')
      /\ task'["talker"] = [at |-> "speaks", line |-> line']
      /\ task'["consumer"] = task["consumer"]
  <2> DEFINE x == Rendering(line')
             y == [at |-> "speaks", line |-> line']
  <2>1. task' = [task EXCEPT !["hold"] = Idle, !["player"] = x, !["talker"] = y]
    BY <1>1
  <2> HIDE DEF x, y
  <2>2. /\ TasksTotal' /\ task'["hold"] = Idle /\ task'["player"] = x /\ task'["talker"] = y
        /\ task'["consumer"] = task["consumer"]
    BY <2>1, PlaybackBegun DEF WireInv
  <2> QED BY <2>2 DEF x, y
<1>3. ~Voice("player")
  BY <1>1, SpeakerKnown DEF Voice
<1>4. /\ ~Waits("hold")' /\ ~Sends("hold")' /\ Apart("hold")
  <2>1. ~Waits("player") /\ ~Sends("player") /\ ~Waits("talker") /\ ~Sends("talker")
    BY <1>1, <1>3 DEF Waits, Sends, Voice
  <2>2. /\ ~Waits("player")' /\ ~Sends("player")' /\ ~Waits("talker")' /\ ~Sends("talker")'
        /\ ~Waits("hold")' /\ ~Sends("hold")'
    BY <1>2, Places DEF Waits, Sends
  <2>3. (Waits("consumer")' <=> Waits("consumer")) /\ (Sends("consumer")' <=> Sends("consumer"))
    BY <1>2 DEF Waits, Sends
  <2> QED BY <2>1, <2>2, <2>3 DEF Apart, Writer
<1>5. /\ LockTyped' /\ LockKept'
      /\ \A a, b \in Writer : a # b /\ Precedes(a, b) => Precedes(a, b)'
  BY <1>1, <1>4, LockCancelled DEF WireInv, WireTyped, Writer
<1>6. TurnsKept'
  <2>1. Waits("consumer")' => Waits("consumer")
    BY <1>2 DEF Waits
  <2>2. \A p \in Producer : Sends(p)' => Sends(p)
    BY <1>2, Places DEF Producer, Sends
  <2> QED BY <1>5, <2>1, <2>2, TurnsShrink DEF WireInv
<1>7. cut \subseteq cut' /\ cut' \subseteq 0 .. line'
  BY <1>1, LineAssumption DEF WireInv, WireTyped
<1>8. line' \in LineNos /\ ConsumerKept'
  BY <1>1, <1>2, <1>7, LineBegins
<1>9. RolesKept'
  <2>1. Utters("player")' /\ Utters("hold")' /\ TalkerKept'
    BY <1>2, <1>8 DEF Utters, TalkerKept, Rendering
  <2>2. Voice("player")' /\ task'["talker"].at = "speaks" /\ ~Voice("hold")'
    BY <1>2, Places DEF Voice
  <2> QED BY <1>8, <2>1, <2>2 DEF RolesKept
<1>10. line' \in 0 .. MaxLines
  BY <1>8, LineAssumption DEF LineNos
<1>11. taken' \in Seq(FrameSent)
  BY <1>1, MayBeOutTyped DEF Cancelled, Writer
<1> QED
  BY <1>1, <1>2, <1>5, <1>6, <1>7, <1>9, <1>10, <1>11 DEF WireInv, WireTyped

LEMMA PlaybackOver ==
  ASSUME TasksTotal, task["talker"] = [at |-> "speaks", line |-> line], NEW z,
         \/ /\ task' = [task EXCEPT !["player"] = Idle, !["talker"].at = "woken"]
            /\ z = task["consumer"]
         \/ task' = [task EXCEPT !["player"] = Idle, !["talker"].at = "woken", !["consumer"] = z]
  PROVE  /\ TasksTotal' /\ task'["player"] = Idle /\ task'["hold"] = task["hold"]
         /\ task'["talker"] = [at |-> "woken", line |-> line]
         /\ task'["consumer"] = z
<1> DEFINE T == {task[v] : v \in Writer}
<1>1. task \in [Writer -> T]
  BY DEF TasksTotal
<1> HIDE DEF T
<1>2. [task["talker"] EXCEPT !.at = "woken"] = [at |-> "woken", line |-> line]
  OBVIOUS
<1> DEFINE y == [at |-> "woken", line |-> line]
<1>3. task' = [v \in Writer |-> IF v = "consumer" THEN z ELSE IF v = "talker" THEN y
                                  ELSE IF v = "player" THEN Idle ELSE task[v]]
  <2>1. CASE /\ task' = [task EXCEPT !["player"] = Idle, !["talker"].at = "woken"]
             /\ z = task["consumer"]
    <3>1. task' = [task EXCEPT !["player"] = Idle, !["talker"] = [task["talker"] EXCEPT !.at = "woken"]]
      BY <1>1, <2>1 DEF Writer
    <3> HIDE DEF y
    <3>2. task' = [task EXCEPT !["player"] = Idle, !["talker"] = y]
      BY <3>1, <1>2 DEF y
    <3> QED BY <1>1, <2>1, <3>2 DEF Writer
  <2>2. CASE task' = [task EXCEPT !["player"] = Idle, !["talker"].at = "woken", !["consumer"] = z]
    <3>1. task' = [task EXCEPT !["player"] = Idle, !["talker"] = [task["talker"] EXCEPT !.at = "woken"],
                               !["consumer"] = z]
      BY <1>1, <2>2 DEF Writer
    <3> HIDE DEF y
    <3>2. task' = [task EXCEPT !["player"] = Idle, !["talker"] = y, !["consumer"] = z]
      BY <3>1, <1>2 DEF y
    <3> QED BY <1>1, <3>2 DEF Writer
  <2> QED BY <2>1, <2>2
<1> HIDE DEF y
<1>4. /\ TasksTotal' /\ task'["player"] = Idle /\ task'["hold"] = task["hold"]
      /\ task'["talker"] = y /\ task'["consumer"] = z
  BY <1>3 DEF TasksTotal, Writer
<1> QED
  BY <1>4 DEF y

\* The playback is over or was cancelled, and the talker is awake.
LEMMA AwakeKeeps ==
  ASSUME WireInv, Voice("player"), TasksTotal', task'["player"] = Idle,
         task'["hold"] = task["hold"],
         task'["talker"] = [at |-> "woken", line |-> line], ConsumerKept',
         line' = line, seq' = seq
  PROVE  RolesKept'
<1>1. line \in LineNos /\ ~Voice("hold")
  BY SpeakerKnown
<1>2. Utters("player")' /\ TalkerKept'
  BY <1>1 DEF Utters, TalkerKept
<1>3. Utters("hold")'
  BY UttersStays DEF Producer, WireInv, RolesKept
<1>4. ~Voice("player")' /\ ~Voice("hold")' /\ task'["talker"].at # "speaks"
  BY <1>1, Places DEF Voice
<1> QED
  BY <1>2, <1>3, <1>4 DEF RolesKept

LEMMA PlayEndsKeeps ==
  ASSUME WireInv, PlayEnds
  PROVE  WireInv'
<1>1. /\ task["player"].at = "renders" /\ Voice("player")
      /\ task' = [task EXCEPT !["player"] = Idle, !["talker"].at = "woken"]
      /\ UNCHANGED <<stage, open, owner, queue, pending, seq, taken, line, made, cut>>
  BY DEF PlayEnds, lock, Voice
<1>2. task["talker"] = [at |-> "speaks", line |-> line]
  BY <1>1, SpeakerKnown
<1>3. /\ TasksTotal' /\ task'["player"] = Idle /\ task'["hold"] = task["hold"]
      /\ task'["talker"] = [at |-> "woken", line |-> line]
      /\ task'["consumer"] = task["consumer"]
  BY <1>1, <1>2, PlaybackOver DEF WireInv
<1>4. \A v \in Writer : (Waits(v)' <=> Waits(v)) /\ (Sends(v)' <=> Sends(v))
  <2>1. task["player"].at = "renders" /\ task'["player"].at = "off"
        /\ task["talker"].at = "speaks" /\ task'["talker"].at = "woken"
    BY <1>1, <1>2, <1>3, Places
  <2> QED BY <1>3, <2>1 DEF Waits, Sends, Writer
<1>5. /\ LockTyped' /\ LockKept'
      /\ \A a, b \in Writer : a # b /\ Precedes(a, b) => Precedes(a, b)'
  BY <1>1, <1>4, LockStays DEF WireInv, WireTyped
<1>6. TurnsKept'
  BY <1>4, <1>5, TurnsShrink DEF WireInv, Producer, Writer
<1>7. ConsumerKept'
  <2>1. task["consumer"].at # "clears"
    BY <1>1, ClearsKnown
  <2>2. line' \in Nat /\ line <= line'
    BY <1>1, LineAssumption DEF WireInv, WireTyped
  <2> QED BY <1>1, <1>3, <2>1, <2>2, ConsumerStays DEF WireInv, RolesKept
<1>8. RolesKept'
  BY <1>1, <1>3, <1>7, AwakeKeeps
<1> QED
  BY <1>1, <1>3, <1>5, <1>6, <1>8 DEF WireInv, WireTyped

\* The playback cut short, by the caller or by the end of the call: z is what the
\* consumer does then.
LEMMA PlaybackCut ==
  ASSUME WireInv, Voice("player"), Cancelled("player"), NEW z,
         \/ /\ task' = [task EXCEPT !["player"] = Idle, !["talker"].at = "woken"]
            /\ z = task["consumer"]
         \/ /\ task' = [task EXCEPT !["player"] = Idle, !["talker"].at = "woken", !["consumer"] = z]
            /\ ~Voice("consumer")
            /\ z = [at |-> "clears", line |-> line],
         cut' = cut \cup {line},
         UNCHANGED <<stage, open, pending, seq, line, made>>
  PROVE  WireInv'
<1>1. line \in LineNos /\ task["talker"] = [at |-> "speaks", line |-> line] /\ ~Voice("hold")
  BY SpeakerKnown
<1>2. /\ TasksTotal' /\ task'["player"] = Idle /\ task'["hold"] = task["hold"]
      /\ task'["talker"] = [at |-> "woken", line |-> line]
      /\ task'["consumer"] = z
  BY <1>1, PlaybackOver DEF WireInv
<1>3. (Waits("consumer")' <=> Waits("consumer")) /\ (Sends("consumer")' <=> Sends("consumer"))
  <2>1. CASE z = task["consumer"]
    BY <1>2, <2>1 DEF Waits, Sends
  <2>2. CASE ~Voice("consumer") /\ z = [at |-> "clears", line |-> line]
    BY <1>2, <2>2 DEF Waits, Sends, Voice
  <2> QED BY <2>1, <2>2
<1>4. ~Waits("player")' /\ ~Sends("player")' /\ Apart("player")
  <2>1. task["talker"].at = "speaks" /\ task'["talker"].at = "woken" /\ task'["player"].at = "off"
    BY <1>1, <1>2, Places
  <2> QED BY <1>2, <1>3, <2>1 DEF Waits, Sends, Apart, Writer
<1>5. /\ LockTyped' /\ LockKept'
      /\ \A a, b \in Writer : a # b /\ Precedes(a, b) => Precedes(a, b)'
  BY <1>4, LockCancelled DEF WireInv, WireTyped, Writer
<1>6. TurnsKept'
  <2>1. \A p \in Producer : Sends(p)' => Sends(p)
    BY <1>2, <1>4 DEF Producer, Sends
  <2> QED BY <1>3, <1>5, <2>1, TurnsShrink DEF WireInv
<1>7. ConsumerKept'
  <2>1. CASE z = task["consumer"]
    <3>1. task["consumer"].at # "clears"
      BY ClearsKnown
    <3>2. line' \in Nat /\ line <= line' /\ cut \subseteq cut'
      BY LineAssumption DEF WireInv, WireTyped
    <3> QED BY <1>2, <2>1, <3>1, <3>2, ConsumerStays DEF WireInv, RolesKept
  <2>2. CASE z = [at |-> "clears", line |-> line]
    <3>1. ~Voice("player")' /\ ~Voice("hold")'
      BY <1>1, <1>2, Places DEF Voice
    <3>2. line <= line
      BY LineAssumption DEF WireInv, WireTyped
    <3> QED BY <1>1, <1>2, <2>2, <3>1, <3>2 DEF ConsumerKept
  <2> QED BY <2>1, <2>2
<1>8. RolesKept'
  BY <1>2, <1>7, AwakeKeeps
<1>9. taken' \in Seq(FrameSent)
  BY MayBeOutTyped DEF Cancelled, Writer
<1>10. cut' \subseteq 0 .. line'
  BY LineAssumption DEF WireInv, WireTyped
<1> QED
  BY <1>2, <1>5, <1>6, <1>8, <1>9, <1>10 DEF WireInv, WireTyped

LEMMA BargeInKeeps ==
  ASSUME WireInv, BargeIn
  PROVE  WireInv'
<1>1. /\ task["talker"].at \in {"speaks", "woken"} /\ ~Voice("consumer")
      /\ UNCHANGED <<stage, open, line, made>>
  BY DEF BargeIn
<1>2. task["talker"].line = line
  BY <1>1, SpeakerKnown
<1>3. line \in LineNos
  <2>1. task["talker"] # Idle
    BY <1>1, Places
  <2> QED BY <2>1 DEF WireInv, RolesKept, TalkerKept
<1>4. CASE /\ Voice("player")
           /\ Cancelled("player")
           /\ task' = [task EXCEPT !["player"] = Idle, !["talker"].at = "woken",
                                   !["consumer"] = [at |-> "clears", line |-> line]]
           /\ cut' = cut \cup {line}
           /\ UNCHANGED <<pending, seq>>
  BY <1>1, <1>4, PlaybackCut
<1>5. CASE /\ ~Voice("player")
           /\ Enters("consumer", [kind |-> "clear", line |-> line, then |-> Idle])
           /\ cut' = cut \cup {line}
           /\ UNCHANGED taken
  <2>1. ~Voice("hold")
    <3>1. Voice("talker")
      BY <1>1 DEF Voice
    <3> QED BY <3>1 DEF WireInv, RolesKept
  <2>2. Signals("consumer", "clear", line)
    <3>1. line \in Nat /\ line <= line /\ cut \subseteq 0 .. line
      BY LineAssumption DEF WireInv, WireTyped
    <3>2. cut \subseteq cut' /\ cut' \subseteq 0 .. line /\ line \in cut'
      BY <1>5, <3>1
    <3> QED BY <1>3, <3>1, <3>2 DEF Signals
  <2>3. ~Waits("consumer") /\ ~Sends("consumer")
    BY <1>1 DEF Waits, Sends, Voice
  <2> QED BY <1>1, <1>5, <2>1, <2>2, <2>3, SignalEnters
<1> QED
  BY <1>2, <1>4, <1>5 DEF BargeIn

LEMMA FinishesPlaybackKeeps ==
  ASSUME WireInv, FinishesPlayback
  PROVE  WireInv'
BY PlaybackCut DEF FinishesPlayback

LEMMA SupersededKeeps ==
  ASSUME WireInv, Superseded
  PROVE  WireInv'
<1>1. /\ task["talker"].at \in {"waits", "sends"} /\ Cancelled("talker")
      /\ task' = [task EXCEPT !["talker"] = Idle]
      /\ UNCHANGED <<stage, open, pending, seq, line, made, cut>>
  BY DEF Superseded
<1>2. task'["talker"] = Idle /\ Apart("talker") /\ "talker" \in Writer
  BY <1>1, OthersStay DEF WireInv, Writer
<1>3. RolesKept' /\ TasksTotal'
  <2>1. TalkerKept'
    BY <1>2 DEF TalkerKept
  <2>2. Voice("talker") /\ task["talker"].at # "speaks" /\ Idle.at # "speaks"
    BY <1>1, Places DEF Voice
  <2> QED BY <1>1, <2>1, <2>2, TalkerMoves
<1>4. ~Waits("talker")' /\ ~Sends("talker")'
  BY <1>2, Places DEF Waits, Sends
<1>5. /\ LockTyped' /\ LockKept'
      /\ \A a, b \in Writer : a # b /\ Precedes(a, b) => Precedes(a, b)'
  BY <1>1, <1>2, <1>4, LockCancelled DEF WireInv, WireTyped
<1>6. TurnsKept'
  BY <1>2, <1>5, TurnsStay DEF WireInv
<1>7. taken' \in Seq(FrameSent)
  BY <1>1, MayBeOutTyped DEF Cancelled, Writer
<1> QED
  BY <1>1, <1>3, <1>5, <1>6, <1>7 DEF WireInv, WireTyped

LEMMA FinishesKeeps ==
  ASSUME WireInv, Finishes
  PROVE  WireInv'
<1>1. /\ Live /\ stage' = "finishing" /\ Cancelled("hold")
      /\ task' = [task EXCEPT !["hold"] = Idle]
      /\ cut' = IF Voice("hold") THEN cut \cup {line} ELSE cut
      /\ UNCHANGED <<open, pending, seq, line, made>>
  BY DEF Finishes
<1>2. /\ TasksTotal' /\ task'["hold"] = Idle /\ Apart("hold") /\ "hold" \in Writer
      /\ \A v \in Writer \ {"hold"} : task'[v] = task[v]
  BY <1>1, OthersStay DEF WireInv, Writer
<1>3. ~Waits("hold")' /\ ~Sends("hold")' /\ ~Voice("hold")'
  BY <1>2, Places DEF Waits, Sends, Voice
<1>4. /\ LockTyped' /\ LockKept'
      /\ \A a, b \in Writer : a # b /\ Precedes(a, b) => Precedes(a, b)'
  BY <1>1, <1>2, <1>3, LockCancelled DEF WireInv, WireTyped
<1>5. /\ task'["player"] = task["player"] /\ task'["talker"] = task["talker"]
      /\ task'["consumer"] = task["consumer"]
  BY <1>2 DEF Writer
<1>6. TurnsKept'
  <2>1. Waits("consumer")' => Waits("consumer")
    BY <1>5 DEF Waits
  <2>2. \A p \in Producer : Sends(p)' => Sends(p)
    BY <1>3, <1>5 DEF Producer, Sends
  <2> QED BY <1>4, <2>1, <2>2, TurnsShrink DEF WireInv
<1>7. Utters("player")' /\ Utters("hold")' /\ TalkerKept'
  BY <1>1, <1>2, <1>5, UttersStays, TalkerStays DEF WireInv, RolesKept, Producer, Utters
<1>8. cut \subseteq cut' /\ cut' \subseteq 0 .. line' /\ line' \in Nat /\ line <= line'
  BY <1>1, LineAssumption DEF WireInv, WireTyped
<1>9. ConsumerKept'
  <2>1. \A p \in Producer : Voice(p)' => Voice(p)
    BY <1>3, <1>5 DEF Producer, Voice
  <2> QED BY <1>1, <1>5, <1>8, <2>1, ConsumerStays DEF WireInv, RolesKept
<1>10. RolesKept'
  BY <1>3, <1>5, <1>7, <1>9 DEF WireInv, RolesKept, Voice
<1>11. taken' \in Seq(FrameSent)
  BY <1>1, MayBeOutTyped DEF Cancelled, Writer
<1> QED
  BY <1>1, <1>2, <1>4, <1>6, <1>8, <1>10, <1>11 DEF WireInv, WireTyped

LEMMA ClosesKeeps ==
  ASSUME WireInv, Closes
  PROVE  WireInv'
<1>1. /\ stage' = "closed" /\ open' = FALSE /\ MayBeOut(Writer) /\ owner' = None /\ queue' = <<>>
      /\ task' = [w \in Writer |-> Idle]
      /\ UNCHANGED <<pending, seq, line, made, cut>>
  BY DEF Closes
<1>2. \A w \in Writer : task'[w] = Idle
  BY <1>1
<1>3. TasksTotal' /\ \A w \in Writer : ~Waits(w)' /\ ~Sends(w)' /\ ~Voice(w)'
  BY <1>1, <1>2, Places DEF TasksTotal, Waits, Sends, Voice
<1>4. LockTyped' /\ LockKept' /\ TurnsKept'
  BY <1>1, <1>3, EmptySeq DEF LockTyped, LockKept, TurnsKept, Precedes, Producer, Writer
<1>5. RolesKept'
  BY <1>2, <1>3, Places DEF RolesKept, Utters, TalkerKept, ConsumerKept, Writer
<1>6. taken' \in Seq(FrameSent)
  BY <1>1, MayBeOutTyped
<1> QED
  BY <1>1, <1>3, <1>4, <1>5, <1>6 DEF WireInv, WireTyped

\* Every step keeps the roles and the lock.
LEMMA WireStep ==
  ASSUME WireInv, [LineNext]_wireVars
  PROVE  WireInv'
<1>1. CASE Start \/ NoStart \/ Routed \/ UNCHANGED wireVars
  BY <1>1, StagesKeep
<1>2. CASE \E w \in Writer : Acquires(w) \/ Sent(w) \/ SendFails(w)
  BY <1>2, AcquiresKeeps, SentKeeps, SendFailsKeeps
<1>3. CASE StartHold \/ Speak \/ PlayEnds
  BY <1>3, StartHoldKeeps, SpeakKeeps, PlayEndsKeeps
<1>4. CASE Renders \/ Hums
  BY <1>4, HandsKeeps, LineAssumption DEF Renders, Hums, Producer
<1>5. CASE BargeIn \/ Clears \/ SpeechEnds \/ Superseded
  BY <1>5, BargeInKeeps, ClearsKeeps, SpeechEndsKeeps, SupersededKeeps
<1>6. CASE Finishes \/ FinishesPlayback \/ Closes
  BY <1>6, FinishesKeeps, FinishesPlaybackKeeps, ClosesKeeps
<1> QED
  BY <1>1, <1>2, <1>3, <1>4, <1>5, <1>6 DEF LineNext

LEMMA WireStart ==
  ASSUME LineInit
  PROVE  WireInv
<1>1. \A w \in Writer : task[w] = Idle
  BY DEF LineInit
<1>2. TasksTotal /\ \A w \in Writer : ~Waits(w) /\ ~Sends(w) /\ ~Voice(w)
  BY <1>1, Places DEF LineInit, TasksTotal, Waits, Sends, Voice
<1>3. LockTyped /\ LockKept /\ TurnsKept
  BY <1>2, EmptySeq DEF LineInit, LockTyped, LockKept, TurnsKept, Precedes, Producer, Writer
<1>4. RolesKept
  BY <1>1, <1>2, Places DEF RolesKept, Utters, TalkerKept, ConsumerKept, Writer
<1>5. WireTyped
  BY <1>3, EmptySeq, LineAssumption DEF LineInit, WireTyped
<1> QED
  BY <1>2, <1>3, <1>4, <1>5 DEF WireInv

-----------------------------------------------------------------------------
(* What a step does to the audio, the line, the clear and the numbers. *)

\* The one producer that may speak, the units of the frame it sends, and those it waits
\* with.
Who == IF Voice("hold") THEN "hold" ELSE "player"
Aloud == IF Sends(Who) THEN task[Who].frame.units ELSE <<>>
Handed == IF Waits(Who) THEN task[Who].job.units ELSE <<>>

\* Nobody speaks; the call goes on; a clear waits or is sent, and of which line; a clear is
\* to come.
Silent == ~Voice("player") /\ ~Voice("hold")
Ongoing == stage \notin {"finishing", "closed"}
Clearing == Waits("consumer") \/ Sends("consumer")
ClearLine == IF Waits("consumer") THEN task["consumer"].job.line ELSE task["consumer"].frame.line
Busy == task["consumer"].at \in {"waits", "clears"}

\* What the socket takes: nothing, a mark or a clear; or the producer's frame.
SignalOut ==
  \/ taken' = taken
  \/ \E w \in {"talker", "consumer"} : Sends(w) /\ taken' = Append(taken, task[w].frame)
AudioOut == Aloud # <<>> /\ taken' = Append(taken, [kind |-> "media", seq |-> seq, units |-> Aloud])

\* The units there are to send, as a frame and what is left, or as what waits.
Split(pend) ==
  \/ /\ open' /\ Len(pend) >= Frame
     /\ Aloud' = SubSeq(pend, 1, Frame) /\ pending' = SubSeq(pend, Frame + 1, Len(pend))
  \/ /\ ~open' \/ Len(pend) < Frame
     /\ Aloud' = <<>> /\ pending' = pend

\* What a step may do to the audio: leave it; drop what the producer had; wipe what waits;
\* hand over more, to wait or to go at once; go on with what waited; go on after a frame.
Stays == SignalOut /\ Aloud' = Aloud /\ Handed' = Handed /\ pending' = pending /\ made' = made
Drops ==
  /\ SignalOut \/ AudioOut
  /\ Aloud' = <<>> /\ Handed' = <<>> /\ pending' = pending /\ made' = made
  /\ \/ ~open'
     \/ line' = line + 1
     \/ line \in cut' /\ (task'["consumer"].at = "clears" \/ ~Ongoing')
Wipes ==
  /\ taken' = taken /\ line' = line /\ made' = made
  /\ Aloud = <<>> /\ Aloud' = <<>> /\ Handed' = Handed /\ pending' = <<>>
  /\ Clearing \/ line \in cut'
Speaks == Voice(Who) /\ line' = line /\ line \in LineNos /\ cut' = cut /\ (Voice("hold")' <=> Voice("hold"))
Grows(n) ==
  /\ Speaks /\ open /\ Aloud = <<>> /\ Handed = <<>>
  /\ made' = [made EXCEPT ![line] = @ + n]
  /\ Voice("hold") => n = Frame
  /\ taken' = taken
Queues(n) ==
  /\ Grows(n)
  /\ Aloud' = <<>> /\ Handed' = Chunk(line, n) /\ pending' = pending
Begins(n) ==
  /\ Grows(n) /\ ~Clearing /\ ~Clearing'
  /\ Handed' = <<>> /\ Split(pending \o Chunk(line, n))
Moves ==
  /\ Speaks /\ ~Clearing /\ ~Clearing'
  /\ Aloud = <<>> /\ Handed' = <<>> /\ made' = made /\ taken' = taken
  /\ Split(pending \o Handed)
Emits ==
  /\ Speaks /\ ~Clearing /\ ~Clearing'
  /\ AudioOut /\ Handed = <<>> /\ Handed' = <<>> /\ made' = made
  /\ Split(pending)

\* The four views of a step, which is all the invariants below need to know of it.
UnitsFlow ==
  \/ Stays \/ Drops \/ Wipes \/ Moves \/ Emits
  \/ \E n \in Nat : Queues(n) \/ Begins(n)
LineFlow ==
  /\ open' => open
  /\ Ongoing' => Ongoing
  /\ cut \subseteq cut'
  /\ \/ line' = line /\ \A p \in Producer : Voice(p)' => Voice(p)
     \/ /\ line' = line + 1 /\ line' \in LineNos /\ line' \notin cut' /\ Ongoing
        /\ task["consumer"].at # "clears" /\ ~Voice("player")
        /\ task'["consumer"] = task["consumer"]
        /\ Stays \/ Drops
ClearFlow ==
  /\ Clearing' => \/ Clearing /\ ClearLine' = ClearLine
                  \/ ClearLine' = line /\ line' = line /\ Silent
  /\ Sends("consumer")' => pending' = <<>> \/ (Sends("consumer") /\ pending' = pending)
  /\ Busy /\ open' => Busy' \/ pending' = <<>>
SeqFlow ==
  \/ taken' = taken /\ seq' = seq /\ \A w \in Writer : Sends(w)' => Sends(w)
  \/ taken' = taken /\ seq' = seq + 1
  \/ \E w \in Writer :
       /\ Sends(w) /\ taken' = Append(taken, task[w].frame)
       /\ \/ seq' = seq /\ \A v \in Writer : ~Sends(v)'
          \/ seq' = seq + 1
\* Nobody sends once the transport is closed.
OpenKept == \A w \in Writer : Sends(w) => open

Flow == UnitsFlow /\ LineFlow /\ ClearFlow /\ SeqFlow

-----------------------------------------------------------------------------
(* The order of the frames and of their units. *)

\* What the roles say of the audio that is under way.
LEMMA RestKnown ==
  ASSUME WireInv
  PROVE  /\ Aloud \in Seq(Unit) /\ Handed \in Seq(Unit) /\ pending \in Seq(Unit)
         /\ \A i \in 1 .. Len(Handed) : Handed[i].line = line
         /\ Aloud # <<>> <=> Sends(Who)
         /\ Aloud # <<>> => Len(Aloud) = Frame /\ task[Who].frame = [kind |-> "media", seq |-> seq, units |-> Aloud]
         /\ Aloud # <<>> => owner = Who
         /\ Aloud # <<>> \/ Handed # <<>> => Voice(Who)
         /\ Aloud # <<>> => Handed = <<>>
         /\ \A p \in Producer : Voice(p) => p = Who
         /\ Who \in Producer /\ Who \in Writer
         /\ Silent => Aloud = <<>> /\ Handed = <<>>
<1>0. Who \in Producer /\ Who \in Writer /\ Len(<<>>) = 0 /\ <<>> \in Seq(Unit)
  BY EmptySeq DEF Who, Producer, Writer
<1>1. ASSUME Sends(Who)
      PROVE  /\ Aloud \in Seq(Unit) /\ Len(Aloud) = Frame /\ Aloud # <<>> /\ owner = Who
             /\ task[Who].frame = [kind |-> "media", seq |-> seq, units |-> Aloud]
             /\ Handed = <<>>
  <2>1. PICK u \in Seq(Unit) : task[Who] = Plays(u) /\ Len(u) = Frame
    BY <1>0, <1>1, SenderKnown DEF Producer
  <2>2. Aloud = u /\ task[Who].frame = [kind |-> "media", seq |-> seq, units |-> u]
    BY <1>1, <2>1 DEF Aloud, Plays
  <2>3. Len(u) # 0
    BY <2>1, LineAssumption
  <2>4. owner = Who
    BY <1>0, <1>1 DEF WireInv, LockKept
  <2>5. Handed = <<>>
    BY <1>1 DEF Handed, Waits, Sends
  <2> QED BY <1>0, <2>1, <2>2, <2>3, <2>4, <2>5
<1>2. ~Sends(Who) => Aloud = <<>>
  BY DEF Aloud
<1>3. Handed \in Seq(Unit) /\ \A i \in 1 .. Len(Handed) : Handed[i].line = line
  <2>1. CASE Waits(Who)
    <3>1. PICK u \in Seq(Unit) : task[Who] = Asks(u) /\ \A i \in 1 .. Len(u) : u[i].line = line
      BY <1>0, <2>1, WaiterKnown DEF Producer
    <3>2. Handed = u
      BY <2>1, <3>1 DEF Handed, Asks
    <3> QED BY <3>1, <3>2
  <2>2. CASE ~Waits(Who)
    BY <1>0, <2>2 DEF Handed
  <2> QED BY <2>1, <2>2
<1>4. \A p \in Producer : Voice(p) => p = Who
  BY SpeakerKnown DEF Producer, Who
<1>5. Aloud # <<>> \/ Handed # <<>> => Voice(Who)
  BY DEF Aloud, Handed, Waits, Sends, Voice
<1>6. Silent => ~Voice(Who)
  BY <1>0 DEF Silent, Producer
<1> QED
  BY <1>0, <1>1, <1>2, <1>3, <1>4, <1>5, <1>6 DEF WireInv, WireTyped

RestTyped == Aloud \in Seq(Unit) /\ Handed \in Seq(Unit) /\ pending \in Seq(Unit)

LEMMA RestIsTyped == WireInv => RestTyped
BY RestKnown DEF RestTyped

\* What a line has made only grows, and only while it goes on.
LEMMA MadeGrows ==
  ASSUME WireInv, WireInv', Flow
  PROVE  /\ \A l \in LineNos : made[l] \in Nat /\ made'[l] \in Nat /\ made[l] <= made'[l]
                               /\ (l # line => made'[l] = made[l])
         /\ line \in Nat /\ line' \in Nat /\ line <= line'
<1>1. made \in [LineNos -> Nat] /\ made' \in [LineNos -> Nat] /\ line \in Nat /\ line' \in Nat
  BY LineAssumption DEF WireInv, WireTyped
<1>2. line <= line'
  BY <1>1 DEF Flow, LineFlow
<1>3. made' = made \/ (line \in LineNos /\ \E n \in Nat : made' = [made EXCEPT ![line] = @ + n])
  BY DEF Flow, UnitsFlow, Stays, Drops, Wipes, Moves, Emits, Queues, Begins, Grows, Speaks
<1>4. CASE made' = made
  BY <1>1, <1>2, <1>4
<1>5. CASE line \in LineNos /\ \E n \in Nat : made' = [made EXCEPT ![line] = @ + n]
  BY <1>1, <1>2, <1>5
<1> QED
  BY <1>3, <1>4, <1>5

-----------------------------------------------------------------------------
\* The numbers on the wire rise up to the last one taken; the frame that is being sent has
\* that one, and nothing that was taken has it yet.
SeqInv ==
  /\ SequenceKept
  /\ \A i \in DOMAIN taken : taken[i].seq <= seq
  /\ \A w \in Writer : Sends(w) => \A i \in DOMAIN taken : taken[i].seq < seq

LEMMA SeqStep ==
  ASSUME WireInv, WireInv', SeqInv, SeqFlow
  PROVE  SeqInv'
<1>0. /\ seq \in Nat /\ taken \in Seq(FrameSent) /\ DOMAIN taken = 1 .. Len(taken) /\ Len(taken) \in Nat
      /\ \A i \in 1 .. Len(taken) : taken[i].seq \in Nat
  <2>1. taken \in Seq(FrameSent)
    BY DEF WireInv, WireTyped
  <2>2. \A f \in FrameSent : f.seq \in Nat
    BY DEF FrameSent
  <2> QED BY <2>1, <2>2, LenProperties, ElementOfSeq DEF WireInv, WireTyped
<1>1. CASE taken' = taken /\ seq' = seq /\ \A w \in Writer : Sends(w)' => Sends(w)
  BY <1>1 DEF SeqInv, SequenceKept
<1>2. CASE taken' = taken /\ seq' = seq + 1
  BY <1>0, <1>2 DEF SeqInv, SequenceKept
<1>3. ASSUME NEW w \in Writer, Sends(w), taken' = Append(taken, task[w].frame),
             \/ seq' = seq /\ \A v \in Writer : ~Sends(v)'
             \/ seq' = seq + 1
      PROVE  SeqInv'
  <2>1. task[w].frame \in FrameSent /\ task[w].frame.seq = seq
    <3>1. \/ \E u \in Seq(Unit) : task[w] = Plays(u)
          \/ \E kind \in {"mark", "clear"}, l \in LineNos : task[w] = SendsSign(kind, l)
      BY <1>3, SenderKnown
    <3>2. /\ \A u : Plays(u).frame.seq = seq
          /\ \A kind, l : SendsSign(kind, l).frame.seq = seq
      BY DEF Plays, SendsSign
    <3>3. task[w].frame.seq = seq
      BY <3>1, <3>2
    <3> QED BY <1>3, <3>3, SenderKnown
  <2> DEFINE n == Len(taken)
  <2>2. /\ DOMAIN taken' = 1 .. n + 1
        /\ \A i \in 1 .. n : taken'[i] = taken[i]
        /\ taken'[n + 1] = task[w].frame
    <3>1. taken' \in Seq(FrameSent) /\ Len(taken') = n + 1
          /\ (\A i \in 1 .. n : taken'[i] = taken[i]) /\ taken'[n + 1] = task[w].frame
      BY <1>0, <1>3, <2>1, AppendProperties
    <3> QED BY <3>1, LenProperties
  <2>3. \A i \in 1 .. n : taken[i].seq < seq
    BY <1>0, <1>3 DEF SeqInv
  <2>4. SequenceKept'
    <3> SUFFICES ASSUME NEW i \in 1 .. n + 1, NEW j \in 1 .. n + 1, i < j
                 PROVE  taken'[i].seq < taken'[j].seq
      BY <2>2 DEF SequenceKept
    <3>1. i \in 1 .. n
      BY <1>0
    <3>2. CASE j = n + 1
      BY <3>1, <3>2, <2>1, <2>2, <2>3
    <3>3. CASE j # n + 1
      <4>1. j \in 1 .. n
        BY <1>0, <3>3
      <4> QED BY <1>0, <2>2, <3>1, <4>1 DEF SeqInv, SequenceKept
    <3> QED BY <3>2, <3>3
  <2>5. \A i \in 1 .. n + 1 : taken'[i].seq <= seq
    <3> TAKE i \in 1 .. n + 1
    <3>1. CASE i = n + 1
      BY <1>0, <2>1, <2>2, <3>1
    <3>2. CASE i # n + 1
      <4>1. i \in 1 .. n
        BY <1>0, <3>2
      <4> QED BY <1>0, <2>2, <2>3, <4>1
    <3> QED BY <3>1, <3>2
  <2>6. \A i \in 1 .. n + 1 : taken'[i].seq \in Nat
    <3> TAKE i \in 1 .. n + 1
    <3>1. CASE i = n + 1
      BY <1>0, <2>1, <2>2, <3>1
    <3>2. CASE i # n + 1
      <4>1. i \in 1 .. n
        BY <1>0, <3>2
      <4> QED BY <1>0, <2>2, <4>1
    <3> QED BY <3>1, <3>2
  <2>7. CASE seq' = seq /\ \A v \in Writer : ~Sends(v)'
    BY <2>2, <2>4, <2>5, <2>7 DEF SeqInv
  <2>8. CASE seq' = seq + 1
    <3>1. \A i \in 1 .. n + 1 : taken'[i].seq < seq' /\ taken'[i].seq <= seq'
      BY <1>0, <2>5, <2>6, <2>8
    <3> QED BY <2>2, <2>4, <3>1 DEF SeqInv
  <2> QED BY <1>3, <2>7, <2>8
<1> QED
  BY <1>1, <1>2, <1>3 DEF SeqFlow

-----------------------------------------------------------------------------
\* Orders of units: within a sequence, of two, of one after the frames; and that they are
\* of lines begun and units made.
InOrder(s) == \A m, n \in 1 .. Len(s) : m < n => Before(s[m], s[n])
Follows(s, t) == \A m \in 1 .. Len(s), n \in 1 .. Len(t) : Before(s[m], t[n])
After(frames, s) ==
  \A i \in 1 .. Len(frames) : frames[i].kind = "media" => Follows(frames[i].units, s)
Known(s, l, m) == \A n \in 1 .. Len(s) : s[n].line <= l /\ s[n].nr <= m[s[n].line]

\* What was heard, what is being sent, what waits and what was handed over follow one
\* another: only all four together are kept by a step.
OrderInv ==
  /\ AudioInOrder
  /\ InOrder(Aloud) /\ InOrder(pending) /\ InOrder(Handed)
  /\ Follows(Aloud, pending) /\ Follows(pending, Handed)
  /\ After(taken, Aloud) /\ After(taken, pending) /\ After(taken, Handed)
  /\ Known(Aloud, line, made) /\ Known(pending, line, made) /\ Known(Handed, line, made)
  /\ \A i \in 1 .. Len(taken) : taken[i].kind = "media" => Known(taken[i].units, line, made)
  /\ \A l \in LineNos : l > line => made[l] = 0

\* The units that wait, with those handed over.
LEMMA Concatenated ==
  ASSUME NEW s \in Seq(Unit), NEW t \in Seq(Unit)
  PROVE  /\ s \o t \in Seq(Unit) /\ Len(s \o t) = Len(s) + Len(t)
         /\ InOrder(s) /\ InOrder(t) /\ Follows(s, t) => InOrder(s \o t)
         /\ \A frames : After(frames, s) /\ After(frames, t) => After(frames, s \o t)
         /\ \A l, m : Known(s, l, m) /\ Known(t, l, m) => Known(s \o t, l, m)
<1> DEFINE r == s \o t
<1>1. /\ r \in Seq(Unit) /\ Len(r) = Len(s) + Len(t) /\ Len(s) \in Nat /\ Len(t) \in Nat
      /\ \A i \in 1 .. Len(s) + Len(t) : r[i] = IF i <= Len(s) THEN s[i] ELSE t[i - Len(s)]
  BY ConcatProperties, LenProperties
<1> HIDE DEF r
<1>2. \A i \in 1 .. Len(r) : \/ i \in 1 .. Len(s) /\ r[i] = s[i]
                             \/ i - Len(s) \in 1 .. Len(t) /\ i > Len(s) /\ r[i] = t[i - Len(s)]
  BY <1>1
<1>3. ASSUME InOrder(s), InOrder(t), Follows(s, t)
      PROVE  InOrder(r)
  <2> SUFFICES ASSUME NEW m \in 1 .. Len(r), NEW n \in 1 .. Len(r), m < n
               PROVE  Before(r[m], r[n])
    BY DEF InOrder
  <2>1. CASE m \in 1 .. Len(s) /\ n \in 1 .. Len(s)
    <3>1. r[m] = s[m] /\ r[n] = s[n]
      BY <1>1, <1>2, <2>1
    <3> QED BY <1>3, <2>1, <3>1 DEF InOrder
  <2>2. CASE m \in 1 .. Len(s) /\ n > Len(s)
    <3>1. r[m] = s[m] /\ r[n] = t[n - Len(s)] /\ n - Len(s) \in 1 .. Len(t)
      BY <1>1, <1>2, <2>2
    <3> QED BY <1>3, <2>2, <3>1 DEF Follows
  <2>3. CASE m > Len(s)
    <3>1. /\ r[m] = t[m - Len(s)] /\ r[n] = t[n - Len(s)]
          /\ m - Len(s) \in 1 .. Len(t) /\ n - Len(s) \in 1 .. Len(t) /\ m - Len(s) < n - Len(s)
      BY <1>1, <1>2, <2>3
    <3> QED BY <1>3, <3>1 DEF InOrder
  <2> QED BY <1>1, <2>1, <2>2, <2>3
<1>4. ASSUME NEW frames, After(frames, s), After(frames, t)
      PROVE  After(frames, r)
  BY <1>2, <1>4 DEF After, Follows
<1>5. ASSUME NEW l, NEW m, Known(s, l, m), Known(t, l, m)
      PROVE  Known(r, l, m)
  BY <1>2, <1>5 DEF Known
<1> QED
  BY <1>1, <1>3, <1>4, <1>5 DEF r

\* What a step of the units makes of what there is to send: a frame, and the rest.
LEMMA SplitOrdered ==
  ASSUME NEW s \in Seq(Unit), Split(s), InOrder(s)
  PROVE  /\ InOrder(Aloud') /\ InOrder(pending') /\ Follows(Aloud', pending')
         /\ \A frames : After(frames, s) => After(frames, Aloud') /\ After(frames, pending')
         /\ \A l, m : Known(s, l, m) => Known(Aloud', l, m) /\ Known(pending', l, m)
<1>0. Len(s) \in Nat /\ Frame \in Nat \ {0}
  BY LenProperties, LineAssumption
<1>1. CASE Aloud' = <<>> /\ pending' = s
  <2>1. Len(<<>>) = 0
    BY EmptySeq
  <2> QED BY <1>1, <2>1 DEF InOrder, Follows, After, Known
<1>2. CASE /\ Len(s) >= Frame
           /\ Aloud' = SubSeq(s, 1, Frame) /\ pending' = SubSeq(s, Frame + 1, Len(s))
  <2>1. /\ Len(Aloud') = Frame /\ Len(pending') = Len(s) - Frame
        /\ \A i \in 1 .. Frame : Aloud'[i] = s[i]
        /\ \A i \in 1 .. Len(s) - Frame : pending'[i] = s[Frame + i]
    BY <1>2, FrameTaken
  <2>2. \A i \in 1 .. Frame : i \in 1 .. Len(s)
    BY <1>0, <1>2
  <2>3. \A i \in 1 .. Len(s) - Frame : Frame + i \in 1 .. Len(s)
    BY <1>0, <1>2
  <2>4. InOrder(Aloud') 
    BY <2>1, <2>2 DEF InOrder
  <2>5. InOrder(pending')
    <3>1. ASSUME NEW m \in 1 .. Len(s) - Frame, NEW n \in 1 .. Len(s) - Frame, m < n
          PROVE  Before(pending'[m], pending'[n])
      <4>1. Frame + m < Frame + n
        BY <1>0, <3>1
      <4> QED BY <2>1, <2>3, <4>1 DEF InOrder
    <3> QED BY <2>1, <3>1 DEF InOrder
  <2>6. Follows(Aloud', pending')
    <3>1. ASSUME NEW m \in 1 .. Frame, NEW n \in 1 .. Len(s) - Frame
          PROVE  Before(Aloud'[m], pending'[n])
      <4>1. m < Frame + n
        BY <1>0
      <4> QED BY <2>1, <2>2, <2>3, <4>1 DEF InOrder
    <3> QED BY <2>1, <3>1 DEF Follows
  <2>7. ASSUME NEW frames, After(frames, s)
        PROVE  After(frames, Aloud') /\ After(frames, pending')
    <3>1. ASSUME NEW i \in 1 .. Len(frames), frames[i].kind = "media"
          PROVE  Follows(frames[i].units, Aloud') /\ Follows(frames[i].units, pending')
      <4>1. Follows(frames[i].units, s)
        BY <2>7, <3>1 DEF After
      <4> QED BY <2>1, <2>2, <2>3, <4>1 DEF Follows
    <3> QED BY <3>1 DEF After
  <2>8. ASSUME NEW l, NEW m, Known(s, l, m)
        PROVE  Known(Aloud', l, m) /\ Known(pending', l, m)
    <3>1. Known(Aloud', l, m)
      BY <2>1, <2>2, <2>8 DEF Known
    <3>2. Known(pending', l, m)
      <4> SUFFICES ASSUME NEW i \in 1 .. Len(s) - Frame
                   PROVE  pending'[i].line <= l /\ pending'[i].nr <= m[pending'[i].line]
        BY <2>1 DEF Known
      <4>1. Frame + i \in 1 .. Len(s) /\ pending'[i] = s[Frame + i]
        BY <2>1, <2>3
      <4> QED BY <2>8, <4>1 DEF Known
    <3> QED BY <3>1, <3>2
  <2> QED BY <2>4, <2>5, <2>6, <2>7, <2>8
<1> QED
  BY <1>1, <1>2 DEF Split

\* What the carrier has heard once it is sent the frame f.
LEMMA AudioGrows ==
  ASSUME WireInv, OrderInv, NEW f \in FrameSent, taken' = Append(taken, f),
         f.kind = "media" => f.units = Aloud
  PROVE  /\ AudioInOrder'
         /\ \A i \in 1 .. Len(taken') : taken'[i].kind = "media" => Known(taken'[i].units, line, made)
         /\ \A s : After(taken, s) /\ (f.kind = "media" => Follows(Aloud, s)) => After(taken', s)
<1> DEFINE n == Len(taken)
<1>1. /\ n \in Nat /\ Len(taken') = n + 1 /\ DOMAIN taken' = 1 .. n + 1 /\ DOMAIN taken = 1 .. n
      /\ (\A i \in 1 .. n : taken'[i] = taken[i]) /\ taken'[n + 1] = f
  <2>1. taken \in Seq(FrameSent) /\ taken' \in Seq(FrameSent)
    BY AppendProperties DEF WireInv, WireTyped
  <2>2. n \in Nat /\ DOMAIN taken = 1 .. n /\ DOMAIN taken' = 1 .. Len(taken')
    BY <2>1, LenProperties
  <2>3. Len(taken') = n + 1 /\ (\A i \in 1 .. n : taken'[i] = taken[i]) /\ taken'[n + 1] = f
    BY <2>1, AppendProperties
  <2> QED BY <2>2, <2>3
<1>2. \A i \in 1 .. n + 1 : i \in 1 .. n \/ i = n + 1
  BY <1>1
<1>3. \A i \in 1 .. Len(taken') : taken'[i].kind = "media" => Known(taken'[i].units, line, made)
  BY <1>1, <1>2 DEF OrderInv
<1>4. ASSUME NEW s, After(taken, s), f.kind = "media" => Follows(Aloud, s)
      PROVE  After(taken', s)
  BY <1>1, <1>2, <1>4 DEF After
<1>5. /\ DOMAIN Aloud = 1 .. Len(Aloud)
      /\ \A i \in 1 .. n : taken[i].kind = "media" => DOMAIN taken[i].units = 1 .. Len(taken[i].units)
  <2>1. Aloud \in Seq(Unit)
    BY RestKnown
  <2>2. \A i \in 1 .. n : taken[i].kind = "media" => taken[i].units \in Seq(Unit)
    <3>1. \A g \in FrameSent : g.kind = "media" => g.units \in Seq(Unit)
      BY DEF FrameSent
    <3>2. \A i \in 1 .. n : taken[i] \in FrameSent
      BY ElementOfSeq DEF WireInv, WireTyped
    <3> QED BY <3>1, <3>2
  <2> QED BY <2>1, <2>2, LenProperties
<1>6. ASSUME NEW i \in 1 .. n + 1, taken'[i].kind = "media",
             NEW m \in DOMAIN taken'[i].units, NEW k \in DOMAIN taken'[i].units, m < k
      PROVE  Before(taken'[i].units[m], taken'[i].units[k])
  <2>1. CASE i \in 1 .. n
    BY <1>1, <1>6, <2>1 DEF OrderInv, AudioInOrder, Media
  <2>2. CASE i = n + 1
    BY <1>1, <1>5, <1>6, <2>2 DEF OrderInv, InOrder
  <2> QED BY <1>2, <2>1, <2>2
<1>7. ASSUME NEW i \in 1 .. n + 1, NEW j \in 1 .. n + 1, i < j,
             taken'[i].kind = "media", taken'[j].kind = "media",
             NEW m \in DOMAIN taken'[i].units, NEW k \in DOMAIN taken'[j].units
      PROVE  Before(taken'[i].units[m], taken'[j].units[k])
  <2>0. i \in 1 .. n /\ taken'[i] = taken[i]
    BY <1>1, <1>2, <1>7
  <2>1. CASE j \in 1 .. n
    BY <1>1, <1>7, <2>0, <2>1 DEF OrderInv, AudioInOrder, Media
  <2>2. CASE j = n + 1
    <3>1. taken'[j].units = Aloud /\ Follows(taken[i].units, Aloud)
      BY <1>1, <1>7, <2>0, <2>2 DEF OrderInv, After
    <3> QED BY <1>5, <1>7, <2>0, <3>1 DEF Follows
  <2> QED BY <1>2, <2>1, <2>2
<1>8. AudioInOrder'
  <2>1. \A i \in Media' : i \in 1 .. n + 1 /\ taken'[i].kind = "media"
    BY <1>1 DEF Media
  <2>2. \A i \in Media' : \A m, k \in DOMAIN taken'[i].units :
          m < k => Before(taken'[i].units[m], taken'[i].units[k])
    BY <1>6, <2>1
  <2>3. \A i, j \in Media' : i < j => \A m \in DOMAIN taken'[i].units, k \in DOMAIN taken'[j].units :
          Before(taken'[i].units[m], taken'[j].units[k])
    BY <1>7, <2>1
  <2> QED BY <2>2, <2>3 DEF AudioInOrder
<1> QED
  BY <1>3, <1>4, <1>8

\* Every step keeps the order.
LEMMA OrderStep ==
  ASSUME WireInv, WireInv', OrderInv, Flow
  PROVE  OrderInv'
<1>1. /\ Aloud \in Seq(Unit) /\ Handed \in Seq(Unit) /\ pending \in Seq(Unit)
      /\ Aloud' \in Seq(Unit) /\ Handed' \in Seq(Unit) /\ pending' \in Seq(Unit)
      /\ Aloud # <<>> => task[Who].frame = [kind |-> "media", seq |-> seq, units |-> Aloud]
      /\ Aloud # <<>> => Sends(Who) /\ Who \in Writer
  <2>1. RestTyped'
    BY RestIsTyped, PTL
  <2> QED BY <2>1, RestKnown DEF RestTyped
<1>2. /\ \A l \in LineNos : made[l] \in Nat /\ made'[l] \in Nat /\ made[l] <= made'[l]
                               /\ (l # line => made'[l] = made[l])
      /\ line \in Nat /\ line' \in Nat /\ line <= line'
  BY MadeGrows
<1>3. \A l \in LineNos : l > line' => made'[l] = 0
  BY <1>2 DEF OrderInv, LineNos
<1>4. ASSUME NEW s \in Seq(Unit), Known(s, line, made)
      PROVE  Known(s, line', made')
  <2>1. \A i \in 1 .. Len(s) : s[i].line \in LineNos /\ s[i].nr \in Nat
    <3>1. \A u \in Unit : u.line \in LineNos /\ u.nr \in Nat
      BY DEF Unit
    <3> QED BY <3>1, ElementOfSeq
  <2> SUFFICES ASSUME NEW i \in 1 .. Len(s)
               PROVE  s[i].line <= line' /\ s[i].nr <= made'[s[i].line]
    BY DEF Known
  <2>2. s[i].line <= line /\ s[i].nr <= made[s[i].line]
    BY <1>4 DEF Known
  <2> QED BY <1>2, <2>1, <2>2 DEF LineNos
<1>5. \A i \in 1 .. Len(taken) : taken[i].kind = "media" => taken[i].units \in Seq(Unit)
  <2>1. \A g \in FrameSent : g.kind = "media" => g.units \in Seq(Unit)
    BY DEF FrameSent
  <2>2. \A i \in 1 .. Len(taken) : taken[i] \in FrameSent
    BY ElementOfSeq DEF WireInv, WireTyped
  <2> QED BY <2>1, <2>2
<1>6. Len(<<>>) = 0
  BY EmptySeq
\* What has been heard, by what the socket takes.
<1> DEFINE HeardKept == /\ AudioInOrder'
                        /\ \A i \in 1 .. Len(taken') : taken'[i].kind = "media" =>
                             Known(taken'[i].units, line', made')
<1>7. ASSUME SignalOut
      PROVE  HeardKept /\ \A s : After(taken, s) => After(taken', s)
  <2>1. CASE taken' = taken
    <3>1. AudioInOrder'
      BY <2>1 DEF OrderInv, AudioInOrder, Media
    <3> QED BY <1>4, <1>5, <2>1, <3>1 DEF OrderInv
  <2>2. ASSUME NEW w \in {"talker", "consumer"}, Sends(w), taken' = Append(taken, task[w].frame)
        PROVE  HeardKept /\ \A s : After(taken, s) => After(taken', s)
    <3>1. task[w].frame \in FrameSent /\ task[w].frame.kind # "media"
      <4>1. w \in Writer /\ w \notin Producer
        BY DEF Writer, Producer
      <4>2. PICK kind \in {"mark", "clear"}, l \in LineNos : task[w] = SendsSign(kind, l)
        BY <2>2, <4>1, SenderKnown
      <4>3. task[w].frame.kind = kind
        BY <4>2 DEF SendsSign
      <4> QED BY <2>2, <4>1, <4>2, <4>3, SenderKnown
    <3>2. /\ AudioInOrder'
          /\ \A i \in 1 .. Len(taken') : taken'[i].kind = "media" => Known(taken'[i].units, line, made)
          /\ \A s : After(taken, s) => After(taken', s)
      BY <2>2, <3>1, AudioGrows
    <3>3. \A i \in 1 .. Len(taken') : taken'[i].kind = "media" => taken'[i].units \in Seq(Unit)
      <4>1. \A g \in FrameSent : g.kind = "media" => g.units \in Seq(Unit)
        BY DEF FrameSent
      <4>2. \A i \in 1 .. Len(taken') : taken'[i] \in FrameSent
        BY ElementOfSeq DEF WireInv, WireTyped
      <4> QED BY <4>1, <4>2
    <3> QED BY <1>4, <3>2, <3>3
  <2> QED BY <1>7, <2>1, <2>2 DEF SignalOut
<1>8. ASSUME AudioOut
      PROVE  HeardKept /\ \A s : After(taken, s) /\ Follows(Aloud, s) => After(taken', s)
  <2> DEFINE f == [kind |-> "media", seq |-> seq, units |-> Aloud]
  <2>1. f \in FrameSent /\ taken' = Append(taken, f) /\ f.units = Aloud
    BY <1>1, <1>8 DEF AudioOut, FrameSent, WireInv, WireTyped
  <2>2. /\ AudioInOrder'
        /\ \A i \in 1 .. Len(taken') : taken'[i].kind = "media" => Known(taken'[i].units, line, made)
        /\ \A s : After(taken, s) /\ Follows(Aloud, s) => After(taken', s)
    <3> HIDE DEF f
    <3> QED BY <2>1, AudioGrows
  <2>3. \A i \in 1 .. Len(taken') : taken'[i].kind = "media" => taken'[i].units \in Seq(Unit)
    <3>1. \A g \in FrameSent : g.kind = "media" => g.units \in Seq(Unit)
      BY DEF FrameSent
    <3>2. \A i \in 1 .. Len(taken') : taken'[i] \in FrameSent
      BY ElementOfSeq DEF WireInv, WireTyped
    <3> QED BY <3>1, <3>2
  <2> QED BY <1>4, <2>2, <2>3
<1> DEFINE RestKept == /\ InOrder(Aloud') /\ InOrder(pending') /\ InOrder(Handed')
                       /\ Follows(Aloud', pending') /\ Follows(pending', Handed')
                       /\ After(taken', Aloud') /\ After(taken', pending') /\ After(taken', Handed')
                       /\ Known(Aloud', line', made') /\ Known(pending', line', made')
                       /\ Known(Handed', line', made')
<1>9. InOrder(<<>>) /\ (\A s : Follows(<<>>, s) /\ Follows(s, <<>>)) /\ (\A fs : After(fs, <<>>))
      /\ (\A l, m : Known(<<>>, l, m))
  BY <1>6 DEF InOrder, Follows, After, Known
<1>10. ASSUME HeardKept, RestKept
       PROVE  OrderInv'
  BY <1>3, <1>10 DEF OrderInv
<1> HIDE DEF HeardKept, RestKept
<1>11. CASE Stays
  <2>1. HeardKept /\ \A s : After(taken, s) => After(taken', s)
    BY <1>7, <1>11 DEF Stays
  <2>2. RestKept
    BY <1>1, <1>4, <1>11, <2>1 DEF Stays, OrderInv, RestKept
  <2> QED BY <1>10, <2>1, <2>2
<1>12. CASE Drops
  <2>1. HeardKept /\ After(taken', pending)
    BY <1>7, <1>8, <1>12 DEF Drops, OrderInv
  <2>2. RestKept
    BY <1>1, <1>4, <1>9, <1>12, <2>1 DEF Drops, OrderInv, RestKept
  <2> QED BY <1>10, <2>1, <2>2
<1>13. CASE Wipes
  <2>1. HeardKept /\ \A s : After(taken, s) => After(taken', s)
    BY <1>7, <1>13 DEF Wipes, SignalOut
  <2>2. RestKept
    BY <1>1, <1>4, <1>9, <1>13, <2>1 DEF Wipes, OrderInv, RestKept
  <2> QED BY <1>10, <2>1, <2>2
<1>14. ASSUME NEW s \in Seq(Unit), Split(s), Handed' = <<>>, InOrder(s), Known(s, line', made'),
              After(taken', s)
       PROVE  RestKept
  BY <1>9, <1>14, SplitOrdered DEF RestKept
<1>15. CASE Moves
  <2>1. HeardKept /\ \A s : After(taken, s) => After(taken', s)
    BY <1>7, <1>15 DEF Moves, SignalOut
  <2>2. /\ pending \o Handed \in Seq(Unit) /\ InOrder(pending \o Handed)
        /\ After(taken, pending \o Handed) /\ Known(pending \o Handed, line, made)
    BY <1>1, Concatenated DEF OrderInv
  <2>3. RestKept
    <3> DEFINE s == pending \o Handed
    <3>1. Split(s) /\ Handed' = <<>>
      BY <1>15 DEF Moves
    <3>2. Known(s, line', made') /\ After(taken', s) /\ s \in Seq(Unit) /\ InOrder(s)
      BY <1>4, <2>1, <2>2
    <3> HIDE DEF s
    <3> QED BY <1>14, <3>1, <3>2
  <2> QED BY <1>10, <2>1, <2>3
<1>16. CASE Emits
  <2>1. HeardKept /\ After(taken', pending)
    BY <1>8, <1>16 DEF Emits, OrderInv
  <2>2. RestKept
    BY <1>1, <1>4, <1>14, <1>16, <2>1 DEF Emits, OrderInv
  <2> QED BY <1>10, <2>1, <2>2
<1>17. ASSUME NEW n \in Nat, Queues(n) \/ Begins(n)
       PROVE  OrderInv'
  <2> DEFINE c == Chunk(line, n)
  <2>1. HeardKept /\ \A s : After(taken, s) => After(taken', s)
    BY <1>7, <1>17 DEF Queues, Begins, Grows, SignalOut
  <2>2. line \in LineNos /\ line' = line /\ made'[line] = made[line] + n /\ made[line] \in Nat
    BY <1>17 DEF Queues, Begins, Grows, Speaks, WireInv, WireTyped
  <2>3. /\ c \in Seq(Unit) /\ Len(c) = n
        /\ \A i \in 1 .. n : c[i] = [line |-> line, nr |-> made[line] + i]
    BY <2>2, ChunkTyped
  <2> HIDE DEF c
  <2>4. \A i \in 1 .. n : c[i].line = line /\ c[i].nr = made[line] + i
    BY <2>3
  <2>5. InOrder(c)
    BY <2>2, <2>3, <2>4 DEF InOrder, Before
  <2>6. Known(c, line', made')
    <3> SUFFICES ASSUME NEW i \in 1 .. n
                 PROVE  c[i].line <= line' /\ c[i].nr <= made'[c[i].line]
      BY <2>3 DEF Known
    <3>1. made[line] + i <= made[line] + n
      BY <2>2
    <3> QED BY <1>2, <2>2, <2>4, <3>1
  <2>7. ASSUME NEW s \in Seq(Unit), Known(s, line, made)
        PROVE  Follows(s, c)
    <3> SUFFICES ASSUME NEW m \in 1 .. Len(s), NEW i \in 1 .. n
                 PROVE  Before(s[m], c[i])
      BY <2>3 DEF Follows
    <3>1. s[m].line \in LineNos /\ s[m].nr \in Nat
      <4>1. s[m] \in Unit
        BY ElementOfSeq
      <4> QED BY <4>1 DEF Unit
    <3>2. s[m].line <= line /\ s[m].nr <= made[s[m].line]
      BY <2>7 DEF Known
    <3>3. CASE s[m].line = line
      <4>1. s[m].nr < made[line] + i
        BY <2>2, <3>1, <3>2, <3>3
      <4> QED BY <2>4, <3>3, <4>1 DEF Before
    <3>4. CASE s[m].line # line
      <4>1. s[m].line < line
        BY <1>2, <3>1, <3>2, <3>4 DEF LineNos
      <4> QED BY <2>4, <4>1 DEF Before
    <3> QED BY <3>3, <3>4
  <2>8. After(taken, c)
    BY <1>5, <2>7 DEF After, OrderInv
  <2>9. Follows(pending, c)
    BY <1>1, <2>7 DEF OrderInv
  <2>10. CASE Queues(n)
    <3>1. RestKept
      BY <1>1, <1>4, <1>9, <2>1, <2>5, <2>6, <2>8, <2>9, <2>10 DEF Queues, OrderInv, RestKept, c
    <3> QED BY <1>10, <2>1, <3>1
  <2>11. CASE Begins(n)
    <3> DEFINE s == pending \o c
    <3>1. s \in Seq(Unit) /\ InOrder(s) /\ After(taken, s) /\ Known(s, line', made')
      <4>1. InOrder(pending) /\ After(taken, pending) /\ Known(pending, line', made')
        BY <1>1, <1>4 DEF OrderInv
      <4> QED BY <1>1, <2>3, <2>5, <2>6, <2>8, <2>9, <4>1, Concatenated
    <3>2. Split(s) /\ Handed' = <<>>
      BY <2>11 DEF Begins, c
    <3> HIDE DEF s
    <3>3. RestKept
      BY <1>14, <2>1, <3>1, <3>2
    <3> QED BY <1>10, <2>1, <3>3
  <2> QED BY <1>17, <2>10, <2>11
<1> QED
  BY <1>11, <1>12, <1>13, <1>15, <1>16, <1>17 DEF Flow, UnitsFlow

-----------------------------------------------------------------------------
(* The clears. *)

\* Units of lines up to l, and of lines after l.
AtMost(s, l) == \A n \in 1 .. Len(s) : s[n].line <= l
Beyond(s, l) == \A n \in 1 .. Len(s) : s[n].line > l
HeardAtMost(frames, l) ==
  \A i \in 1 .. Len(frames) : frames[i].kind = "media" => AtMost(frames[i].units, l)

\* ClearCutsClean by the frames' places.
ClearsPlain == \A c, i \in 1 .. Len(taken) :
  taken[c].kind = "clear" /\ taken[i].kind = "media" =>
    IF i < c THEN AtMost(taken[i].units, taken[c].line) ELSE Beyond(taken[i].units, taken[c].line)

\* A line nothing more comes of.
Past(l) == l < line \/ (l = line /\ Silent)

\* Of a line that was cleared nothing is under way and nothing comes; of a clear that is on
\* its way, all that was heard and all that waits is of its line or before.
ClearInv ==
  /\ ClearsPlain
  /\ \A c \in 1 .. Len(taken) : taken[c].kind = "clear" =>
       Past(taken[c].line) /\ Beyond(Aloud, taken[c].line) /\ Beyond(pending, taken[c].line)
  /\ Clearing => /\ HeardAtMost(taken, ClearLine) /\ AtMost(pending, ClearLine)
                 /\ Past(ClearLine)
                 /\ Sends("consumer") => pending = <<>>

\* The frames taken are those taken before, or one more.
LEMMA FramesKnown ==
  ASSUME WireInv
  PROVE  /\ taken \in Seq(FrameSent) /\ Len(taken) \in Nat /\ DOMAIN taken = 1 .. Len(taken)
         /\ \A i \in 1 .. Len(taken) :
              /\ taken[i].kind = "media" => taken[i].units \in Seq(Unit)
              /\ taken[i].kind = "media" => DOMAIN taken[i].units = 1 .. Len(taken[i].units)
              /\ taken[i].kind # "media" => taken[i].line \in LineNos
<1>1. \A g \in FrameSent : /\ g.kind = "media" => g.units \in Seq(Unit)
                           /\ g.kind # "media" => g.line \in LineNos
  BY DEF FrameSent
<1>2. taken \in Seq(FrameSent)
  BY DEF WireInv, WireTyped
<1>3. \A i \in 1 .. Len(taken) : taken[i] \in FrameSent
  BY <1>2, ElementOfSeq
<1> QED
  BY <1>1, <1>2, <1>3, LenProperties

LEMMA FrameAppended ==
  ASSUME WireInv, NEW f \in FrameSent, taken' = Append(taken, f)
  PROVE  /\ Len(taken') = Len(taken) + 1
         /\ \A i \in 1 .. Len(taken) : taken'[i] = taken[i]
         /\ taken'[Len(taken) + 1] = f
         /\ \A i \in 1 .. Len(taken') : i \in 1 .. Len(taken) \/ i = Len(taken) + 1
<1>1. taken \in Seq(FrameSent) /\ Len(taken) \in Nat
  BY FramesKnown
<1>2. /\ Len(taken') = Len(taken) + 1
      /\ \A i \in 1 .. Len(taken) : taken'[i] = taken[i]
      /\ taken'[Len(taken) + 1] = f
  BY <1>1, AppendProperties
<1> QED
  BY <1>1, <1>2

\* The clears as the carrier sees them.
LEMMA ClearsClean ==
  ASSUME WireInv, ClearInv
  PROVE  ClearCutsClean
<1> SUFFICES ASSUME NEW c \in DOMAIN taken, taken[c].kind = "clear",
                    NEW i \in Media, NEW n \in DOMAIN taken[i].units
             PROVE  IF i < c THEN taken[i].units[n].line <= taken[c].line
                             ELSE taken[i].units[n].line > taken[c].line
  BY DEF ClearCutsClean
<1>1. /\ c \in 1 .. Len(taken) /\ i \in 1 .. Len(taken) /\ taken[i].kind = "media"
      /\ n \in 1 .. Len(taken[i].units)
  BY FramesKnown DEF Media
<1> QED
  BY <1>1 DEF ClearInv, ClearsPlain, AtMost, Beyond

\* The clear that waits or is sent is of a line cut short, and no audio is being sent.
LEMMA ClearingKnown ==
  ASSUME WireInv, Clearing
  PROVE  /\ Aloud = <<>>
         /\ ClearLine \in LineNos /\ ClearLine <= line /\ ClearLine \in cut
         /\ Sends("consumer") =>
              task["consumer"].frame = [kind |-> "clear", seq |-> seq, line |-> ClearLine]
<1>0. "consumer" \in Writer /\ "consumer" \notin Producer /\ "consumer" # "talker"
  BY DEF Writer, Producer
<1>1. Aloud = <<>>
  <2>1. SUFFICES ASSUME Sends(Who) PROVE FALSE
    BY RestKnown
  <2>2. Who \in Producer /\ Who \in Writer /\ Who # "consumer"
    BY RestKnown DEF Producer
  <2>3. CASE Waits("consumer")
    BY <2>1, <2>2, <2>3 DEF WireInv, TurnsKept
  <2>4. CASE Sends("consumer")
    BY <1>0, <2>1, <2>2, <2>4 DEF WireInv, LockKept
  <2> QED BY <2>3, <2>4 DEF Clearing
<1>2. task["consumer"] # Idle /\ task["consumer"].at # "clears"
  BY Places DEF Clearing, Waits, Sends
<1>3. PICK l \in LineNos : /\ l \in cut /\ l <= line
                          /\ \/ task["consumer"] = [at |-> "clears", line |-> l]
                             \/ task["consumer"] = AsksSignal("clear", l)
                             \/ task["consumer"] = SendsSign("clear", l)
  BY <1>2 DEF WireInv, RolesKept, ConsumerKept
<1>4. CASE task["consumer"] = AsksSignal("clear", l)
  <2>1. Waits("consumer") /\ ~Sends("consumer") /\ task["consumer"].job.line = l
    BY <1>4 DEF Waits, Sends, AsksSignal
  <2> QED BY <1>1, <1>3, <2>1 DEF ClearLine
<1>5. CASE task["consumer"] = SendsSign("clear", l)
  <2>1. /\ Sends("consumer") /\ ~Waits("consumer")
        /\ task["consumer"].frame = [kind |-> "clear", seq |-> seq, line |-> l]
    BY <1>5 DEF Waits, Sends, SendsSign
  <2>2. ClearLine = l
    BY <2>1 DEF ClearLine
  <2> QED BY <1>1, <1>3, <2>1, <2>2
<1> QED
  BY <1>2, <1>3, <1>4, <1>5

\* A line that is past stays so.
LEMMA PastStays ==
  ASSUME WireInv, Flow, NEW l \in LineNos, Past(l)
  PROVE  Past(l)'
<1>1. line \in Nat /\ LineNos \subseteq Nat
  BY LineAssumption DEF WireInv, WireTyped, LineNos
<1> QED
  BY <1>1 DEF Flow, LineFlow, Past, Silent, Producer

\* What is still to be sent comes after a line that is past: it does after a step.
LEMMA BeyondStays ==
  ASSUME WireInv, Flow, NEW l \in LineNos, Past(l), Beyond(Aloud, l), Beyond(pending, l)
  PROVE  Beyond(Aloud', l) /\ Beyond(pending', l)
<1>0. Len(<<>>) = 0 /\ (\A k : Beyond(<<>>, k)) /\ line \in Nat /\ l \in Nat
  BY EmptySeq, LineAssumption DEF Beyond, WireInv, WireTyped, LineNos
<1>1. Aloud \in Seq(Unit) /\ Handed \in Seq(Unit) /\ pending \in Seq(Unit)
  BY RestKnown
<1>2. Beyond(Handed, l)
  <2>1. CASE Handed = <<>>
    BY <1>0, <2>1
  <2>2. CASE Handed # <<>>
    <3>1. l < line /\ \A i \in 1 .. Len(Handed) : Handed[i].line = line
      BY <2>2, RestKnown DEF Past
    <3> QED BY <1>0, <3>1 DEF Beyond
  <2> QED BY <2>1, <2>2
<1>3. ASSUME NEW s \in Seq(Unit), NEW t \in Seq(Unit), Beyond(s, l), Beyond(t, l)
      PROVE  s \o t \in Seq(Unit) /\ Beyond(s \o t, l)
  <2>1. /\ s \o t \in Seq(Unit) /\ Len(s \o t) = Len(s) + Len(t) /\ Len(s) \in Nat /\ Len(t) \in Nat
        /\ \A i \in 1 .. Len(s) + Len(t) : (s \o t)[i] = IF i <= Len(s) THEN s[i] ELSE t[i - Len(s)]
    BY ConcatProperties, LenProperties
  <2>2. ASSUME NEW i \in 1 .. Len(s) + Len(t)
        PROVE  (s \o t)[i].line > l
    <3>1. CASE i <= Len(s)
      <4>1. i \in 1 .. Len(s) /\ (s \o t)[i] = s[i]
        BY <2>1, <3>1
      <4> QED BY <1>3, <4>1 DEF Beyond
    <3>2. CASE ~(i <= Len(s))
      <4>1. i - Len(s) \in 1 .. Len(t) /\ (s \o t)[i] = t[i - Len(s)]
        BY <2>1, <3>2
      <4> QED BY <1>3, <4>1 DEF Beyond
    <3> QED BY <3>1, <3>2
  <2> QED BY <2>1, <2>2 DEF Beyond
<1>4. ASSUME NEW s \in Seq(Unit), Split(s), Beyond(s, l)
      PROVE  Beyond(Aloud', l) /\ Beyond(pending', l)
  <2>0. Len(s) \in Nat /\ Frame \in Nat \ {0}
    BY LenProperties, LineAssumption
  <2>1. CASE Aloud' = <<>> /\ pending' = s
    BY <1>0, <1>4, <2>1
  <2>2. CASE /\ Len(s) >= Frame
             /\ Aloud' = SubSeq(s, 1, Frame) /\ pending' = SubSeq(s, Frame + 1, Len(s))
    <3>1. /\ Len(Aloud') = Frame /\ Len(pending') = Len(s) - Frame
          /\ \A i \in 1 .. Frame : Aloud'[i] = s[i]
          /\ \A i \in 1 .. Len(s) - Frame : pending'[i] = s[Frame + i]
      BY <2>2, FrameTaken
    <3>2. \A i \in 1 .. Frame : i \in 1 .. Len(s)
      BY <2>0, <2>2
    <3>3. \A i \in 1 .. Len(s) - Frame : Frame + i \in 1 .. Len(s)
      BY <2>0, <2>2
    <3>4. Beyond(Aloud', l)
      BY <1>4, <3>1, <3>2 DEF Beyond
    <3>5. Beyond(pending', l)
      <4> SUFFICES ASSUME NEW i \in 1 .. Len(s) - Frame PROVE pending'[i].line > l
        BY <3>1 DEF Beyond
      <4>1. Frame + i \in 1 .. Len(s) /\ pending'[i] = s[Frame + i]
        BY <3>1, <3>3
      <4> QED BY <1>4, <4>1 DEF Beyond
    <3> QED BY <3>4, <3>5
  <2> QED BY <1>4, <2>1, <2>2 DEF Split
<1>5. CASE Stays \/ Drops \/ Wipes
  BY <1>0, <1>5 DEF Stays, Drops, Wipes
<1>6. CASE Moves
  <2>1. Split(pending \o Handed)
    BY <1>6 DEF Moves
  <2> DEFINE s == pending \o Handed
  <2>2. s \in Seq(Unit) /\ Beyond(s, l)
    BY <1>1, <1>2, <1>3
  <2> HIDE DEF s
  <2> QED BY <1>4, <2>1, <2>2 DEF s
<1>7. CASE Emits
  BY <1>1, <1>4, <1>7 DEF Emits
<1>8. ASSUME NEW n \in Nat, Queues(n) \/ Begins(n)
      PROVE  Beyond(Aloud', l) /\ Beyond(pending', l)
  <2>1. CASE Queues(n)
    BY <1>0, <2>1 DEF Queues
  <2>2. CASE Begins(n)
    <3> DEFINE c == Chunk(line, n)
               s == pending \o c
    <3>1. Voice(Who) /\ line \in LineNos
      BY <2>2 DEF Begins, Grows, Speaks
    <3>2. l < line
      <4>1. ~Silent
        BY <3>1, RestKnown DEF Silent, Producer
      <4> QED BY <4>1 DEF Past
    <3>3. /\ c \in Seq(Unit) /\ Len(c) = n
          /\ \A i \in 1 .. n : c[i] = [line |-> line, nr |-> made[line] + i]
      BY <3>1, ChunkTyped
    <3>4. Beyond(c, l)
      BY <1>0, <3>2, <3>3 DEF Beyond
    <3>5. Split(s)
      BY <2>2 DEF Begins
    <3> HIDE DEF c
    <3>6. s \in Seq(Unit) /\ Beyond(s, l)
      BY <1>1, <1>3, <3>3, <3>4
    <3> HIDE DEF s
    <3> QED BY <1>4, <3>5, <3>6
  <2> QED BY <1>8, <2>1, <2>2
<1> QED
  BY <1>5, <1>6, <1>7, <1>8 DEF Flow, UnitsFlow

\* What the socket takes in a step.
TakesOne(w) == Sends(w) /\ taken' = Append(taken, task[w].frame)

LEMMA TakenFlow ==
  ASSUME WireInv, Flow
  PROVE  \/ taken' = taken
         \/ /\ (AudioOut /\ Drops) \/ Emits
            /\ [kind |-> "media", seq |-> seq, units |-> Aloud] \in FrameSent
         \/ /\ TakesOne("consumer") /\ (Stays \/ Drops)
            /\ task["consumer"].frame = [kind |-> "clear", seq |-> seq, line |-> ClearLine]
            /\ task["consumer"].frame \in FrameSent
         \/ /\ TakesOne("talker") /\ (Stays \/ Drops)
            /\ line \in LineNos /\ Silent
            /\ task["talker"].frame = [kind |-> "mark", seq |-> seq, line |-> line]
            /\ task["talker"].frame \in FrameSent
<1>1. [kind |-> "media", seq |-> seq, units |-> Aloud] \in FrameSent
  BY RestKnown DEF FrameSent, WireInv, WireTyped
<1>2. ASSUME TakesOne("consumer")
      PROVE  /\ task["consumer"].frame = [kind |-> "clear", seq |-> seq, line |-> ClearLine]
             /\ task["consumer"].frame \in FrameSent
  BY <1>2, ClearingKnown, SenderKnown DEF TakesOne, Clearing, Writer
<1>3. ASSUME TakesOne("talker")
      PROVE  /\ line \in LineNos /\ Silent
             /\ task["talker"].frame = [kind |-> "mark", seq |-> seq, line |-> line]
             /\ task["talker"].frame \in FrameSent
  <2>1. task["talker"] # Idle /\ Sends("talker")
    BY <1>3, Places DEF TakesOne, Sends
  <2>2. /\ line \in LineNos
        /\ \/ task["talker"] = [at |-> "speaks", line |-> line]
           \/ task["talker"] = [at |-> "woken", line |-> line]
           \/ task["talker"] = AsksSignal("mark", line)
           \/ task["talker"] = SendsSign("mark", line)
    BY <2>1 DEF WireInv, RolesKept, TalkerKept
  <2>3. task["talker"] = SendsSign("mark", line)
    <3>1. task["talker"].at = "sends"
      BY <2>1 DEF Sends
    <3>2. /\ task["talker"] # [at |-> "speaks", line |-> line]
          /\ task["talker"] # [at |-> "woken", line |-> line]
      BY <3>1
    <3> QED BY <2>2, <3>1, <3>2, Places
  <2>4. task["talker"].frame = [kind |-> "mark", seq |-> seq, line |-> line]
    BY <2>3 DEF SendsSign
  <2>5. Silent
    <3>1. task["talker"].at = "sends" /\ Voice("talker")
      BY <2>1 DEF Sends, Voice
    <3> QED BY <3>1 DEF WireInv, RolesKept, Silent
  <2>6. task["talker"].frame \in FrameSent
    BY <2>1, SenderKnown DEF Writer
  <2> QED BY <2>2, <2>4, <2>5, <2>6
<1>4. CASE Stays
  BY <1>2, <1>3, <1>4 DEF Stays, SignalOut, TakesOne
<1>5. CASE Drops
  BY <1>1, <1>2, <1>3, <1>5 DEF Drops, SignalOut, TakesOne
<1>6. CASE Emits
  BY <1>1, <1>6 DEF Emits
<1>7. CASE Wipes \/ Moves \/ \E n \in Nat : Queues(n) \/ Begins(n)
  BY <1>7 DEF Wipes, Moves, Queues, Begins, Grows
<1> QED
  BY <1>4, <1>5, <1>6, <1>7 DEF Flow, UnitsFlow

-----------------------------------------------------------------------------
(* The marks. *)

\* A unit of the line that has gone to the carrier, by a frame up to the one named;
\* and one that is on its way.
Carries(s, l, nr) == \E n \in 1 .. Len(s) : s[n] = [line |-> l, nr |-> nr]
\* Whether a unit has gone by the frames up to one of them.
Delivered(frames, l, nr, upTo) ==
  \E i \in 1 .. upTo : frames[i].kind = "media" /\ Carries(frames[i].units, l, nr)

\* All of a line but for less than a frame has gone.
Whole(frames, l, top, upTo) ==
  \A nr \in 1 .. top : top - nr >= Frame - 1 => Delivered(frames, l, nr, upTo)

\* The units of a line end a sequence, in a row up to "top".
Newest(s, l, top) == \A k \in 1 .. Len(s) : s[k].line = l => s[k].nr = top - Len(s) + k

\* A mark is of a line that is past and, unless that was cut, follows it.
MarksPlain == \A c \in 1 .. Len(taken) : taken[c].kind = "mark" =>
  /\ Past(taken[c].line)
  /\ taken[c].line \notin cut => Whole(taken, taken[c].line, made[taken[c].line], c)

\* Of a line that goes on, every unit has gone or is on its way.
LineKept == open /\ line \in LineNos /\ line \notin cut =>
  /\ Newest(Handed, line, made[line])
  /\ Newest(pending, line, made[line] - Len(Handed))
  /\ \A nr \in 1 .. made[line] :
       \/ Delivered(taken, line, nr, Len(taken)) \/ Carries(Aloud, line, nr)
       \/ Carries(pending, line, nr) \/ Carries(Handed, line, nr)

\* What waits is less than a frame.
ShortKept == open /\ Aloud = <<>> /\ (Ongoing \/ line \notin cut) /\ ~Busy => Len(pending) < Frame

\* The hold tone hands over whole frames.
HumKept ==
  /\ Voice("hold") /\ Aloud # <<>> => Len(pending) < Frame
  /\ Voice("hold") /\ Handed # <<>> => Len(Handed) = Frame

\* The mark comes once the line is said: then no unit of the line is on its way but for
\* what waits, which is less than a frame.
MarkInv == MarksPlain /\ LineKept /\ ShortKept /\ HumKept

LEMMA HeardGrows ==
  ASSUME WireInv, NEW f \in FrameSent, taken' = Append(taken, f), NEW l,
         HeardAtMost(taken, l), f.kind = "media" => AtMost(f.units, l)
  PROVE  HeardAtMost(taken', l)
BY FrameAppended DEF HeardAtMost

\* Nothing that comes of what is sent or waits exceeds the line.
LEMMA HeardSoFar ==
  ASSUME WireInv, OrderInv
  PROVE  HeardAtMost(taken, line) /\ AtMost(pending, line) /\ AtMost(Aloud, line)
BY DEF OrderInv, Known, HeardAtMost, AtMost

\* Every step keeps the clears clean.
LEMMA ClearStep ==
  ASSUME WireInv, WireInv', OrderInv, ClearInv, Flow
  PROVE  ClearInv'
<1>0. /\ Len(<<>>) = 0 /\ (\A k : Beyond(<<>>, k) /\ AtMost(<<>>, k))
      /\ line \in Nat /\ line' \in Nat /\ LineNos \subseteq Nat
      /\ Len(taken) \in Nat
  BY EmptySeq, LineAssumption, FramesKnown DEF Beyond, AtMost, WireInv, WireTyped, LineNos
<1> DEFINE Later(l) == l < line' \/ (l = line' /\ Silent')
<1>1. \A l \in LineNos : Past(l) => Later(l)
  <2> SUFFICES ASSUME NEW l \in LineNos, Past(l) PROVE Later(l)
    OBVIOUS
  <2>1. Past(l)'
    BY PastStays
  <2> QED BY <2>1 DEF Past
<1>2. \A l \in LineNos : Past(l) /\ Beyond(Aloud, l) /\ Beyond(pending, l) =>
        Beyond(Aloud', l) /\ Beyond(pending', l)
  BY BeyondStays
<1>3. \A c \in 1 .. Len(taken) : taken[c].kind = "clear" =>
        /\ Later(taken[c].line)
        /\ Beyond(Aloud', taken[c].line) /\ Beyond(pending', taken[c].line)
  BY <1>1, <1>2, FramesKnown DEF ClearInv
<1>4. ASSUME Clearing'
      PROVE  /\ HeardAtMost(taken, ClearLine') /\ AtMost(pending, ClearLine')
             /\ Later(ClearLine') /\ Aloud = <<>>
             /\ Sends("consumer")' => pending' = <<>>
  <2>1. CASE Clearing /\ ClearLine' = ClearLine
    <3>1. ClearLine \in LineNos /\ Aloud = <<>>
      BY <2>1, ClearingKnown
    <3>2. Sends("consumer")' => pending' = <<>>
      BY <2>1 DEF ClearInv, Flow, ClearFlow
    <3> QED BY <1>1, <2>1, <3>1, <3>2 DEF ClearInv
  <2>2. CASE ClearLine' = line /\ line' = line /\ Silent
    <3>1. Aloud = <<>>
      BY <2>2, RestKnown
    <3>2. line \in LineNos
      <4>1. (ClearLine \in LineNos)'
        BY <1>4, ClearingKnown, PTL
      <4> QED BY <2>2, <4>1 DEF LineNos
    <3>3. Past(line)
      BY <2>2 DEF Past
    <3>4. Sends("consumer")' => pending' = <<>>
      BY DEF ClearInv, Clearing, Flow, ClearFlow
    <3> QED BY <1>1, <2>2, <3>1, <3>2, <3>3, <3>4, HeardSoFar
  <2> QED BY <1>4, <2>1, <2>2 DEF Flow, ClearFlow
<1>5. CASE taken' = taken
  <2>1. ClearsPlain'
    BY <1>5 DEF ClearInv, ClearsPlain
  <2>2. Clearing' => HeardAtMost(taken', ClearLine')
    BY <1>4, <1>5
  <2>3. \A c \in 1 .. Len(taken') : taken'[c].kind = "clear" =>
          /\ Later(taken'[c].line)
          /\ Beyond(Aloud', taken'[c].line) /\ Beyond(pending', taken'[c].line)
    BY <1>3, <1>5
  <2>4. Clearing' => AtMost(pending', ClearLine')
    <3> SUFFICES ASSUME Clearing' PROVE AtMost(pending', ClearLine')
      OBVIOUS
    <3>1. pending' = pending \/ pending' = <<>>
      BY DEF Flow, UnitsFlow, Stays, Drops, Wipes, Moves, Emits, Begins, Queues
    <3> QED BY <1>0, <1>4, <3>1
  <2> QED BY <1>4, <2>1, <2>2, <2>3, <2>4 DEF ClearInv, Past
<1>6. ASSUME NEW f \in FrameSent, taken' = Append(taken, f),
             f.kind = "media" => f.units = Aloud /\ ~Clearing /\ ~Clearing',
             f.kind = "clear" => /\ f.line \in LineNos /\ Later(f.line)
                                 /\ HeardAtMost(taken, f.line)
                                 /\ Aloud' = <<>> /\ pending' = <<>>,
             Clearing' => pending' = pending \/ pending' = <<>>
      PROVE  ClearInv'
  <2> DEFINE n == Len(taken)
  <2>1. /\ Len(taken') = n + 1 /\ taken'[n + 1] = f
        /\ \A i \in 1 .. n : taken'[i] = taken[i]
        /\ \A i \in 1 .. n + 1 : i \in 1 .. n \/ i = n + 1
    BY <1>6, FrameAppended
  <2>2. ClearsPlain'
    <3> SUFFICES ASSUME NEW c \in 1 .. n + 1, NEW i \in 1 .. n + 1,
                        taken'[c].kind = "clear", taken'[i].kind = "media"
                 PROVE  IF i < c THEN AtMost(taken'[i].units, taken'[c].line)
                                 ELSE Beyond(taken'[i].units, taken'[c].line)
      BY <2>1 DEF ClearsPlain, AtMost, Beyond
    <3>1. CASE c \in 1 .. n /\ i \in 1 .. n
      BY <2>1, <3>1 DEF ClearInv, ClearsPlain
    <3>2. CASE c \in 1 .. n /\ i = n + 1
      <4>1. ~(i < c) /\ taken'[i].units = Aloud /\ taken'[c] = taken[c]
        BY <1>0, <1>6, <2>1, <3>2
      <4> QED BY <3>2, <4>1 DEF ClearInv
    <3>3. CASE c = n + 1
      <4>1. i \in 1 .. n
        BY <2>1, <3>3
      <4>2. i < c /\ taken'[i] = taken[i] /\ taken'[c] = f
        BY <1>0, <2>1, <3>3, <4>1
      <4> QED BY <1>6, <4>1, <4>2 DEF HeardAtMost
    <3> QED BY <2>1, <3>1, <3>2, <3>3
  <2>3. \A c \in 1 .. n + 1 : taken'[c].kind = "clear" =>
          /\ Later(taken'[c].line)
          /\ Beyond(Aloud', taken'[c].line) /\ Beyond(pending', taken'[c].line)
    BY <1>0, <1>3, <1>6, <2>1
  <2>4. Clearing' => /\ HeardAtMost(taken', ClearLine') /\ AtMost(pending', ClearLine')
    <3>1. Clearing' => f.kind # "media"
      BY <1>6
    <3>2. Clearing' => HeardAtMost(taken', ClearLine')
      BY <1>4, <2>1, <3>1 DEF HeardAtMost
    <3> QED BY <1>0, <1>4, <1>6, <3>2
  <2> QED BY <1>4, <2>1, <2>2, <2>3, <2>4 DEF ClearInv, Past
<1>7. CASE \/ (AudioOut /\ Drops) \/ Emits
           /\ [kind |-> "media", seq |-> seq, units |-> Aloud] \in FrameSent
  <2> DEFINE f == [kind |-> "media", seq |-> seq, units |-> Aloud]
  <2>1. f \in FrameSent /\ taken' = Append(taken, f) /\ Aloud # <<>>
    BY <1>7 DEF AudioOut, Emits
  <2>2. ~Clearing /\ ~Clearing'
    BY <1>4, <2>1, ClearingKnown
  <2>3. f.kind = "media" /\ f.units = Aloud
    OBVIOUS
  <2> HIDE DEF f
  <2> QED BY <1>6, <2>1, <2>2, <2>3
<1>8. ASSUME Stays \/ Drops
      PROVE  Aloud' \in {Aloud, <<>>} /\ pending' = pending
  BY <1>8 DEF Stays, Drops
<1>9. CASE /\ TakesOne("consumer") /\ (Stays \/ Drops)
           /\ task["consumer"].frame = [kind |-> "clear", seq |-> seq, line |-> ClearLine]
           /\ task["consumer"].frame \in FrameSent
  <2> DEFINE f == [kind |-> "clear", seq |-> seq, line |-> ClearLine]
  <2>1. f \in FrameSent /\ taken' = Append(taken, f)
    BY <1>9 DEF TakesOne
  <2>2. Clearing /\ Sends("consumer")
    BY <1>9 DEF TakesOne, Clearing
  <2>3. /\ ClearLine \in LineNos /\ Later(ClearLine) /\ HeardAtMost(taken, ClearLine)
        /\ Aloud = <<>> /\ pending = <<>>
    BY <1>1, <2>2, ClearingKnown DEF ClearInv
  <2>4. f.kind = "clear" /\ f.kind # "media" /\ f.line = ClearLine
    OBVIOUS
  <2>5. Aloud' = <<>> /\ pending' = <<>> /\ pending' = pending
    BY <1>8, <1>9, <2>3
  <2> HIDE DEF f, Later
  <2>6. f.kind = "clear" => /\ f.line \in LineNos /\ Later(f.line)
                            /\ HeardAtMost(taken, f.line)
                            /\ Aloud' = <<>> /\ pending' = <<>>
    BY <2>3, <2>4, <2>5
  <2> QED BY <1>6, <2>1, <2>4, <2>5, <2>6
<1>10. CASE /\ TakesOne("talker") /\ (Stays \/ Drops)
            /\ task["talker"].frame = [kind |-> "mark", seq |-> seq, line |-> line]
            /\ task["talker"].frame \in FrameSent
  <2> DEFINE f == [kind |-> "mark", seq |-> seq, line |-> line]
  <2>1. f \in FrameSent /\ taken' = Append(taken, f)
    BY <1>10 DEF TakesOne
  <2>2. f.kind # "media" /\ f.kind # "clear"
    OBVIOUS
  <2> HIDE DEF f
  <2> QED BY <1>6, <1>8, <1>10, <2>1, <2>2
<1> QED
  BY <1>5, <1>7, <1>9, <1>10, TakenFlow

\* What is left when units are joined and split.
LEMMA NewestJoined ==
  ASSUME NEW s \in Seq(Unit), NEW t \in Seq(Unit), NEW l, NEW top \in Int,
         Newest(s, l, top - Len(t)), Newest(t, l, top)
  PROVE  Newest(s \o t, l, top)
<1> DEFINE r == s \o t
<1>1. /\ Len(r) = Len(s) + Len(t) /\ Len(s) \in Nat /\ Len(t) \in Nat
      /\ \A i \in 1 .. Len(s) + Len(t) : r[i] = IF i <= Len(s) THEN s[i] ELSE t[i - Len(s)]
  BY ConcatProperties, LenProperties
<1> HIDE DEF r
<1>2. ASSUME NEW k \in 1 .. Len(s) + Len(t), r[k].line = l
      PROVE  r[k].nr = top - Len(r) + k
  <2>1. CASE k <= Len(s)
    <3>1. k \in 1 .. Len(s) /\ r[k] = s[k]
      BY <1>1, <2>1
    <3>2. s[k].nr = (top - Len(t)) - Len(s) + k
      BY <1>2, <3>1 DEF Newest
    <3> QED BY <1>1, <3>1, <3>2
  <2>2. CASE ~(k <= Len(s))
    <3>1. k - Len(s) \in 1 .. Len(t) /\ r[k] = t[k - Len(s)]
      BY <1>1, <2>2
    <3>2. t[k - Len(s)].nr = top - Len(t) + (k - Len(s))
      BY <1>2, <3>1 DEF Newest
    <3> QED BY <1>1, <3>1, <3>2
  <2> QED BY <2>1, <2>2
<1> QED BY <1>1, <1>2 DEF Newest, r

LEMMA CarriesJoined ==
  ASSUME NEW s \in Seq(Unit), NEW t \in Seq(Unit), NEW l, NEW nr,
         Carries(s, l, nr) \/ Carries(t, l, nr)
  PROVE  Carries(s \o t, l, nr)
<1> DEFINE r == s \o t
<1>1. /\ Len(r) = Len(s) + Len(t) /\ Len(s) \in Nat /\ Len(t) \in Nat
      /\ \A i \in 1 .. Len(s) + Len(t) : r[i] = IF i <= Len(s) THEN s[i] ELSE t[i - Len(s)]
  BY ConcatProperties, LenProperties
<1> HIDE DEF r
<1>2. \A n \in 1 .. Len(s) : n \in 1 .. Len(r) /\ r[n] = s[n]
  BY <1>1
<1>3. \A n \in 1 .. Len(t) : Len(s) + n \in 1 .. Len(r) /\ r[Len(s) + n] = t[n]
  BY <1>1
<1> QED BY <1>2, <1>3 DEF Carries, r

LEMMA SplitNewest ==
  ASSUME NEW s \in Seq(Unit), Split(s)
  PROVE  /\ \A l : \A top \in Int : Newest(s, l, top) => Newest(pending', l, top)
         /\ \A l, nr : Carries(s, l, nr) => Carries(Aloud', l, nr) \/ Carries(pending', l, nr)
         /\ open' /\ Aloud' = <<>> => Len(pending') < Frame
         /\ Aloud' # <<>> => Len(s) >= Frame /\ Len(pending') = Len(s) - Frame
<1>0. Len(s) \in Nat /\ Frame \in Nat \ {0} /\ Len(<<>>) = 0
  BY LenProperties, LineAssumption, EmptySeq
<1>1. CASE Aloud' = <<>> /\ pending' = s /\ (~open' \/ Len(s) < Frame)
  BY <1>1
<1>2. CASE /\ Len(s) >= Frame
           /\ Aloud' = SubSeq(s, 1, Frame) /\ pending' = SubSeq(s, Frame + 1, Len(s))
  <2>1. /\ Len(Aloud') = Frame /\ Len(pending') = Len(s) - Frame
        /\ \A i \in 1 .. Frame : Aloud'[i] = s[i]
        /\ \A i \in 1 .. Len(s) - Frame : pending'[i] = s[Frame + i]
    BY <1>2, FrameTaken
  <2>2. Aloud' # <<>>
    BY <1>0, <2>1
  <2>3. ASSUME NEW l, NEW top \in Int, Newest(s, l, top)
        PROVE  Newest(pending', l, top)
    <3>1. ASSUME NEW k \in 1 .. Len(s) - Frame, pending'[k].line = l
          PROVE  pending'[k].nr = top - Len(pending') + k
      <4>1. Frame + k \in 1 .. Len(s) /\ pending'[k] = s[Frame + k]
        BY <1>0, <1>2, <2>1
      <4>2. s[Frame + k].nr = top - Len(s) + (Frame + k)
        BY <2>3, <3>1, <4>1 DEF Newest
      <4> QED BY <1>0, <2>1, <4>1, <4>2
    <3> QED BY <2>1, <3>1 DEF Newest
  <2>4. ASSUME NEW l, NEW nr, Carries(s, l, nr)
        PROVE  Carries(Aloud', l, nr) \/ Carries(pending', l, nr)
    <3>1. PICK n \in 1 .. Len(s) : s[n] = [line |-> l, nr |-> nr]
      BY <2>4 DEF Carries
    <3>2. CASE n <= Frame
      <4>1. n \in 1 .. Frame /\ Aloud'[n] = s[n]
        BY <1>0, <2>1, <3>2
      <4> QED BY <2>1, <3>1, <4>1 DEF Carries
    <3>3. CASE ~(n <= Frame)
      <4>1. n - Frame \in 1 .. Len(s) - Frame
        BY <1>0, <3>3
      <4>2. Frame + (n - Frame) = n
        BY <1>0
      <4>3. pending'[n - Frame] = s[n]
        BY <2>1, <4>1, <4>2
      <4> QED BY <2>1, <3>1, <4>1, <4>3 DEF Carries
    <3> QED BY <3>2, <3>3
  <2> QED BY <1>2, <2>1, <2>2, <2>3, <2>4
<1> QED BY <1>1, <1>2 DEF Split

\* Every step keeps each part of MarkInv.
LEMMA MarksStep ==
  ASSUME WireInv, WireInv', OpenKept, OrderInv, ClearInv, MarkInv, Flow
  PROVE  MarksPlain'
<1>0. /\ line \in Nat /\ line' \in Nat /\ LineNos \subseteq Nat /\ Len(<<>>) = 0
      /\ Len(taken) \in Nat /\ cut \subseteq cut' /\ \A l \in LineNos : made[l] \in Nat
  BY EmptySeq, LineAssumption, FramesKnown DEF WireInv, WireTyped, LineNos, Flow, LineFlow
<1> DEFINE Later(l) == l < line' \/ (l = line' /\ Silent')
<1>1. \A l \in LineNos : Past(l) => Later(l)
  <2> SUFFICES ASSUME NEW l \in LineNos, Past(l) PROVE Later(l)
    OBVIOUS
  <2>1. Past(l)'
    BY PastStays
  <2> QED BY <2>1 DEF Past
<1>2. \A l \in LineNos : Past(l) => made'[l] = made[l]
  <2> SUFFICES ASSUME NEW l \in LineNos, Past(l), made'[l] # made[l] PROVE FALSE
    OBVIOUS
  <2>1. l = line
    BY MadeGrows
  <2>2. Silent
    BY <1>0, <2>1 DEF Past
  <2>3. ~Voice(Who)
    BY <2>2, RestKnown DEF Silent, Producer
  <2>4. made' = made
    BY <2>3 DEF Flow, UnitsFlow, Stays, Drops, Wipes, Moves, Queues, Begins, Emits, Grows, Speaks
  <2> QED BY <2>4
<1>3. \A c \in 1 .. Len(taken) : taken[c].kind = "mark" =>
        /\ taken[c].line \in LineNos /\ Later(taken[c].line)
        /\ taken[c].line \notin cut' => Whole(taken, taken[c].line, made'[taken[c].line], c)
  <2> TAKE c \in 1 .. Len(taken)
  <2> HAVE taken[c].kind = "mark"
  <2>1. taken[c].line \in LineNos /\ Past(taken[c].line)
    BY FramesKnown DEF MarkInv, MarksPlain
  <2>2. made'[taken[c].line] = made[taken[c].line] /\ Later(taken[c].line)
    BY <1>1, <1>2, <2>1
  <2> QED BY <1>0, <2>1, <2>2 DEF MarkInv, MarksPlain
<1>4. CASE taken' = taken
  BY <1>3, <1>4 DEF MarksPlain, Past
<1>5. ASSUME NEW f \in FrameSent, taken' = Append(taken, f),
             f.kind = "mark" => /\ f.line \in LineNos /\ Later(f.line)
                                /\ f.line \notin cut' =>
                                     Whole(taken, f.line, made'[f.line], Len(taken))
      PROVE  MarksPlain'
  <2> DEFINE n == Len(taken)
  <2>1. /\ Len(taken') = n + 1 /\ taken'[n + 1] = f
        /\ \A i \in 1 .. n : taken'[i] = taken[i]
        /\ \A i \in 1 .. n + 1 : i \in 1 .. n \/ i = n + 1
    BY <1>5, FrameAppended
  <2>2. \A l, top : \A c \in 1 .. n : Whole(taken, l, top, c) => Whole(taken', l, top, c)
    BY <1>0, <2>1 DEF Whole, Delivered
  <2>3. \A l, top : Whole(taken, l, top, n) => Whole(taken', l, top, n + 1)
    BY <1>0, <2>1 DEF Whole, Delivered
  <2>4. \A c \in 1 .. n + 1 : taken'[c].kind = "mark" =>
          /\ Later(taken'[c].line)
          /\ taken'[c].line \notin cut' => Whole(taken', taken'[c].line, made'[taken'[c].line], c)
    <3> TAKE c \in 1 .. n + 1
    <3>1. CASE c \in 1 .. n
      BY <1>3, <2>1, <2>2, <3>1
    <3>2. CASE c = n + 1
      BY <1>5, <2>1, <2>3, <3>2
    <3> QED BY <2>1, <3>1, <3>2
  <2> QED BY <2>1, <2>4 DEF MarksPlain, Past
<1>6. CASE \/ (AudioOut /\ Drops) \/ Emits
           /\ [kind |-> "media", seq |-> seq, units |-> Aloud] \in FrameSent
  <2> DEFINE f == [kind |-> "media", seq |-> seq, units |-> Aloud]
  <2>1. f \in FrameSent /\ taken' = Append(taken, f) /\ f.kind # "mark"
    BY <1>6 DEF AudioOut, Emits
  <2> HIDE DEF f
  <2> QED BY <1>5, <2>1
<1>7. CASE /\ TakesOne("consumer") /\ (Stays \/ Drops)
           /\ task["consumer"].frame = [kind |-> "clear", seq |-> seq, line |-> ClearLine]
           /\ task["consumer"].frame \in FrameSent
  <2> DEFINE f == [kind |-> "clear", seq |-> seq, line |-> ClearLine]
  <2>1. f \in FrameSent /\ taken' = Append(taken, f) /\ f.kind # "mark"
    BY <1>7 DEF TakesOne
  <2> HIDE DEF f
  <2> QED BY <1>5, <2>1
<1>8. CASE /\ TakesOne("talker") /\ (Stays \/ Drops) /\ line \in LineNos /\ Silent
           /\ task["talker"].frame = [kind |-> "mark", seq |-> seq, line |-> line]
           /\ task["talker"].frame \in FrameSent
  <2> DEFINE f == [kind |-> "mark", seq |-> seq, line |-> line]
  <2>1. f \in FrameSent /\ taken' = Append(taken, f) /\ f.line = line
    BY <1>8 DEF TakesOne
  <2>2. Later(line) /\ made'[line] = made[line]
    BY <1>1, <1>2, <1>8 DEF Past
  <2>3. ASSUME line \notin cut'
        PROVE  Whole(taken, line, made[line], Len(taken))
    <3> SUFFICES ASSUME NEW nr \in 1 .. made[line], made[line] - nr >= Frame - 1,
                        ~Delivered(taken, line, nr, Len(taken))
                 PROVE  FALSE
      BY DEF Whole
    <3>1. open
      BY <1>8 DEF OpenKept, TakesOne, Writer
    <3>2. line \notin cut /\ Aloud = <<>> /\ Handed = <<>>
      BY <1>0, <1>8, <2>3, RestKnown
    <3>3. /\ Newest(pending, line, made[line] - Len(Handed))
          /\ Carries(Aloud, line, nr) \/ Carries(pending, line, nr) \/ Carries(Handed, line, nr)
      BY <1>8, <3>1, <3>2 DEF MarkInv, LineKept
    <3>4. PICK k \in 1 .. Len(pending) : pending[k] = [line |-> line, nr |-> nr]
      BY <1>0, <3>2, <3>3 DEF Carries
    <3>5. pending[k].line = line /\ pending[k].nr = nr
      BY <3>4
    <3>6. nr = made[line] - Len(Handed) - Len(pending) + k
      BY <3>3, <3>5 DEF Newest
    <3>7. Len(pending) \in Nat
      BY LenProperties DEF WireInv, WireTyped
    <3>8. Len(pending) >= Frame
      <4>1. made[line] - nr = Len(pending) - k
        BY <1>0, <1>8, <3>2, <3>6, <3>7
      <4> QED BY <3>7, <4>1, LineAssumption
    <3>9. Busy
      BY <3>1, <3>2, <3>7, <3>8, LineAssumption DEF MarkInv, ShortKept
    <3>10. CASE Waits("consumer")
      <4>1. Clearing
        BY <3>10 DEF Clearing
      <4>2. ClearLine \in LineNos /\ ClearLine <= line /\ ClearLine # line
        BY <3>2, <4>1, ClearingKnown
      <4>3. line <= ClearLine
        BY <3>5, <4>1 DEF ClearInv, AtMost
      <4>4. line \in Nat /\ ClearLine \in Nat
        BY <1>0, <4>2
      <4> HIDE DEF Later, f
      <4> QED BY <4>2, <4>3, <4>4
    <3>11. CASE task["consumer"].at = "clears"
      <4>1. line \in cut
        BY <3>11, ClearsKnown
      <4> QED BY <3>2, <4>1
    <3> QED BY <3>9, <3>10, <3>11 DEF Busy, Waits
  <2> HIDE DEF f
  <2> QED BY <1>5, <1>8, <2>1, <2>2, <2>3
<1> QED
  BY <1>4, <1>6, <1>7, <1>8, TakenFlow

\* What a step takes leaves what was taken.
LEMMA DeliveredStays ==
  ASSUME WireInv, Flow
  PROVE  /\ \A l, nr : Delivered(taken, l, nr, Len(taken)) => Delivered(taken', l, nr, Len(taken'))
         /\ AudioOut => \A l, nr : Carries(Aloud, l, nr) => Delivered(taken', l, nr, Len(taken'))
<1>0. Len(taken) \in Nat
  BY FramesKnown
<1>1. ASSUME NEW f \in FrameSent, taken' = Append(taken, f)
      PROVE  /\ \A l, nr : Delivered(taken, l, nr, Len(taken)) => Delivered(taken', l, nr, Len(taken'))
             /\ f.kind = "media" =>
                  \A l, nr : Carries(f.units, l, nr) => Delivered(taken', l, nr, Len(taken'))
  <2>1. /\ Len(taken') = Len(taken) + 1
        /\ \A i \in 1 .. Len(taken) : taken'[i] = taken[i]
        /\ taken'[Len(taken) + 1] = f
    BY <1>1, FrameAppended
  <2> QED BY <1>0, <2>1 DEF Delivered
<1>2. ASSUME AudioOut
      PROVE  \A l, nr : Carries(Aloud, l, nr) => Delivered(taken', l, nr, Len(taken'))
  <2> DEFINE f == [kind |-> "media", seq |-> seq, units |-> Aloud]
  <2>1. f \in FrameSent
    BY RestKnown DEF FrameSent, WireInv, WireTyped
  <2>2. taken' = Append(taken, f) /\ f.kind = "media" /\ f.units = Aloud
    BY <1>2 DEF AudioOut
  <2> HIDE DEF f
  <2> QED BY <1>1, <2>1, <2>2
<1>3. taken' = taken \/ \E f \in FrameSent : taken' = Append(taken, f)
  BY TakenFlow DEF AudioOut, Emits, TakesOne
<1> QED BY <1>1, <1>2, <1>3

\* A new line has made nothing yet.
LEMMA NewLineKept ==
  ASSUME WireInv, WireInv', OrderInv, line' = line + 1, line' \in LineNos, Stays \/ Drops
  PROVE  LineKept'
<1>0. line \in Nat /\ line + 1 # line /\ ~(line + 1 <= line) /\ Len(<<>>) = 0 /\ line' > line
  BY EmptySeq, LineAssumption DEF WireInv, WireTyped
<1>1. made'[line'] = 0
  BY <1>0 DEF OrderInv, Stays, Drops
<1>2. \A k \in 1 .. Len(pending') : pending'[k].line # line'
  BY <1>0 DEF OrderInv, Known, Stays, Drops
<1>3. \A k \in 1 .. Len(Handed') : Handed'[k].line # line'
  <2>1. CASE Stays
    BY <1>0, <2>1, RestKnown DEF Stays
  <2>2. CASE Drops
    BY <1>0, <2>2 DEF Drops
  <2> QED BY <2>1, <2>2
<1> QED BY <1>1, <1>2, <1>3 DEF LineKept, Newest

LEMMA LineStep ==
  ASSUME WireInv, WireInv', OrderInv, ClearInv, MarkInv, Flow
  PROVE  LineKept'
<1> SUFFICES ASSUME open', line' \in LineNos, line' \notin cut' PROVE LineKept'
  BY DEF LineKept
<1> DEFINE Gone(nr) == Delivered(taken, line, nr, Len(taken))
           GoneNow(nr) == Delivered(taken', line, nr, Len(taken'))
<1>0. /\ open /\ cut \subseteq cut' /\ Len(<<>>) = 0
      /\ line \in Nat
  BY EmptySeq, LineAssumption DEF WireInv, WireTyped, Flow, LineFlow
<1>1. CASE line' # line
  BY <1>1, NewLineKept DEF Flow, LineFlow
<1>2. CASE line' = line
  <2>1. line \notin cut /\ line \in LineNos /\ line \notin cut'
    BY <1>0, <1>2
  <2>2. /\ Newest(Handed, line, made[line])
        /\ Newest(pending, line, made[line] - Len(Handed))
        /\ \A nr \in 1 .. made[line] :
             Gone(nr) \/ Carries(Aloud, line, nr) \/ Carries(pending, line, nr) \/ Carries(Handed, line, nr)
    BY <1>0, <2>1 DEF MarkInv, LineKept
  <2>3. made[line] \in Nat /\ made'[line] \in Nat
    BY <2>1 DEF WireInv, WireTyped
  <2>4. /\ \A nr : Gone(nr) => GoneNow(nr)
        /\ AudioOut => \A nr : Carries(Aloud, line, nr) => GoneNow(nr)
    BY DeliveredStays
  <2>5. ASSUME Newest(Handed', line, made'[line]),
               Newest(pending', line, made'[line] - Len(Handed')),
               \A nr \in 1 .. made'[line] :
                 GoneNow(nr) \/ Carries(Aloud', line, nr) \/ Carries(pending', line, nr) \/ Carries(Handed', line, nr)
        PROVE  LineKept'
    BY <1>2, <2>5 DEF LineKept
  <2> HIDE DEF Gone, GoneNow
  <2>6. \A top : Newest(<<>>, line, top)
    BY <1>0 DEF Newest
  <2>7. \A nr : ~Carries(<<>>, line, nr)
    BY <1>0 DEF Carries
  <2>8. Aloud \in Seq(Unit) /\ Handed \in Seq(Unit) /\ pending \in Seq(Unit)
    BY RestKnown
  \* What there is to send goes on in a frame and a remainder.
  <2>9. ASSUME NEW s \in Seq(Unit), Split(s), Handed' = <<>>, Newest(s, line, made'[line]),
               \A nr \in 1 .. made'[line] : GoneNow(nr) \/ Carries(s, line, nr)
        PROVE  LineKept'
    <3>1. /\ Newest(pending', line, made'[line])
          /\ \A nr : Carries(s, line, nr) => Carries(Aloud', line, nr) \/ Carries(pending', line, nr)
      BY <2>3, <2>9, SplitNewest
    <3>2. made'[line] - Len(Handed') = made'[line]
      BY <1>0, <2>3, <2>9
    <3> QED BY <2>5, <2>6, <2>9, <3>1, <3>2
  <2>10. CASE Stays
    BY <2>2, <2>4, <2>5, <2>10 DEF Stays
  <2>11. CASE Drops
    <3>1. line + 1 # line
      BY <1>0
    <3> QED BY <1>2, <2>1, <2>11, <3>1 DEF Drops
  <2>12. CASE Wipes
    <3>1. Clearing
      BY <2>1, <2>12 DEF Wipes
    <3>2. ClearLine \in LineNos /\ ClearLine <= line /\ ClearLine # line /\ LineNos \subseteq Nat
      BY <2>1, <3>1, ClearingKnown DEF LineNos
    <3>3. \A nr : ~Carries(pending, line, nr)
      <4>1. ASSUME NEW k \in 1 .. Len(pending) PROVE pending[k].line # line
        <5>1. pending[k].line <= ClearLine
          BY <3>1 DEF ClearInv, AtMost
        <5>2. ClearLine \in Nat
          BY <3>2
        <5>3. ~(line <= ClearLine)
          BY <1>0, <3>2, <5>2
        <5> QED BY <5>1, <5>3
      <4> QED BY <4>1 DEF Carries
    <3> QED BY <2>2, <2>4, <2>5, <2>6, <2>7, <2>12, <3>3 DEF Wipes
  <2>13. CASE Moves
    <3> DEFINE s == pending \o Handed
    <3>1. Split(s) /\ Handed' = <<>> /\ made' = made /\ Aloud = <<>>
      BY <2>13 DEF Moves
    <3>2. s \in Seq(Unit) /\ Newest(s, line, made[line])
      BY <2>2, <2>3, <2>8, NewestJoined, ConcatProperties
    <3>3. \A nr : Carries(pending, line, nr) \/ Carries(Handed, line, nr) => Carries(s, line, nr)
      BY <2>8, CarriesJoined
    <3> HIDE DEF s
    <3> QED BY <2>2, <2>4, <2>7, <2>9, <3>1, <3>2, <3>3
  <2>14. CASE Emits
    <3>1. Split(pending) /\ Handed = <<>> /\ Handed' = <<>> /\ made' = made /\ AudioOut
      BY <2>14 DEF Emits
    <3>2. Newest(pending, line, made[line])
      <4>1. made[line] - Len(Handed) = made[line]
        BY <1>0, <2>3, <3>1
      <4> QED BY <2>2, <4>1
    <3> QED BY <2>2, <2>4, <2>7, <2>8, <2>9, <3>1, <3>2
  <2>15. ASSUME NEW n \in Nat, Queues(n) \/ Begins(n)
         PROVE  LineKept'
    <3> DEFINE c == Chunk(line, n)
    <3>1. /\ c \in Seq(Unit) /\ Len(c) = n
          /\ \A i \in 1 .. n : c[i] = [line |-> line, nr |-> made[line] + i]
      BY <2>1, ChunkTyped
    <3>2. made'[line] = made[line] + n /\ Aloud = <<>> /\ Handed = <<>> /\ taken' = taken
      BY <2>1, <2>15 DEF Queues, Begins, Grows, WireInv, WireTyped
    <3> HIDE DEF c
    <3>3. Newest(c, line, made'[line])
      <4>1. ASSUME NEW k \in 1 .. Len(c) PROVE c[k].nr = made'[line] - Len(c) + k
        BY <2>3, <3>1, <3>2
      <4> QED BY <4>1 DEF Newest
    <3>4. Newest(pending, line, made'[line] - Len(c))
      <4>1. made'[line] - Len(c) = made[line] - Len(Handed)
        BY <1>0, <2>3, <3>1, <3>2
      <4> QED BY <2>2, <4>1
    <3>5. \A nr \in 1 .. made'[line] :
            GoneNow(nr) \/ Carries(pending, line, nr) \/ Carries(c, line, nr)
      <4> TAKE nr \in 1 .. made'[line]
      <4>1. CASE nr <= made[line]
        <5>1. nr \in 1 .. made[line]
          BY <2>3, <4>1
        <5> QED BY <2>2, <2>4, <2>7, <3>2, <5>1
      <4>2. CASE ~(nr <= made[line])
        <5>1. nr - made[line] \in 1 .. n /\ made[line] + (nr - made[line]) = nr
          BY <2>3, <3>2, <4>2
        <5> QED BY <3>1, <5>1 DEF Carries
      <4> QED BY <4>1, <4>2
    <3>6. CASE Queues(n)
      <4>1. Handed' = c /\ pending' = pending
        BY <3>6 DEF Queues, c
      <4> QED BY <2>5, <3>3, <3>4, <3>5, <4>1
    <3>7. CASE Begins(n)
      <4> DEFINE s == pending \o c
      <4>1. Split(s) /\ Handed' = <<>>
        BY <3>7 DEF Begins, c
      <4>2. s \in Seq(Unit) /\ Newest(s, line, made'[line])
        <5>1. made'[line] \in Int
          BY <2>3
        <5>2. Newest(s, line, made'[line])
          BY <2>8, <3>1, <3>3, <3>4, <5>1, NewestJoined
        <5> QED BY <2>8, <3>1, <5>2, ConcatProperties
      <4>3. \A nr : Carries(pending, line, nr) \/ Carries(c, line, nr) => Carries(s, line, nr)
        BY <2>8, <3>1, CarriesJoined
      <4> HIDE DEF s
      <4> QED BY <2>9, <3>5, <4>1, <4>2, <4>3
    <3> QED BY <2>15, <3>6, <3>7
  <2> QED BY <2>10, <2>11, <2>12, <2>13, <2>14, <2>15 DEF Flow, UnitsFlow
<1> QED BY <1>1, <1>2

LEMMA ShortStep ==
  ASSUME WireInv, WireInv', MarkInv, Flow
  PROVE  ShortKept'
<1> SUFFICES ASSUME open', Aloud' = <<>>, Ongoing' \/ line' \notin cut', ~Busy'
             PROVE  Len(pending') < Frame
  BY DEF ShortKept
<1>0. /\ open /\ cut \subseteq cut' /\ (Ongoing' => Ongoing) /\ Len(<<>>) < Frame
      /\ line \in Nat /\ line + 1 # line
  BY EmptySeq, LineAssumption DEF Flow, LineFlow, WireInv, WireTyped
<1>1. ASSUME ~Busy, Aloud = <<>>, Ongoing \/ line \notin cut, pending' = pending
      PROVE  Len(pending') < Frame
  BY <1>0, <1>1 DEF MarkInv, ShortKept
<1>2. ASSUME Busy PROVE Len(pending') < Frame
  BY <1>0, <1>2 DEF Flow, ClearFlow
<1>3. ASSUME NEW s \in Seq(Unit), Split(s) PROVE Len(pending') < Frame
  BY <1>3, SplitNewest
<1>4. line' = line => Ongoing \/ line \notin cut
  BY <1>0
<1>5. line' # line => Ongoing /\ ~Voice("player")
  BY DEF Flow, LineFlow
<1>6. CASE Stays
  BY <1>1, <1>2, <1>4, <1>5, <1>6 DEF Stays
<1>7. CASE Drops
  <2>1. CASE line' = line
    \* The step that cuts the line leaves the consumer to clear, or the call is over.
    <3>1. line \in cut' /\ (task'["consumer"].at = "clears" \/ ~Ongoing')
      BY <1>0, <1>7, <2>1 DEF Drops
    <3> QED BY <2>1, <3>1 DEF Busy
  <2>2. CASE line' # line /\ Aloud # <<>>
    <3>1. Voice(Who)
      BY <2>2, RestKnown
    <3>2. Voice("hold")
      BY <1>5, <2>2, <3>1 DEF Who
    <3> QED BY <1>7, <2>2, <3>2 DEF MarkInv, HumKept, Drops
  <2>3. CASE line' # line /\ Aloud = <<>>
    BY <1>1, <1>2, <1>5, <1>7, <2>3 DEF Drops
  <2> QED BY <2>1, <2>2, <2>3
<1>8. CASE Wipes
  BY <1>0, <1>8 DEF Wipes
<1>9. CASE Moves
  <2>1. Split(pending \o Handed)
    BY <1>9 DEF Moves
  <2> DEFINE s == pending \o Handed
  <2>2. s \in Seq(Unit)
    BY RestKnown, ConcatProperties
  <2> HIDE DEF s
  <2> QED BY <1>3, <2>1, <2>2 DEF s
<1>10. CASE Emits
  BY <1>3, <1>10, RestKnown DEF Emits
<1>11. ASSUME NEW n \in Nat, Queues(n) PROVE Len(pending') < Frame
  BY <1>1, <1>2, <1>4, <1>11 DEF Queues, Grows, Speaks
<1>12. ASSUME NEW n \in Nat, Begins(n) PROVE Len(pending') < Frame
  <2>1. Split(pending \o Chunk(line, n)) /\ line \in LineNos
    BY <1>12 DEF Begins, Grows, Speaks
  <2> DEFINE c == Chunk(line, n)
             s == pending \o c
  <2>2. c \in Seq(Unit)
    BY <2>1, ChunkTyped
  <2> HIDE DEF c
  <2>3. s \in Seq(Unit)
    BY <2>2, RestKnown, ConcatProperties
  <2> HIDE DEF s
  <2> QED BY <1>3, <2>1, <2>3 DEF s, c
<1> QED
  BY <1>6, <1>7, <1>8, <1>9, <1>10, <1>11, <1>12 DEF Flow, UnitsFlow

LEMMA HumStep ==
  ASSUME WireInv, WireInv', MarkInv, Flow
  PROVE  HumKept'
<1>0. /\ Len(<<>>) = 0 /\ Frame \in Nat \ {0} /\ (open' => open)
      /\ Len(pending) \in Nat /\ Aloud \in Seq(Unit) /\ Handed \in Seq(Unit) /\ pending \in Seq(Unit)
  BY EmptySeq, LineAssumption, RestKnown, LenProperties DEF Flow, LineFlow
\* A line begins only when nothing but the hold tone sounds.
<1>1. ASSUME Voice("hold")', Aloud # <<>> \/ Handed # <<>>
      PROVE  Voice("hold")
  <2>1. CASE \A p \in Producer : Voice(p)' => Voice(p)
    BY <1>1, <2>1 DEF Producer
  <2>2. CASE ~Voice("player")
    BY <1>1, <2>2, RestKnown DEF Who
  <2> QED BY <2>1, <2>2 DEF Flow, LineFlow
\* Under the tone what waits is less than a frame before the next is handed over.
<1>2. ASSUME Voice("hold"), open, Aloud = <<>>, ~Clearing
      PROVE  Len(pending) < Frame
  <2>1. Ongoing
    BY <1>2 DEF WireInv, RolesKept, Ongoing
  <2>2. ~Busy
    BY <1>2, ClearsKnown DEF Busy, Clearing, Waits
  <2> QED BY <1>2, <2>1, <2>2 DEF MarkInv, ShortKept
<1>3. CASE Stays
  BY <1>1, <1>3 DEF Stays, MarkInv, HumKept
<1>4. CASE Drops
  BY <1>4 DEF Drops, HumKept
<1>5. CASE Wipes
  BY <1>1, <1>5 DEF Wipes, MarkInv, HumKept
<1>6. ASSUME NEW s \in Seq(Unit), Split(s), Handed' = <<>>,
             Voice("hold") /\ open /\ Len(s) >= Frame => Len(s) < Frame + Frame,
             Voice("hold")' => Voice("hold")
      PROVE  HumKept'
  <2>1. Len(s) \in Nat
    BY LenProperties
  <2>2. Aloud' # <<>> => open' /\ Len(s) >= Frame /\ Len(pending') = Len(s) - Frame
    BY <1>6, SplitNewest DEF Split
  <2>3. Voice("hold")' /\ Aloud' # <<>> => Len(pending') < Frame
    BY <1>0, <1>6, <2>1, <2>2
  <2> QED BY <1>6, <2>3 DEF HumKept
<1>7. CASE Moves
  <2>1. /\ Split(pending \o Handed) /\ Handed' = <<>> /\ ~Clearing /\ Aloud = <<>>
        /\ Voice("hold")' => Voice("hold")
    BY <1>7 DEF Moves, Speaks
  <2> DEFINE s == pending \o Handed
  <2>2. s \in Seq(Unit) /\ Len(s) = Len(pending) + Len(Handed)
    BY <1>0, ConcatProperties
  <2> HIDE DEF s
  <2>3. ASSUME Voice("hold"), open PROVE Len(s) < Frame + Frame
    <3>1. Len(pending) < Frame
      BY <1>2, <2>1, <2>3
    <3>2. Len(Handed) = 0 \/ Len(Handed) = Frame
      BY <1>0, <2>3 DEF MarkInv, HumKept
    <3> QED BY <1>0, <2>2, <3>1, <3>2
  <2> QED BY <1>6, <2>1, <2>2, <2>3 DEF s
<1>8. CASE Emits
  <2>1. Split(pending) /\ Handed' = <<>> /\ (Voice("hold")' => Voice("hold")) /\ Aloud # <<>>
    BY <1>8 DEF Emits, Speaks, AudioOut
  <2>2. Voice("hold") => Len(pending) < Frame
    BY <2>1 DEF MarkInv, HumKept
  <2> QED BY <1>0, <1>6, <2>1, <2>2
<1>9. ASSUME NEW n \in Nat, Queues(n) PROVE HumKept'
  <2>1. line \in LineNos /\ Aloud' = <<>> /\ Handed' = Chunk(line, n) /\ (Voice("hold")' => n = Frame)
    BY <1>9 DEF Queues, Grows, Speaks
  <2>2. Len(Chunk(line, n)) = n
    BY <2>1, ChunkTyped
  <2> QED BY <2>1, <2>2 DEF HumKept
<1>10. ASSUME NEW n \in Nat, Begins(n) PROVE HumKept'
  <2>1. /\ line \in LineNos /\ Split(pending \o Chunk(line, n)) /\ Handed' = <<>> /\ ~Clearing
        /\ Aloud = <<>> /\ (Voice("hold") => n = Frame) /\ (Voice("hold")' => Voice("hold"))
    BY <1>10 DEF Begins, Grows, Speaks
  <2> DEFINE c == Chunk(line, n)
             s == pending \o c
  <2>2. c \in Seq(Unit) /\ Len(c) = n
    BY <2>1, ChunkTyped
  <2> HIDE DEF c
  <2>3. s \in Seq(Unit) /\ Len(s) = Len(pending) + n
    BY <1>0, <2>2, ConcatProperties
  <2> HIDE DEF s
  <2>4. Voice("hold") /\ open => Len(s) < Frame + Frame
    BY <1>0, <1>2, <2>1, <2>3
  <2>5. Split(s)
    BY <2>1 DEF s, c
  <2> QED BY <1>6, <2>1, <2>3, <2>4, <2>5
<1> QED
  BY <1>3, <1>4, <1>5, <1>7, <1>8, <1>9, <1>10 DEF Flow, UnitsFlow

LEMMA MarkStep ==
  ASSUME WireInv, WireInv', OpenKept, OrderInv, ClearInv, MarkInv, Flow
  PROVE  MarkInv'
BY MarksStep, LineStep, ShortStep, HumStep DEF MarkInv

\* The marks as the carrier sees them.
LEMMA MarksClose ==
  ASSUME WireInv, MarkInv
  PROVE  MarkClosesLine
<1> SUFFICES ASSUME NEW c \in DOMAIN taken, taken[c].kind = "mark", taken[c].line \notin cut,
                    NEW nr \in 1 .. made[taken[c].line], made[taken[c].line] - nr >= Frame - 1
             PROVE  \E u \in Heard(taken[c].line, c) : u.nr = nr
  BY DEF MarkClosesLine
<1>1. c \in 1 .. Len(taken) /\ Len(taken) \in Nat /\ DOMAIN taken = 1 .. Len(taken)
  BY FramesKnown
<1> DEFINE l == taken[c].line
           u == [line |-> l, nr |-> nr]
<1>2. Delivered(taken, l, nr, c)
  BY <1>1 DEF MarkInv, MarksPlain, Whole
<1>3. PICK i \in 1 .. c : taken[i].kind = "media" /\ Carries(taken[i].units, l, nr)
  BY <1>2 DEF Delivered
<1>4. i \in Media /\ i <= c /\ DOMAIN taken[i].units = 1 .. Len(taken[i].units)
  <2>1. i \in 1 .. Len(taken)
    BY <1>1
  <2> QED BY <1>1, <1>3, <2>1, FramesKnown DEF Media
<1>5. \E n \in DOMAIN taken[i].units : taken[i].units[n] = u
  BY <1>3, <1>4 DEF Carries
<1>6. u \in [line : {l}, nr : 1 .. made[l]] /\ u.nr = nr
  OBVIOUS
<1> QED
  BY <1>4, <1>5, <1>6 DEF Heard

-----------------------------------------------------------------------------
(* Every step of the line makes one of those moves. *)

\* The line and the voices of a step that leaves both where they were.
LEMMA LineStays ==
  ASSUME WireInv, line' = line, stage' = stage, open' => open, cut \subseteq cut',
         \A p \in Producer : Voice(p)' => Voice(p)
  PROVE  LineFlow
BY DEF LineFlow, Ongoing

\* The clear of a step that leaves the consumer where it was.
LEMMA ClearStays ==
  ASSUME task'["consumer"] = task["consumer"], pending' = pending
  PROVE  ClearFlow
BY DEF ClearFlow, Clearing, ClearLine, Busy, Waits, Sends

\* The audio of a step that leaves the producers where they were.
LEMMA RestStays ==
  ASSUME \A p \in Producer : task'[p] = task[p]
  PROVE  /\ Aloud' = Aloud /\ Handed' = Handed
         /\ \A p \in Producer : Voice(p)' <=> Voice(p)
BY DEF Aloud, Handed, Who, Waits, Sends, Voice, Producer

\* None of the producers waits or sends.
LEMMA RestEmpty ==
  ASSUME \A p \in Producer : ~Waits(p) /\ ~Sends(p)
  PROVE  Aloud = <<>> /\ Handed = <<>>
BY DEF Aloud, Handed, Who, Producer

LEMMA RestEmptied ==
  ASSUME \A p \in Producer : ~Waits(p)' /\ ~Sends(p)'
  PROVE  Aloud' = <<>> /\ Handed' = <<>>
BY DEF Aloud, Handed, Who, Producer

\* Only one writer sends.
LEMMA OneSends ==
  ASSUME WireInv, NEW w \in Writer, Sends(w), NEW v \in Writer, Sends(v)
  PROVE  v = w
BY DEF WireInv, LockKept

\* What a cancelled writer may have got out, and what it takes of the numbers.
LEMMA OutFlow ==
  ASSUME WireInv, NEW ws \in SUBSET Writer, MayBeOut(ws), seq' = seq,
         \A w \in ws : ~Sends(w)', \A v \in Writer : Sends(v)' => Sends(v)
  PROVE  SeqFlow /\ (SignalOut \/ AudioOut) /\ (ws \cap Producer = {} => SignalOut)
<1>1. CASE taken' = taken
  BY <1>1 DEF SeqFlow, SignalOut
<1>2. CASE taken' # taken
  <2>1. PICK w \in ws : Sends(w) /\ taken' = Append(taken, task[w].frame)
    BY <1>2 DEF MayBeOut, Sends
  <2>2. \A v \in Writer : ~Sends(v)'
    BY <2>1, OneSends
  <2>3. SeqFlow
    BY <2>1, <2>2 DEF SeqFlow
  <2>4. CASE w \in Producer
    <3>1. Voice(w)
      BY <2>1 DEF Voice, Sends
    <3>2. w = Who
      BY <2>4, <3>1, RestKnown
    <3>3. Aloud # <<>>
      BY <2>1, <3>2, RestKnown
    <3>4. task[w].frame = [kind |-> "media", seq |-> seq, units |-> Aloud]
      BY <3>2, <3>3, RestKnown
    <3> QED BY <2>1, <2>3, <2>4, <3>3, <3>4 DEF AudioOut
  <2>5. CASE w \notin Producer
    <3>1. SignalOut
      BY <2>1, <2>5 DEF SignalOut, Writer, Producer
    <3> QED BY <2>3, <3>1
  <2> QED BY <2>4, <2>5
<1> QED BY <1>1, <1>2

\* A producer that has the lock makes a frame of what there is, or lets go of it.
LEMMA AudioFlow ==
  ASSUME WireInv, OpenKept, line \in LineNos, NEW w \in Producer, Voice(w), owner \in {w, None},
         NEW pend \in Seq(Unit), SendsAudio(w, pend, Rendering(line)),
         stage' = stage, line' = line, cut' = cut, open' = open
  PROVE  /\ Speaks /\ ~Clearing /\ ~Clearing' /\ Split(pend) /\ Handed' = <<>>
         /\ LineFlow /\ ClearFlow /\ OpenKept'
         /\ (seq' = seq /\ \A v \in Writer : ~Sends(v)') \/ seq' = seq + 1
         /\ w = Who
<1>0. /\ w \in Writer /\ (\A v \in Writer \ {w} : ~Sends(v)) /\ ~Waits("consumer")
      /\ w # "consumer" /\ "consumer" \in Writer /\ "hold" \in Writer /\ "player" \in Writer
  BY OthersSilent DEF Producer, Writer
<1>1. w = Who
  BY RestKnown
<1>2. PICK x : /\ task' = [task EXCEPT ![w] = x] /\ x.at \in {"sends", "renders"}
               /\ x.at = "sends" => /\ open /\ Len(pend) >= Frame /\ seq' = seq + 1
                                    /\ x.frame.units = SubSeq(pend, 1, Frame)
                                    /\ pending' = SubSeq(pend, Frame + 1, Len(pend))
               /\ x.at = "renders" => /\ ~open \/ Len(pend) < Frame
                                      /\ seq' = seq /\ pending' = pend
  <2>1. CASE /\ open /\ Len(pend) >= Frame
             /\ pending' = SubSeq(pend, Frame + 1, Len(pend))
             /\ seq' = seq + 1
             /\ task' = [task EXCEPT ![w] =
                  [at |-> "sends", then |-> Rendering(line),
                   frame |-> [kind |-> "media", seq |-> seq + 1, units |-> SubSeq(pend, 1, Frame)]]]
    <3> DEFINE x == [at |-> "sends", then |-> Rendering(line),
                     frame |-> [kind |-> "media", seq |-> seq + 1, units |-> SubSeq(pend, 1, Frame)]]
    <3>1. x.at = "sends" /\ x.frame.units = SubSeq(pend, 1, Frame) /\ task' = [task EXCEPT ![w] = x]
      BY <2>1
    <3> HIDE DEF x
    <3> QED BY <2>1, <3>1
  <2>2. CASE /\ ~open \/ Len(pend) < Frame
             /\ pending' = pend
             /\ task' = [task EXCEPT ![w] = Rendering(line)]
             /\ Release
             /\ seq' = seq
    BY <2>2, Places
  <2> QED BY <2>1, <2>2 DEF SendsAudio
<1>3. task'[w] = x /\ Apart(w) /\ \A v \in Writer \ {w} : task'[v] = task[v]
  BY <1>0, <1>2, OthersStay DEF WireInv
<1>4. \A v \in Writer : Voice(v)' <=> Voice(v)
  BY <1>2, <1>3 DEF Voice
<1>5. Who' = w
  BY <1>0, <1>1, <1>4 DEF Who
<1>6. Speaks
  BY <1>0, <1>1, <1>4 DEF Speaks
<1>7. ~Clearing /\ ~Clearing'
  BY <1>0, <1>3 DEF Clearing, Apart
<1>8. Handed' = <<>>
  BY <1>2, <1>3, <1>5 DEF Handed, Waits
<1>9. Split(pend)
  <2>1. CASE x.at = "sends"
    <3>1. Aloud' = SubSeq(pend, 1, Frame)
      BY <1>2, <1>3, <1>5, <2>1 DEF Aloud, Sends
    <3> QED BY <1>2, <2>1, <3>1 DEF Split
  <2>2. CASE x.at = "renders"
    <3>1. Aloud' = <<>>
      BY <1>2, <1>3, <1>5, <2>2 DEF Aloud, Sends
    <3> QED BY <1>2, <2>2, <3>1 DEF Split
  <2> QED BY <1>2, <2>1, <2>2
<1>10. LineFlow
  BY <1>4, LineStays DEF Producer, Writer
<1>11. ClearFlow
  BY <1>0, <1>3, <1>7 DEF ClearFlow, Clearing, Busy
<1>12. OpenKept'
  BY <1>0, <1>2, <1>3 DEF OpenKept, Apart, Sends
<1>13. (seq' = seq /\ \A v \in Writer : ~Sends(v)') \/ seq' = seq + 1
  BY <1>0, <1>2, <1>3 DEF Apart, Sends
<1> QED
  BY <1>1, <1>6, <1>7, <1>8, <1>9, <1>10, <1>11, <1>12, <1>13

\* The signal a writer may ask for: the talker's mark, or the consumer's clear of the
\* line that was cut.
Signal(w, kind, l) ==
  \/ w = "talker" /\ kind = "mark"
  \/ /\ w = "consumer" /\ kind = "clear"
     /\ (Clearing /\ ClearLine = l) \/ (l = line /\ Silent /\ line \in cut')

\* A mark or a clear goes out, waits for the lock, or either.
LEMMA SignalFlow ==
  ASSUME WireInv, OpenKept, NEW w \in Writer, NEW kind, NEW l, Signal(w, kind, l),
         owner \in {w, None}, SendsSignal(w, kind, l, Idle),
         stage' = stage, line' = line, open' = open, made' = made, taken' = taken,
         cut \subseteq cut'
  PROVE  Flow /\ OpenKept'
<1>0. /\ \A v \in Writer \ {w} : ~Sends(v)
      /\ w \notin Producer /\ Producer \subseteq Writer /\ "consumer" \in Writer /\ "talker" # "consumer"
      /\ kind \in {"mark", "clear"}
  BY OthersSilent DEF Producer, Writer, Signal
<1>1. PICK x : /\ task' = [task EXCEPT ![w] = x] /\ x.at \in {"sends", "off"}
               /\ x.at = "sends" => open /\ x.frame.line = l
  <2> DEFINE x == [at |-> "sends", then |-> Idle,
                   frame |-> [kind |-> kind, seq |-> seq + 1, line |-> l]]
  <2>1. CASE open /\ task' = [task EXCEPT ![w] = x]
    <3>1. x.at = "sends" /\ x.frame.line = l
      OBVIOUS
    <3> HIDE DEF x
    <3> QED BY <2>1, <3>1
  <2>2. CASE ~open /\ task' = [task EXCEPT ![w] = Idle]
    BY <2>2, Places
  <2> QED BY <2>1, <2>2 DEF SendsSignal
<1>2. task'[w] = x /\ Apart(w) /\ \A v \in Writer \ {w} : task'[v] = task[v]
  BY <1>1, OthersStay DEF WireInv
<1>3. /\ Aloud' = Aloud /\ Handed' = Handed /\ (\A p \in Producer : Voice(p)' <=> Voice(p))
  <2>1. \A p \in Producer : task'[p] = task[p]
    BY <1>0, <1>2
  <2> QED BY <2>1, RestStays
<1>4. Aloud = <<>>
  BY <1>0, RestKnown
<1>5. seq' = seq + 1
  BY DEF SendsSignal
<1>6. LineFlow
  BY <1>3, LineStays
<1>7. SeqFlow
  BY <1>5 DEF SeqFlow
<1>8. OpenKept'
  BY <1>0, <1>1, <1>2 DEF OpenKept, Apart, Sends
<1>9. CASE w = "talker"
  <2>1. pending' = pending
    BY <1>0, <1>9 DEF SendsSignal, Signal
  <2>2. UnitsFlow
    BY <1>3, <2>1 DEF UnitsFlow, Stays, SignalOut
  <2>3. ClearFlow
    BY <1>0, <1>2, <1>9, <2>1, ClearStays
  <2> QED BY <1>6, <1>7, <1>8, <2>2, <2>3 DEF Flow
<1>10. CASE w = "consumer"
  <2>1. pending' = <<>> /\ ((Clearing /\ ClearLine = l) \/ (l = line /\ Silent /\ line \in cut'))
    BY <1>0, <1>10 DEF SendsSignal, Signal
  <2>2. UnitsFlow
    BY <1>3, <1>4, <2>1 DEF UnitsFlow, Wipes
  <2>3. ~Waits("consumer")' /\ (Sends("consumer")' => ClearLine' = l)
    BY <1>1, <1>2, <1>10 DEF Waits, Sends, ClearLine
  <2>4. ClearFlow
    BY <2>1, <2>3 DEF ClearFlow, Clearing
  <2> QED BY <1>6, <1>7, <1>8, <2>2, <2>4 DEF Flow
<1> QED BY <1>9, <1>10 DEF Signal

LEMMA SignalWaits ==
  ASSUME WireInv, OpenKept, NEW w \in Writer, NEW kind, NEW l,
         \/ w = "talker" /\ kind = "mark"
         \/ w = "consumer" /\ kind = "clear" /\ l = line /\ Silent,
         task' = [task EXCEPT ![w] = AsksSignal(kind, l)], pending' = pending, seq' = seq,
         stage' = stage, line' = line, open' = open, made' = made, taken' = taken,
         cut \subseteq cut'
  PROVE  Flow /\ OpenKept'
<1>0. /\ w \notin Producer /\ Producer \subseteq Writer /\ "consumer" \in Writer /\ "talker" # "consumer"
  BY DEF Producer, Writer
<1>1. /\ task'[w] = AsksSignal(kind, l) /\ Apart(w) /\ \A v \in Writer \ {w} : task'[v] = task[v]
  BY OthersStay DEF WireInv
<1>2. /\ Aloud' = Aloud /\ Handed' = Handed /\ (\A p \in Producer : Voice(p)' <=> Voice(p))
  <2>1. \A p \in Producer : task'[p] = task[p]
    BY <1>0, <1>1
  <2> QED BY <2>1, RestStays
<1>3. UnitsFlow
  BY <1>2 DEF UnitsFlow, Stays, SignalOut
<1>4. LineFlow
  BY <1>2, LineStays
<1>5. \A v \in Writer : Sends(v)' => Sends(v)
  BY <1>1, Places DEF Apart, Sends
<1>6. SeqFlow /\ OpenKept'
  BY <1>5 DEF SeqFlow, OpenKept
<1>7. ClearFlow
  <2>1. CASE w = "talker"
    BY <1>0, <1>1, <2>1, ClearStays
  <2>2. CASE w = "consumer" /\ l = line /\ Silent
    <3>1. task'["consumer"].at = "waits" /\ task'["consumer"].job.line = l
      BY <1>1, <2>2 DEF AsksSignal
    <3>2. Waits("consumer")' /\ ~Sends("consumer")' /\ ClearLine' = l /\ Busy'
      BY <3>1 DEF Waits, Sends, ClearLine, Busy
    <3> QED BY <2>2, <3>2 DEF ClearFlow
  <2> QED BY <2>1, <2>2
<1> QED BY <1>3, <1>4, <1>6, <1>7 DEF Flow

LEMMA SignalEntersFlow ==
  ASSUME WireInv, OpenKept, NEW w \in Writer, NEW kind, NEW l,
         \/ w = "talker" /\ kind = "mark"
         \/ w = "consumer" /\ kind = "clear" /\ l = line /\ Silent /\ line \in cut',
         Enters(w, [kind |-> kind, line |-> l, then |-> Idle]),
         stage' = stage, line' = line, open' = open, made' = made, taken' = taken,
         cut \subseteq cut'
  PROVE  Flow /\ OpenKept'
<1> DEFINE job == [kind |-> kind, line |-> l, then |-> Idle]
<1>1. CASE owner = None /\ Works(w, job)
  <2>1. SendsSignal(w, kind, l, Idle)
    BY <1>1 DEF Works
  <2>2. Signal(w, kind, l)
    BY DEF Signal
  <2> QED BY <1>1, <2>1, <2>2, SignalFlow
<1>2. CASE /\ owner # None
           /\ queue' = Append(queue, w)
           /\ task' = [task EXCEPT ![w] = [at |-> "waits", job |-> job]]
           /\ UNCHANGED <<owner, pending, seq>>
  <2>1. task' = [task EXCEPT ![w] = AsksSignal(kind, l)]
    BY <1>2 DEF AsksSignal
  <2>2. \/ w = "talker" /\ kind = "mark"
        \/ w = "consumer" /\ kind = "clear" /\ l = line /\ Silent
    OBVIOUS
  <2>3. pending' = pending /\ seq' = seq
    BY <1>2
  <2> HIDE DEF job
  <2> QED BY <2>1, <2>2, <2>3, SignalWaits
<1> QED BY <1>1, <1>2 DEF Enters

\* A writer whose send is over, taken or failed, lets go of the lock.
LEMMA SendOver ==
  ASSUME WireInv, OpenKept, NEW w \in Writer, Sends(w), task' = [task EXCEPT ![w] = task[w].then],
         pending' = pending, seq' = seq, line' = line, made' = made, cut' = cut, stage' = stage,
         \/ taken' = taken /\ open' = FALSE
         \/ taken' = Append(taken, task[w].frame) /\ open' = open /\ w \notin Producer
  PROVE  Flow /\ OpenKept'
<1>0. Producer \subseteq Writer /\ "consumer" \in Writer
  BY DEF Producer, Writer
<1>1. /\ task'[w] = task[w].then /\ Apart(w) /\ \A v \in Writer \ {w} : task'[v] = task[v]
  BY OthersStay DEF WireInv
<1>2. /\ task[w].then.at \in {"off", "renders"}
      /\ w \in Producer => task[w].then.at = "renders"
      /\ w \notin Producer => task[w].then = Idle
  <2>1. CASE w \in Producer
    <3>1. \E u \in Seq(Unit) : task[w] = Plays(u)
      BY <2>1, SenderKnown DEF Producer
    <3>2. task[w].then = Rendering(line)
      BY <3>1 DEF Plays
    <3> QED BY <2>1, <3>2, Places
  <2>2. CASE w \notin Producer
    <3>1. \E k \in {"mark", "clear"}, m \in LineNos : task[w] = SendsSign(k, m)
      BY <2>2, SenderKnown
    <3>2. task[w].then = Idle
      BY <3>1 DEF SendsSign
    <3> QED BY <2>2, <3>2, Places
  <2> QED BY <2>1, <2>2
<1>3. \A v \in Writer : ~Sends(v)'
  BY <1>1, <1>2, OneSends DEF Apart, Sends
<1>4. SeqFlow /\ OpenKept'
  BY <1>3 DEF SeqFlow, OpenKept
<1>5. \A p \in Producer : Voice(p)' <=> Voice(p)
  BY <1>0, <1>1, <1>2 DEF Voice, Sends
<1>6. LineFlow
  BY <1>5, LineStays
<1>7. CASE w \in Producer
  <2>1. Aloud' = <<>> /\ Handed' = <<>>
    <3>1. \A p \in Producer \ {w} : ~Voice(p)
      BY <1>0, <1>7, RestKnown DEF Voice, Sends
    <3>2. \A p \in Producer : ~Waits(p)'
      BY <1>0, <1>1, <1>2, <1>5, <3>1 DEF Waits, Voice
    <3> QED BY <1>0, <1>3, <3>2, RestEmptied
  <2>2. UnitsFlow
    BY <1>7, <2>1 DEF UnitsFlow, Drops, SignalOut
  <2>3. ClearFlow
    <3>1. task'["consumer"] = task["consumer"]
      BY <1>0, <1>1, <1>7 DEF Producer
    <3> QED BY <3>1, ClearStays
  <2> QED BY <1>4, <1>6, <2>2, <2>3 DEF Flow
<1>8. CASE w \notin Producer
  <2>1. Aloud' = Aloud /\ Handed' = Handed
    BY <1>0, <1>1, <1>8, RestStays
  <2>2. UnitsFlow
    BY <1>8, <2>1 DEF UnitsFlow, Stays, SignalOut, Writer, Producer
  <2>3. ClearFlow
    <3>1. CASE w = "consumer"
      <4>1. ~Clearing' /\ ~Busy
        BY <1>1, <1>2, <1>8, <3>1, Places DEF Clearing, Busy, Waits, Sends
      <4> QED BY <1>0, <1>3, <4>1 DEF ClearFlow
    <3>2. CASE w # "consumer"
      <4>1. task'["consumer"] = task["consumer"]
        BY <1>0, <1>1, <3>2
      <4> QED BY <4>1, ClearStays
    <3> QED BY <3>1, <3>2
  <2> QED BY <1>4, <1>6, <2>2, <2>3 DEF Flow
<1> QED BY <1>7, <1>8

\* The actions one by one.
LEMMA AcquiresFlow ==
  ASSUME WireInv, OpenKept, NEW w \in Writer, Acquires(w)
  PROVE  Flow /\ OpenKept'
<1>1. /\ owner = w /\ Waits(w) /\ Works(w, task[w].job)
      /\ UNCHANGED <<stage, open, taken, line, made, cut>>
  BY DEF Acquires, Waits
<1>2. CASE w \in Producer
  <2>1. line \in LineNos
    BY <1>1, <1>2, WaiterKnown DEF Producer
  <2>2. PICK u \in Seq(Unit) : task[w] = Asks(u)
    BY <1>1, <1>2, WaiterKnown DEF Producer
  <2>3. task[w].job.kind = "audio" /\ task[w].job.units = u /\ task[w].job.then = Rendering(line)
    BY <2>2 DEF Asks
  <2>4. SendsAudio(w, pending \o u, Rendering(line))
    BY <1>1, <2>3 DEF Works
  <2>5. pending \o u \in Seq(Unit) /\ Voice(w)
    BY <1>1, ConcatProperties DEF WireInv, WireTyped, Voice, Waits
  <2> DEFINE s == pending \o u
  <2>6. s \in Seq(Unit) /\ SendsAudio(w, s, Rendering(line))
    BY <2>4, <2>5
  <2> HIDE DEF s
  <2>7. /\ Speaks /\ ~Clearing /\ ~Clearing' /\ Split(s) /\ Handed' = <<>>
        /\ LineFlow /\ ClearFlow /\ OpenKept'
        /\ (seq' = seq /\ \A v \in Writer : ~Sends(v)') \/ seq' = seq + 1
        /\ w = Who
    BY <1>1, <1>2, <2>1, <2>5, <2>6, AudioFlow
  <2>8. Handed = u /\ Aloud = <<>>
    BY <1>1, <2>3, <2>7 DEF Handed, Aloud, Waits, Sends
  <2>9. Moves
    BY <1>1, <2>7, <2>8 DEF Moves, s
  <2>10. SeqFlow
    BY <1>1, <2>7 DEF SeqFlow
  <2> QED BY <2>7, <2>9, <2>10 DEF Flow, UnitsFlow
<1>3. CASE w \notin Producer
  <2>1. PICK kind \in {"mark", "clear"}, l \in LineNos :
          task[w] = AsksSignal(kind, l) /\ Signals(w, kind, l)
    BY <1>1, <1>3, WaiterKnown
  <2>2. SendsSignal(w, kind, l, Idle)
    BY <1>1, <2>1 DEF Works, AsksSignal
  <2>3. Signal(w, kind, l)
    <3>1. CASE w = "consumer"
      <4>1. Clearing /\ ClearLine = l
        BY <1>1, <2>1, <3>1 DEF Clearing, ClearLine, AsksSignal
      <4> QED BY <2>1, <4>1 DEF Signal, Signals
    <3>2. CASE w # "consumer"
      BY <2>1, <3>2 DEF Signal, Signals
    <3> QED BY <3>1, <3>2
  <2> QED BY <1>1, <2>2, <2>3, SignalFlow
<1> QED BY <1>2, <1>3

LEMMA SentFlow ==
  ASSUME WireInv, OpenKept, NEW w \in Writer, Sent(w)
  PROVE  Flow /\ OpenKept'
<1>1. Sends(w) /\ taken' = Append(taken, task[w].frame) /\ UNCHANGED <<stage, open, line, made, cut>>
  BY DEF Sent, Sends
<1>2. CASE w \in Producer
  <2>1. line \in LineNos /\ \E u \in Seq(Unit) : task[w] = Plays(u)
    BY <1>1, <1>2, SenderKnown DEF Producer
  <2>2. SendsAudio(w, pending, Rendering(line))
    BY <2>1 DEF Sent, Plays
  <2>3. Voice(w) /\ pending \in Seq(Unit) /\ owner = w
    BY <1>1 DEF WireInv, WireTyped, LockKept, Voice, Sends
  <2>4. /\ Speaks /\ ~Clearing /\ ~Clearing' /\ Split(pending) /\ Handed' = <<>>
        /\ LineFlow /\ ClearFlow /\ OpenKept'
        /\ (seq' = seq /\ \A v \in Writer : ~Sends(v)') \/ seq' = seq + 1
        /\ w = Who
    BY <1>1, <1>2, <2>1, <2>2, <2>3, AudioFlow
  <2>5. Aloud # <<>> /\ Handed = <<>>
    BY <1>1, <2>4, RestKnown
  <2>6. AudioOut
    <3>1. task[w].frame = [kind |-> "media", seq |-> seq, units |-> Aloud]
      BY <2>4, <2>5, RestKnown
    <3> QED BY <1>1, <2>5, <3>1 DEF AudioOut
  <2>7. Emits
    BY <1>1, <2>4, <2>5, <2>6 DEF Emits
  <2>8. SeqFlow
    BY <1>1, <2>4 DEF SeqFlow
  <2> QED BY <2>4, <2>7, <2>8 DEF Flow, UnitsFlow
<1>3. CASE w \notin Producer
  <2>1. PICK kind \in {"mark", "clear"}, l \in LineNos : task[w] = SendsSign(kind, l)
    BY <1>1, <1>3, SenderKnown
  <2>2. task' = [task EXCEPT ![w] = task[w].then] /\ pending' = pending /\ seq' = seq
    BY <2>1 DEF Sent, SendsSign
  <2> QED BY <1>1, <1>3, <2>2, SendOver
<1> QED BY <1>2, <1>3

LEMMA SendFailsFlow ==
  ASSUME WireInv, OpenKept, NEW w \in Writer, SendFails(w)
  PROVE  Flow /\ OpenKept'
BY SendOver DEF SendFails, Sends

LEMMA HandsFlow ==
  ASSUME WireInv, OpenKept, NEW w \in Producer, NEW n \in Nat, Hands(w, n), w = "hold" => n = Frame
  PROVE  Flow /\ OpenKept'
<1> DEFINE job == [kind |-> "audio", units |-> Chunk(line, n), then |-> Rendering(line)]
<1>0. w \in Writer /\ "consumer" \in Writer /\ w # "consumer" /\ Producer \subseteq Writer
  BY DEF Producer, Writer
<1>1. line \in LineNos /\ task[w] = Rendering(line)
  BY SpeakerKnown DEF Hands
<1>2. /\ made' = [made EXCEPT ![line] = @ + n] /\ open
      /\ UNCHANGED <<stage, open, taken, line, cut>>
      /\ Enters(w, job)
  <2>1. task[w].line = line
    BY <1>1 DEF Rendering
  <2>2. /\ made' = [made EXCEPT ![line] = @ + n] /\ open /\ UNCHANGED <<stage, open, taken, line, cut>>
        /\ Enters(w, [kind |-> "audio", units |-> Chunk(line, n), then |-> task[w]])
    BY <2>1 DEF Hands
  <2>3. Enters(w, job)
    BY <1>1, <2>2
  <2> QED BY <2>2, <2>3
<1>3. Voice(w)
  BY <1>1, Places DEF Voice
<1>4. w = Who /\ (Voice("hold") => n = Frame)
  <2>1. w = Who
    BY <1>3, RestKnown
  <2> QED BY <2>1 DEF Who
<1>5. Aloud = <<>> /\ Handed = <<>>
  BY <1>1, <1>4, Places DEF Aloud, Handed, Waits, Sends
<1>6. Chunk(line, n) \in Seq(Unit)
  BY <1>1, ChunkTyped
<1>7. CASE owner = None /\ Works(w, job)
  <2> DEFINE c == Chunk(line, n)
             s == pending \o c
  <2>1. SendsAudio(w, s, Rendering(line))
    BY <1>7 DEF Works
  <2> HIDE DEF c
  <2>2. s \in Seq(Unit)
    BY <1>6, ConcatProperties DEF WireInv, WireTyped, c
  <2> HIDE DEF s
  <2>3. /\ Speaks /\ ~Clearing /\ ~Clearing' /\ Split(s) /\ Handed' = <<>>
        /\ LineFlow /\ ClearFlow /\ OpenKept'
        /\ (seq' = seq /\ \A v \in Writer : ~Sends(v)') \/ seq' = seq + 1
    BY <1>1, <1>2, <1>3, <1>7, <2>1, <2>2, AudioFlow
  <2>4. Begins(n)
    BY <1>2, <1>4, <1>5, <2>3 DEF Begins, Grows, s, c
  <2>5. SeqFlow
    BY <1>2, <2>3 DEF SeqFlow
  <2> QED BY <2>3, <2>4, <2>5 DEF Flow, UnitsFlow
<1>8. CASE /\ owner # None
           /\ queue' = Append(queue, w)
           /\ task' = [task EXCEPT ![w] = [at |-> "waits", job |-> job]]
           /\ UNCHANGED <<owner, pending, seq>>
  <2>1. task' = [task EXCEPT ![w] = Asks(Chunk(line, n))]
    BY <1>8 DEF Asks
  <2> DEFINE c == Chunk(line, n)
             x == Asks(c)
  <2>2. x.at = "waits" /\ x.job.units = c
    BY DEF Asks
  <2>3. task' = [task EXCEPT ![w] = x]
    BY <2>1
  <2> HIDE DEF x, c
  <2>4. task'[w] = x /\ Apart(w) /\ \A v \in Writer \ {w} : task'[v] = task[v]
    BY <1>0, <2>3, OthersStay DEF WireInv
  <2>5. \A v \in Writer : (Voice(v)' <=> Voice(v)) /\ (Sends(v)' => Sends(v))
    BY <1>3, <2>2, <2>4 DEF Voice, Apart, Sends
  <2>6. Who' = w
    BY <1>0, <1>4, <2>5 DEF Who, Writer, Producer
  <2>7. Handed' = c /\ Aloud' = <<>>
    BY <2>2, <2>4, <2>6 DEF Handed, Aloud, Waits, Sends
  <2>8. Speaks
    BY <1>1, <1>2, <1>3, <1>4, <2>5 DEF Speaks, Writer
  <2>9. Queues(n)
    BY <1>2, <1>4, <1>5, <1>8, <2>7, <2>8 DEF Queues, Grows, c
  <2>10. SeqFlow /\ OpenKept'
    BY <1>2, <1>8, <2>5 DEF SeqFlow, OpenKept
  <2>11. LineFlow
    BY <1>0, <1>2, <2>5, LineStays
  <2>12. ClearFlow
    BY <1>0, <1>8, <2>4, ClearStays
  <2> QED BY <2>9, <2>10, <2>11, <2>12 DEF Flow, UnitsFlow
<1> QED
  BY <1>2, <1>7, <1>8 DEF Enters

LEMMA SpeechEndsFlow ==
  ASSUME WireInv, OpenKept, SpeechEnds
  PROVE  Flow /\ OpenKept'
<1>1. "talker" \in Writer
  BY DEF Writer
<1> QED BY <1>1, SignalEntersFlow DEF SpeechEnds

LEMMA ClearsFlow ==
  ASSUME WireInv, OpenKept, Clears
  PROVE  Flow /\ OpenKept'
<1>1. /\ task["consumer"].line = line /\ line \in cut /\ Silent /\ "consumer" \in Writer
  BY ClearsKnown DEF Clears, Silent, Writer
<1> QED BY <1>1, SignalEntersFlow DEF Clears

LEMMA StagesFlow ==
  ASSUME WireInv, OpenKept, Start \/ NoStart \/ Routed \/ UNCHANGED wireVars
  PROVE  Flow /\ OpenKept'
<1>1. /\ UNCHANGED <<open, owner, queue, task, pending, seq, taken, line, made, cut>>
      /\ Ongoing' => Ongoing
  BY DEF Start, NoStart, Routed, Becomes, wireVars, lock, Ongoing
<1>2. UnitsFlow
  BY <1>1, RestStays DEF UnitsFlow, Stays, SignalOut
<1>3. LineFlow
  BY <1>1 DEF LineFlow, Voice
<1>4. ClearFlow
  BY <1>1, ClearStays
<1>5. SeqFlow /\ OpenKept'
  BY <1>1 DEF SeqFlow, OpenKept, Sends
<1> QED BY <1>2, <1>3, <1>4, <1>5 DEF Flow

LEMMA StartHoldFlow ==
  ASSUME WireInv, OpenKept, StartHold
  PROVE  Flow /\ OpenKept'
<1>1. /\ Live /\ Settled /\ line < MaxLines /\ line' = line + 1
      /\ ~Voice("talker") /\ ~Voice("hold")
      /\ task' = [task EXCEPT !["hold"] = Rendering(line')]
      /\ UNCHANGED <<stage, open, owner, queue, pending, seq, taken, made, cut>>
  BY DEF StartHold, Rendering, lock
<1>2. /\ task'["hold"] = Rendering(line') /\ "hold" \in Writer /\ "consumer" \in Writer /\ "player" \in Writer
      /\ Producer \subseteq Writer
      /\ \A v \in Writer \ {"hold"} : task'[v] = task[v]
  BY <1>1, OthersStay DEF WireInv, Writer, Producer
<1>3. ~Voice("player")
  BY <1>1, SpeakerKnown DEF Voice
<1>4. Aloud = <<>> /\ Handed = <<>> /\ Aloud' = <<>> /\ Handed' = <<>>
  <2>1. \A p \in Producer : ~Waits(p) /\ ~Sends(p)
    BY <1>1, <1>3 DEF Producer, Waits, Sends, Voice
  <2>2. \A p \in Producer : ~Waits(p)' /\ ~Sends(p)'
    BY <1>2, <2>1, Places DEF Producer, Waits, Sends
  <2> QED BY <2>1, <2>2, RestEmpty, RestEmptied
<1>5. Stays
  BY <1>1, <1>4 DEF Stays, SignalOut
<1>6. \A v \in Writer : Sends(v)' => Sends(v)
  BY <1>2, Places DEF Sends
<1>7. task'["consumer"] = task["consumer"]
  BY <1>2
<1>8. line' \in LineNos /\ line' \notin cut'
  <2>1. line' \in LineNos
    BY <1>1, LineBegins
  <2> QED BY <1>1, <2>1, LineAssumption DEF WireInv, WireTyped
<1>9. LineFlow
  BY <1>1, <1>3, <1>5, <1>7, <1>8 DEF LineFlow, Ongoing, Live, Settled
<1>10. SeqFlow /\ OpenKept' /\ ClearFlow
  BY <1>1, <1>6, <1>7, ClearStays DEF SeqFlow, OpenKept
<1> QED BY <1>5, <1>9, <1>10 DEF Flow, UnitsFlow

LEMMA SpeakFlow ==
  ASSUME WireInv, OpenKept, Speak
  PROVE  Flow /\ OpenKept'
<1>1. /\ Live /\ Settled /\ line < MaxLines /\ line' = line + 1 /\ ~Voice("talker")
      /\ MayBeOut({"hold"})
      /\ task' = [task EXCEPT !["hold"] = Idle, !["player"] = Rendering(line'),
                              !["talker"] = [at |-> "speaks", line |-> line']]
      /\ cut' = IF Voice("hold") THEN cut \cup {line} ELSE cut
      /\ UNCHANGED <<stage, open, pending, seq, made>>
  BY DEF Speak, Rendering, Cancelled
<1>2. /\ task'["hold"] = Idle /\ task'["player"] = Rendering(line')
      /\ task'["talker"] = [at |-> "speaks", line |-> line']
      /\ task'["consumer"] = task["consumer"]
  <2> DEFINE x == Rendering(line')
             y == [at |-> "speaks", line |-> line']
  <2>1. task' = [task EXCEPT !["hold"] = Idle, !["player"] = x, !["talker"] = y]
    BY <1>1
  <2> HIDE DEF x, y
  <2>2. /\ task'["hold"] = Idle /\ task'["player"] = x /\ task'["talker"] = y
        /\ task'["consumer"] = task["consumer"]
    BY <2>1, PlaybackBegun DEF WireInv
  <2> QED BY <2>2 DEF x, y
<1>3. ~Voice("player")
  BY <1>1, SpeakerKnown DEF Voice
<1>4. \A p \in Producer : ~Waits(p)' /\ ~Sends(p)'
  BY <1>2, Places DEF Producer, Waits, Sends
<1>5. \A v \in Writer : Sends(v)' => Sends(v)
  BY <1>2, Places DEF Writer, Sends
<1>6. SeqFlow /\ (SignalOut \/ AudioOut)
  <2>1. {"hold"} \in SUBSET Writer /\ \A w \in {"hold"} : ~Sends(w)'
    BY <1>4 DEF Writer, Producer
  <2> QED BY <1>1, <1>5, <2>1, OutFlow
<1>7. Drops
  BY <1>1, <1>4, <1>6, RestEmptied DEF Drops
<1>8. line' \in LineNos /\ line' \notin cut'
  <2>1. line' \in LineNos
    BY <1>1, LineBegins
  <2> QED BY <1>1, <2>1, LineAssumption DEF WireInv, WireTyped
<1>9. LineFlow
  BY <1>1, <1>2, <1>3, <1>7, <1>8 DEF LineFlow, Ongoing, Live, Settled
<1>10. OpenKept' /\ ClearFlow
  BY <1>1, <1>2, <1>5, ClearStays DEF OpenKept
<1> QED BY <1>6, <1>7, <1>9, <1>10 DEF Flow, UnitsFlow

LEMMA PlayEndsFlow ==
  ASSUME WireInv, OpenKept, PlayEnds
  PROVE  Flow /\ OpenKept'
<1>1. /\ task["player"].at = "renders" /\ Voice("player")
      /\ task' = [task EXCEPT !["player"] = Idle, !["talker"].at = "woken"]
      /\ UNCHANGED <<stage, open, owner, queue, pending, seq, taken, line, made, cut>>
  BY DEF PlayEnds, lock, Voice
<1>2. task["talker"] = [at |-> "speaks", line |-> line] /\ ~Voice("hold")
  BY <1>1, SpeakerKnown
<1>3. /\ task'["player"] = Idle /\ task'["hold"] = task["hold"]
      /\ task'["talker"] = [at |-> "woken", line |-> line]
      /\ task'["consumer"] = task["consumer"]
  BY <1>1, <1>2, PlaybackOver DEF WireInv
<1>4. Aloud = <<>> /\ Handed = <<>> /\ Aloud' = <<>> /\ Handed' = <<>>
  <2>1. \A p \in Producer : ~Waits(p) /\ ~Sends(p)
    BY <1>1, <1>2 DEF Producer, Waits, Sends, Voice
  <2>2. \A p \in Producer : ~Waits(p)' /\ ~Sends(p)'
    BY <1>2, <1>3, <2>1, Places DEF Producer, Waits, Sends
  <2> QED BY <2>1, <2>2, RestEmpty, RestEmptied
<1>5. Stays
  BY <1>1, <1>4 DEF Stays, SignalOut
<1>6. \A v \in Writer : Sends(v)' => Sends(v)
  BY <1>3, Places DEF Writer, Sends
<1>7. \A p \in Producer : Voice(p)' => Voice(p)
  BY <1>3, Places DEF Producer, Voice
<1>8. LineFlow
  BY <1>1, <1>7, LineStays
<1>9. SeqFlow /\ OpenKept' /\ ClearFlow
  BY <1>1, <1>3, <1>6, ClearStays DEF SeqFlow, OpenKept
<1> QED BY <1>5, <1>8, <1>9 DEF Flow, UnitsFlow

\* The playback is cancelled: by the caller, who is then to clear, or by the end.
LEMMA CutFlow ==
  ASSUME WireInv, OpenKept, Voice("player"), Cancelled("player"), NEW z,
         \/ /\ task' = [task EXCEPT !["player"] = Idle, !["talker"].at = "woken"]
            /\ z = task["consumer"] /\ ~Ongoing'
         \/ /\ task' = [task EXCEPT !["player"] = Idle, !["talker"].at = "woken", !["consumer"] = z]
            /\ ~Voice("consumer")
            /\ z = [at |-> "clears", line |-> line],
         cut' = cut \cup {line},
         UNCHANGED <<stage, open, pending, seq, line, made>>
  PROVE  Flow /\ OpenKept'
<1>1. line \in LineNos /\ task["talker"] = [at |-> "speaks", line |-> line] /\ ~Voice("hold")
  BY SpeakerKnown
<1>2. /\ task'["player"] = Idle /\ task'["hold"] = task["hold"]
      /\ task'["talker"] = [at |-> "woken", line |-> line]
      /\ task'["consumer"] = z
  BY <1>1, PlaybackOver DEF WireInv
<1>3. \/ z = task["consumer"] /\ ~Ongoing'
      \/ ~Voice("consumer") /\ z.at = "clears"
  OBVIOUS
<1>4. \A p \in Producer : ~Waits(p)' /\ ~Sends(p)' /\ (Voice(p)' => Voice(p))
  BY <1>1, <1>2, Places DEF Producer, Waits, Sends, Voice
<1>5. \A v \in Writer : Sends(v)' => Sends(v)
  BY <1>2, <1>3, <1>4 DEF Producer, Writer, Sends
<1>6. SeqFlow /\ (SignalOut \/ AudioOut)
  <2>1. {"player"} \in SUBSET Writer /\ \A w \in {"player"} : ~Sends(w)'
    BY <1>4 DEF Writer, Producer
  <2>2. MayBeOut({"player"})
    BY DEF Cancelled
  <2> QED BY <1>5, <2>1, <2>2, OutFlow
<1>7. Drops
  <2>1. line \in cut' /\ (task'["consumer"].at = "clears" \/ ~Ongoing')
    BY <1>2, <1>3
  <2> QED BY <1>4, <1>6, <2>1, RestEmptied DEF Drops
<1>8. LineFlow
  BY <1>4, LineStays
<1>9. ClearFlow
  <2>1. CASE z = task["consumer"]
    BY <1>2, <2>1, ClearStays
  <2>2. CASE ~Voice("consumer") /\ z.at = "clears"
    BY <1>2, <2>2 DEF ClearFlow, Clearing, Busy, Waits, Sends, Voice
  <2> QED BY <1>3, <2>1, <2>2
<1>10. OpenKept'
  BY <1>5 DEF OpenKept
<1> QED BY <1>6, <1>7, <1>8, <1>9, <1>10 DEF Flow, UnitsFlow

LEMMA FinishesPlaybackFlow ==
  ASSUME WireInv, OpenKept, FinishesPlayback
  PROVE  Flow /\ OpenKept'
<1>1. ~Ongoing'
  BY DEF FinishesPlayback, Ongoing
<1> QED BY <1>1, CutFlow DEF FinishesPlayback

LEMMA BargeInFlow ==
  ASSUME WireInv, OpenKept, BargeIn
  PROVE  Flow /\ OpenKept'
<1>1. /\ task["talker"].at \in {"speaks", "woken"} /\ ~Voice("consumer")
      /\ UNCHANGED <<stage, open, line, made>>
  BY DEF BargeIn
<1>2. task["talker"].line = line
  BY <1>1, SpeakerKnown
<1>3. CASE /\ Voice("player")
           /\ Cancelled("player")
           /\ task' = [task EXCEPT !["player"] = Idle, !["talker"].at = "woken",
                                   !["consumer"] = [at |-> "clears", line |-> line]]
           /\ cut' = cut \cup {line}
           /\ UNCHANGED <<pending, seq>>
  BY <1>1, <1>3, CutFlow
<1>4. CASE /\ ~Voice("player")
           /\ Enters("consumer", [kind |-> "clear", line |-> line, then |-> Idle])
           /\ cut' = cut \cup {line}
           /\ UNCHANGED taken
  <2>1. Silent
    <3>1. Voice("talker")
      BY <1>1 DEF Voice
    <3> QED BY <1>4, <3>1 DEF WireInv, RolesKept, Silent
  <2>2. "consumer" \in Writer /\ cut \subseteq cut' /\ line \in cut'
    BY <1>4 DEF Writer
  <2> QED BY <1>1, <1>4, <2>1, <2>2, SignalEntersFlow
<1> QED
  BY <1>2, <1>3, <1>4 DEF BargeIn

LEMMA SupersededFlow ==
  ASSUME WireInv, OpenKept, Superseded
  PROVE  Flow /\ OpenKept'
<1>1. /\ MayBeOut({"talker"}) /\ task' = [task EXCEPT !["talker"] = Idle]
      /\ UNCHANGED <<stage, open, pending, seq, line, made, cut>>
  BY DEF Superseded, Cancelled
<1>2. /\ task'["talker"] = Idle /\ "talker" \in Writer /\ "consumer" \in Writer /\ "talker" # "consumer"
      /\ Producer \subseteq Writer \ {"talker"}
      /\ \A v \in Writer \ {"talker"} : task'[v] = task[v]
  BY <1>1, OthersStay DEF WireInv, Writer, Producer
<1>3. \A v \in Writer : Sends(v)' => Sends(v)
  BY <1>2, Places DEF Sends
<1>4. SeqFlow /\ SignalOut
  <2>1. {"talker"} \in SUBSET Writer /\ {"talker"} \cap Producer = {} /\ \A w \in {"talker"} : ~Sends(w)'
    BY <1>2, Places DEF Sends
  <2> QED BY <1>1, <1>3, <2>1, OutFlow
<1>5. Stays /\ \A p \in Producer : Voice(p)' => Voice(p)
  BY <1>1, <1>2, <1>4, RestStays DEF Stays
<1>6. LineFlow
  BY <1>1, <1>5, LineStays
<1>7. ClearFlow /\ OpenKept'
  BY <1>1, <1>2, <1>3, ClearStays DEF OpenKept
<1> QED BY <1>4, <1>5, <1>6, <1>7 DEF Flow, UnitsFlow

LEMMA FinishesFlow ==
  ASSUME WireInv, OpenKept, Finishes
  PROVE  Flow /\ OpenKept'
<1>1. /\ Live /\ stage' = "finishing" /\ MayBeOut({"hold"})
      /\ task' = [task EXCEPT !["hold"] = Idle]
      /\ cut' = IF Voice("hold") THEN cut \cup {line} ELSE cut
      /\ UNCHANGED <<open, pending, seq, line, made>>
  BY DEF Finishes, Cancelled
<1>2. /\ task'["hold"] = Idle /\ "hold" \in Writer /\ "consumer" \in Writer /\ "player" \in Writer
      /\ \A v \in Writer \ {"hold"} : task'[v] = task[v]
  BY <1>1, OthersStay DEF WireInv, Writer
<1>3. \A v \in Writer : (Sends(v)' => Sends(v)) /\ (Voice(v)' => Voice(v))
  BY <1>2, Places DEF Sends, Voice
<1>4. SeqFlow /\ (SignalOut \/ AudioOut)
  <2>1. {"hold"} \in SUBSET Writer /\ \A w \in {"hold"} : ~Sends(w)'
    BY <1>2, Places DEF Sends
  <2> QED BY <1>1, <1>3, <2>1, OutFlow
<1>5. UnitsFlow
  <2>1. CASE Voice("hold")
    <3>1. ~Voice("player")
      BY <2>1, SpeakerKnown
    <3>2. \A p \in Producer : ~Waits(p)' /\ ~Sends(p)'
      BY <1>2, <3>1, Places DEF Producer, Waits, Sends, Voice
    <3>3. line \in cut' /\ ~Ongoing'
      BY <1>1, <2>1 DEF Ongoing
    <3> QED BY <1>1, <1>4, <3>2, <3>3, RestEmptied DEF UnitsFlow, Drops
  <2>2. CASE ~Voice("hold")
    <3>1. task["hold"] = Idle
      BY <2>2, Places DEF WireInv, RolesKept, Utters, Voice
    <3>2. \A p \in Producer : task'[p] = task[p]
      BY <1>2, <3>1 DEF Producer
    <3>3. taken' = taken
      BY <1>1, <2>2 DEF MayBeOut, Voice
    <3> QED BY <1>1, <3>2, <3>3, RestStays DEF UnitsFlow, Stays, SignalOut
  <2> QED BY <2>1, <2>2
<1>6. LineFlow
  BY <1>1, <1>2, <1>3 DEF LineFlow, Ongoing, Producer
<1>7. ClearFlow /\ OpenKept'
  BY <1>1, <1>2, <1>3, ClearStays DEF OpenKept
<1> QED BY <1>4, <1>5, <1>6, <1>7 DEF Flow

LEMMA ClosesFlow ==
  ASSUME WireInv, OpenKept, Closes
  PROVE  Flow /\ OpenKept'
<1>1. /\ stage' = "closed" /\ open' = FALSE /\ MayBeOut(Writer)
      /\ task' = [w \in Writer |-> Idle]
      /\ UNCHANGED <<pending, seq, line, made, cut>>
  BY DEF Closes
<1>2. \A w \in Writer : ~Waits(w)' /\ ~Sends(w)' /\ ~Voice(w)'
  BY <1>1, Places DEF Waits, Sends, Voice
<1>3. SeqFlow /\ (SignalOut \/ AudioOut)
  BY <1>1, <1>2, OutFlow
<1>4. Producer \subseteq Writer /\ "consumer" \in Writer
  BY DEF Producer, Writer
<1>5. Drops
  BY <1>1, <1>2, <1>3, <1>4, RestEmptied DEF Drops
<1>6. LineFlow
  BY <1>1, <1>2, <1>4 DEF LineFlow, Ongoing
<1>7. ClearFlow /\ OpenKept'
  BY <1>1, <1>2, <1>4 DEF ClearFlow, Clearing, OpenKept
<1> QED BY <1>3, <1>5, <1>6, <1>7 DEF Flow, UnitsFlow

\* Every step is one of those moves.
LEMMA FlowStep ==
  ASSUME WireInv, OpenKept, [LineNext]_wireVars
  PROVE  Flow /\ OpenKept'
<1>1. CASE Start \/ NoStart \/ Routed \/ UNCHANGED wireVars
  BY <1>1, StagesFlow
<1>2. CASE \E w \in Writer : Acquires(w) \/ Sent(w) \/ SendFails(w)
  BY <1>2, AcquiresFlow, SentFlow, SendFailsFlow
<1>3. CASE StartHold \/ Speak \/ PlayEnds
  BY <1>3, StartHoldFlow, SpeakFlow, PlayEndsFlow
<1>4. CASE Renders \/ Hums
  BY <1>4, HandsFlow, LineAssumption DEF Renders, Hums, Producer
<1>5. CASE BargeIn \/ Clears \/ SpeechEnds \/ Superseded
  BY <1>5, BargeInFlow, ClearsFlow, SpeechEndsFlow, SupersededFlow
<1>6. CASE Finishes \/ FinishesPlayback \/ Closes
  BY <1>6, FinishesFlow, FinishesPlaybackFlow, ClosesFlow
<1> QED
  BY <1>1, <1>2, <1>3, <1>4, <1>5, <1>6 DEF LineNext

-----------------------------------------------------------------------------
(* What holds of every call on its wire. *)

\* The inductive invariant of a call on its wire.
CallWireInv == WireInv /\ OpenKept /\ SeqInv /\ OrderInv /\ ClearInv /\ MarkInv

LEMMA CallWireStart ==
  ASSUME LineInit
  PROVE  CallWireInv
<1>1. /\ WireInv /\ Len(<<>>) = 0 /\ line = 0 /\ taken = <<>> /\ pending = <<>>
      /\ \A l \in LineNos : made[l] = 0
  BY WireStart, EmptySeq DEF LineInit
<1>2. \A w \in Writer : ~Waits(w) /\ ~Sends(w) /\ ~Voice(w)
  BY Places DEF LineInit, Waits, Sends, Voice
<1>3. "hold" \in Writer /\ "player" \in Writer /\ "consumer" \in Writer /\ Producer \subseteq Writer
  BY DEF Writer, Producer
<1>4. Aloud = <<>> /\ Handed = <<>>
  BY <1>2, <1>3, RestEmpty
<1>5. DOMAIN taken = {}
  BY <1>1, FramesKnown
<1>6. SeqInv /\ OpenKept
  BY <1>2, <1>5 DEF SeqInv, SequenceKept, OpenKept
<1>7. OrderInv
  <2>1. AudioInOrder
    BY <1>5 DEF AudioInOrder, Media
  <2> QED BY <1>1, <1>4, <2>1 DEF OrderInv, InOrder, Follows, After, Known
<1>8. ClearInv
  BY <1>1, <1>2, <1>3 DEF ClearInv, ClearsPlain, Clearing
<1>9. MarkInv
  <2>1. line \notin LineNos /\ Len(pending) < Frame
    BY <1>1, LineAssumption DEF LineNos
  <2> QED BY <1>1, <1>2, <1>3, <2>1 DEF MarkInv, MarksPlain, LineKept, ShortKept, HumKept
<1> QED BY <1>1, <1>6, <1>7, <1>8, <1>9 DEF CallWireInv

LEMMA CallWireStep ==
  CallWireInv /\ [LineNext]_wireVars => CallWireInv'
<1> SUFFICES ASSUME CallWireInv, [LineNext]_wireVars PROVE CallWireInv'
  OBVIOUS
<1>1. WireInv /\ WireInv'
  BY WireStep DEF CallWireInv
<1>2. Flow /\ OpenKept'
  BY <1>1, FlowStep DEF CallWireInv
<1>3. SeqInv'
  BY <1>1, <1>2, SeqStep DEF CallWireInv, Flow
<1>4. OrderInv' /\ ClearInv' /\ MarkInv'
  BY <1>1, <1>2, OrderStep, ClearStep, MarkStep DEF CallWireInv
<1> QED BY <1>1, <1>2, <1>3, <1>4 DEF CallWireInv

\* A call on its wire keeps the invariant, whatever is cancelled or fails.
THEOREM WireKept == LineSpec => []CallWireInv
<1>1. LineInit => CallWireInv
  BY CallWireStart
<1> QED BY <1>1, CallWireStep, PTL DEF LineSpec

\* The state has its types: what a writer waits to send is always of a line begun.
THEOREM LineTyped == LineSpec => []LineTypeOK
<1>1. CallWireInv => LineTypeOK
  BY TasksTyped DEF CallWireInv, WireInv
<1> QED BY <1>1, WireKept, PTL

\* The carrier sees the sequence numbers rise, whoever is cancelled while the socket is slow.
THEOREM FramesInSequence == LineSpec => []SequenceKept
<1>1. CallWireInv => SequenceKept
  BY DEF CallWireInv, SeqInv
<1> QED BY <1>1, WireKept, PTL

\* No unit of audio is heard twice or out of order, within a line or across lines.
THEOREM AudioHeardInOrder == LineSpec => []AudioInOrder
<1>1. CallWireInv => AudioInOrder
  BY DEF CallWireInv, OrderInv
<1> QED BY <1>1, WireKept, PTL

\* A clear comes after whatever went out of the line it cuts and before any of a later
\* line, and nothing of the cut line follows.
THEOREM ClearsCut == LineSpec => []ClearCutsClean
<1>1. CallWireInv => ClearCutsClean
  BY ClearsClean DEF CallWireInv
<1> QED BY <1>1, WireKept, PTL

\* The mark of a line that was not cut follows all its audio but for less than a frame.
THEOREM MarksCloseLines == LineSpec => []MarkClosesLine
<1>1. CallWireInv => MarkClosesLine
  BY MarksClose DEF CallWireInv
<1> QED BY <1>1, WireKept, PTL

=============================================================================
