------------------------------- MODULE Calls -------------------------------
(***************************************************************************)
(* Every call of one process: the registry that admits them, CallManager   *)
(* (vaani/pipeline/manager.py), and the three routes that bring them in:   *)
(* voice_call (vaani/api/ws_voice.py), smartflo_stream                     *)
(* (vaani/api/smartflo.py) and AudioSocketServer._handle                   *)
(* (vaani/telephony/audiosocket.py).                                       *)
(*                                                                         *)
(* A route and its session are two tasks: either may end first, and the    *)
(* route winds the other down and frees the line.  Of the session, which   *)
(* CallSession models, there remains what a route can tell: how far it is, *)
(* whether it has been told to end, and whether its inbox is full with    *)
(* nobody to empty it.                                                     *)
(***************************************************************************)
EXTENDS Naturals, Sequences, FiniteSets

CONSTANTS
  Lines,        \* the connections callers make, each of them once
  Via,          \* the route of each: "web", "smartflo" or "asterisk"
  Max,          \* max_concurrent
  HistorySize,  \* history_size
  Faults,       \* what may go wrong, some of AllFaults
  StopWaits     \* asyncio's Server.wait_closed waits for open connections, as
                \* it does from Python 3.12 on

\* A send is stuck on a peer that reads nothing; a session ends with an error.
AllFaults == {"wedge", "error"}

ASSUME ViaAssumption == Via \in [Lines -> {"web", "smartflo", "asterisk"}]
ASSUME MaxAssumption == Max \in Nat
ASSUME HistoryAssumption == HistorySize \in Nat
ASSUME FaultsAssumption == Faults \subseteq AllFaults /\ StopWaits \in BOOLEAN

VARIABLES
  route,    \* how far the route of each line is: see Route
  wire,     \* each line's connection, "open" or "closed"
  session,  \* "none", "running", "finishing" or "over"
  ended,    \* its state is ENDED
  full,     \* its inbox is full
  wedged,   \* it is stuck in a send
  hanging,  \* who is blocked in hangup(), putting the sentinel in a full inbox
  live,     \* CallManager._live
  history,  \* CallManager._history
  total,    \* CallManager.total_calls
  mode,     \* the process: see Mode
  targets   \* the calls that drain() has still to hang up

lineVars    == <<wire, session, ended, full, wedged, hanging>>
managerVars == <<live, history, total>>
modeVars    == <<mode, targets>>
vars == <<route, lineVars, managerVars, modeVars>>

Route == {"idle", "accepted", "registered", "serving", "hanging up", "waiting", "cancelling", "gone"}
Mode  == {"up", "stopping", "draining", "hanging up", "down"}

Init ==
  /\ route = [l \in Lines |-> "idle"]
  /\ wire = [l \in Lines |-> "closed"]
  /\ session = [l \in Lines |-> "none"]
  /\ ended = [l \in Lines |-> FALSE]
  /\ full = [l \in Lines |-> FALSE]
  /\ wedged = [l \in Lines |-> FALSE]
  /\ hanging = [l \in Lines |-> "none"]
  /\ live = {} /\ history = <<>> /\ total = 0
  /\ mode = "up" /\ targets = {}

\* A step of line l's route to the point p.
Goes(l, p) == route' = [route EXCEPT ![l] = p]

-----------------------------------------------------------------------------
(* CallManager.  The lock is never held across an await, so that each of   *)
(* its methods is one step.                                                *)

AtCapacity == Cardinality(live) >= Max

\* Mutant: the cap is off by one.
RegisterPastCap(l) ==
  /\ Cardinality(live) <= Max
  /\ live' = live \cup {l}
  /\ total' = total + 1
  /\ UNCHANGED history

Register(l) ==
  /\ ~AtCapacity
  /\ live' = live \cup {l}
  /\ total' = total + 1
  /\ UNCHANGED history

Latest(s, n) == SubSeq(s, IF Len(s) > n THEN Len(s) - n + 1 ELSE 1, Len(s))

Unregister(l) ==
  /\ live' = live \ {l}
  /\ history' = Latest(Append(history, l), HistorySize)
  /\ UNCHANGED total

-----------------------------------------------------------------------------
(* The session, as its route sees it.                                      *)

\* CallSession.hangup() for who: nothing on a call that has ended; else the call
\* has, and who is blocked as long as there is no room for the sentinel.
HangUp(l, who) ==
  \/ ended[l] /\ UNCHANGED <<ended, hanging>>
  \/ /\ ~ended[l] /\ ~full[l]
     /\ ended' = [ended EXCEPT ![l] = TRUE]
     /\ UNCHANGED hanging
  \/ /\ ~ended[l] /\ full[l]
     /\ ended' = [ended EXCEPT ![l] = TRUE]
     /\ hanging' = [hanging EXCEPT ![l] = who]

\* The agent, or the watchdog, ends the call.
SessionHangsUp(l) ==
  /\ session[l] = "running" /\ ~wedged[l] /\ ~ended[l]
  /\ HangUp(l, "session")
  /\ UNCHANGED <<route, wire, session, full, wedged, managerVars, modeVars>>

\* A send does not return, and does at last.
Wedge(l) ==
  /\ "wedge" \in Faults /\ session[l] = "running" /\ ~wedged[l]
  /\ wedged' = [wedged EXCEPT ![l] = TRUE]
  /\ UNCHANGED <<route, wire, session, ended, full, hanging, managerVars, modeVars>>

Unwedge(l) ==
  /\ wedged[l]
  /\ wedged' = [wedged EXCEPT ![l] = FALSE]
  /\ UNCHANGED <<route, wire, session, ended, full, hanging, managerVars, modeVars>>

\* Whether the session's consumer empties the inbox.
Consumed(l) == session[l] = "running" /\ ~wedged[l]

\* push_audio() while nobody does, until the inbox is full; it takes nothing
\* once the call has ended.
Backlog(l) ==
  /\ route[l] = "serving" /\ wire[l] = "open"
  /\ ~Consumed(l) /\ ~ended[l] /\ ~full[l]
  /\ full' = [full EXCEPT ![l] = TRUE]
  /\ UNCHANGED <<route, wire, session, ended, wedged, hanging, managerVars, modeVars>>

Consume(l) ==
  /\ full[l] /\ Consumed(l)
  /\ full' = [full EXCEPT ![l] = FALSE]
  /\ UNCHANGED <<route, wire, session, ended, wedged, hanging, managerVars, modeVars>>

\* run() reaches its finally: the session has ended, by the sentinel or by the
\* next frame its consumer takes, or it failed.  Its own
\* tasks are cancelled, one that was blocked in hangup() among them.
Finishing(l) ==
  /\ session' = [session EXCEPT ![l] = "finishing"]
  /\ wedged' = [wedged EXCEPT ![l] = FALSE]
  /\ hanging' = [hanging EXCEPT ![l] = IF @ = "session" THEN "none" ELSE @]

RunEnds(l) ==
  /\ Consumed(l)
  /\ ended[l] \/ "error" \in Faults
  /\ Finishing(l)
  /\ UNCHANGED <<route, wire, ended, full, managerVars, modeVars>>

\* _finish() is done, and has closed the transport.
RunReturns(l) ==
  /\ session[l] = "finishing"
  /\ session' = [session EXCEPT ![l] = "over"]
  /\ wire' = [wire EXCEPT ![l] = "closed"]
  /\ UNCHANGED <<route, ended, full, wedged, hanging, managerVars, modeVars>>

SessionStep(l) ==
  \/ SessionHangsUp(l) \/ Wedge(l) \/ Unwedge(l) \/ Backlog(l) \/ Consume(l)
  \/ RunEnds(l) \/ RunReturns(l)

-----------------------------------------------------------------------------
(* The routes.                                                             *)

\* The route's task, created with the session's.
Serve(l) ==
  /\ Goes(l, "serving")
  /\ session' = [session EXCEPT ![l] = "running"]

Connects(l) ==
  /\ mode = "up" /\ route[l] = "idle"
  /\ Goes(l, "accepted")
  /\ wire' = [wire EXCEPT ![l] = "open"]
  /\ UNCHANGED <<session, ended, full, wedged, hanging, managerVars, modeVars>>

\* The peer is gone, or Smartflo's `start` is too late, before there is a call.
NeverStarts(l) ==
  /\ route[l] = "accepted"
  /\ \/ Via[l] = "smartflo"
     \/ Via[l] = "asterisk" /\ wire[l] = "closed"
  /\ Goes(l, "gone")
  /\ wire' = [wire EXCEPT ![l] = "closed"]
  /\ UNCHANGED <<session, ended, full, wedged, hanging, managerVars, modeVars>>

\* A line is free.  /ws/call still awaits the send of call_start before it
\* creates the session's task.
Admitted(l) ==
  /\ route[l] = "accepted"
  /\ Register(l)
  /\ \/ Via[l] = "web" /\ Goes(l, "registered") /\ UNCHANGED session
     \/ Via[l] # "web" /\ Serve(l)
  /\ UNCHANGED <<wire, ended, full, wedged, hanging, modeVars>>

CallStarts(l) ==
  /\ route[l] = "registered"
  /\ Serve(l)
  /\ UNCHANGED <<wire, ended, full, wedged, hanging, managerVars, modeVars>>

\* No line is free.  Asterisk's route passes through its finally all the same,
\* which hangs up the session that never ran and enters it in the history.
Refused(l) ==
  /\ route[l] = "accepted" /\ AtCapacity
  /\ Goes(l, "gone")
  /\ wire' = [wire EXCEPT ![l] = "closed"]
  /\ \/ /\ Via[l] = "asterisk"
        /\ HangUp(l, "route")
        /\ Unregister(l)
     \/ /\ Via[l] # "asterisk"
        /\ UNCHANGED <<ended, hanging, managerVars>>
  /\ UNCHANGED <<session, full, wedged, modeVars>>

CallerLeaves(l) ==
  /\ wire[l] = "open"
  /\ wire' = [wire EXCEPT ![l] = "closed"]
  /\ UNCHANGED <<route, session, ended, full, wedged, hanging, managerVars, modeVars>>

\* The reader has ended: the route hangs up, unless it sees that the session is
\* over already.  Asterisk's route does not look.
RouteHangsUp(l) ==
  /\ route[l] = "serving" /\ wire[l] = "closed"
  /\ Via[l] = "asterisk" \/ session[l] # "over"
  /\ HangUp(l, "route")
  /\ Goes(l, IF ~ended[l] /\ full[l] THEN "hanging up" ELSE "waiting")
  /\ UNCHANGED <<wire, session, full, wedged, managerVars, modeVars>>

\* There is room for the sentinel after all: whoever waited goes on.
Unblocks(l) ==
  /\ hanging[l] # "none" /\ ~full[l]
  /\ hanging' = [hanging EXCEPT ![l] = "none"]
  /\ \/ route[l] = "hanging up" /\ hanging[l] = "route" /\ Goes(l, "waiting")
     \/ hanging[l] # "route" /\ UNCHANGED route
  /\ UNCHANGED <<wire, session, ended, full, wedged, managerVars, modeVars>>

\* Only Smartflo's route limits its hangup, to five seconds.
GivesUpHangup(l) ==
  /\ route[l] = "hanging up" /\ Via[l] = "smartflo"
  /\ hanging' = [hanging EXCEPT ![l] = "none"]
  /\ Goes(l, "waiting")
  /\ UNCHANGED <<wire, session, ended, full, wedged, managerVars, modeVars>>

\* Mutant: the session is shielded from the timeout as long as it runs.
ShieldsSession(l) ==
  /\ route[l] = "waiting" /\ session[l] = "finishing"
  /\ Goes(l, "cancelling")
  /\ session' = [session EXCEPT ![l] = "over"]
  /\ UNCHANGED <<wire, ended, full, wedged, hanging, managerVars, modeVars>>

\* wait_for(session_task, 10) is over before the session: it is cancelled and
\* waited for.  As it finishes, the cancellation cuts it short, or is swallowed by
\* one of the awaits that suppress it.
CancelsSession(l) ==
  /\ route[l] = "waiting" /\ session[l] \in {"running", "finishing"}
  /\ Goes(l, "cancelling")
  /\ \/ Finishing(l)
     \/ /\ session[l] = "finishing"
        /\ session' = [session EXCEPT ![l] = "over"]
        /\ UNCHANGED <<wedged, hanging>>
  /\ UNCHANGED <<wire, ended, full, managerVars, modeVars>>

\* Mutant: the line is freed when the patience ends, whatever the session does.
ReleasesEarly(l) ==
  /\ \/ route[l] \in {"waiting", "cancelling"}
     \/ route[l] = "serving" /\ Via[l] # "asterisk" /\ session[l] = "over"
  /\ Goes(l, "gone")
  /\ wire' = [wire EXCEPT ![l] = "closed"]
  /\ Unregister(l)
  /\ UNCHANGED <<session, ended, full, wedged, hanging, modeVars>>

\* The session is over: the line is free again and the transport closed.
Releases(l) ==
  /\ session[l] = "over"
  /\ \/ route[l] \in {"waiting", "cancelling"}
     \/ route[l] = "serving" /\ Via[l] # "asterisk"
  /\ Goes(l, "gone")
  /\ wire' = [wire EXCEPT ![l] = "closed"]
  /\ Unregister(l)
  /\ UNCHANGED <<session, ended, full, wedged, hanging, modeVars>>

RouteStep(l) ==
  \/ Connects(l) \/ NeverStarts(l) \/ Admitted(l) \/ CallStarts(l) \/ Refused(l)
  \/ CallerLeaves(l) \/ RouteHangsUp(l) \/ Unblocks(l) \/ GivesUpHangup(l)
  \/ CancelsSession(l) \/ Releases(l)

-----------------------------------------------------------------------------
(* The operator and the shutdown.                                          *)

\* CallManager.hangup().
OperatorHangsUp(l) ==
  /\ l \in live
  /\ HangUp(l, "operator")
  /\ UNCHANGED <<route, wire, session, full, wedged, managerVars, modeVars>>

\* The server has closed its websockets and waited for their routes before the
\* lifespan ends, which stops the Asterisk server first.
StopAnswering ==
  /\ mode = "up"
  /\ \A l \in Lines : Via[l] # "asterisk" => route[l] \in {"idle", "gone"}
  /\ mode' = "stopping"
  /\ UNCHANGED <<route, lineVars, managerVars, targets>>

DrainStarts ==
  /\ mode = "stopping"
  /\ StopWaits => \A l \in Lines : route[l] \in {"idle", "gone"}
  /\ mode' = "draining"
  /\ UNCHANGED <<route, lineVars, managerVars, targets>>

\* Mutant: drain() has no deadline.
DrainWaitsForAll ==
  /\ mode = "draining" /\ live = {}
  /\ mode' = "hanging up" /\ targets' = live
  /\ UNCHANGED <<route, lineVars, managerVars>>

\* No call is left, or the deadline is past.
DrainGivesUp ==
  /\ mode = "draining"
  /\ mode' = "hanging up" /\ targets' = live
  /\ UNCHANGED <<route, lineVars, managerVars>>

DrainFree == mode = "hanging up" /\ \A l \in Lines : hanging[l] # "drain"

\* One hangup after the other, each of them awaited.
DrainHangsUp(l) ==
  /\ DrainFree /\ l \in targets
  /\ targets' = targets \ {l}
  /\ HangUp(l, "drain")
  /\ UNCHANGED <<route, wire, session, full, wedged, managerVars, mode>>

DrainEnds ==
  /\ DrainFree /\ targets = {}
  /\ mode' = "down"
  /\ UNCHANGED <<route, lineVars, managerVars, targets>>

DrainStep ==
  \/ DrainStarts \/ DrainGivesUp \/ DrainEnds
  \/ \E l \in Lines : DrainHangsUp(l)

-----------------------------------------------------------------------------
Next ==
  \/ \E l \in Lines : SessionStep(l) \/ RouteStep(l) \/ OperatorHangsUp(l)
  \/ StopAnswering \/ DrainStep

Spec == Init /\ [][Next]_vars

\* The tasks that can go on do: the event loop runs them, and every wait but that
\* for room in an inbox has a timeout or ends with a session's finish, which is
\* bounded by the timeouts of the services it calls.  Callers and operators do as
\* they please, and a stuck send need not ever return.
Fairness ==
  /\ \A l \in Lines :
       /\ WF_vars(CallStarts(l)) /\ WF_vars(RouteHangsUp(l)) /\ WF_vars(Unblocks(l))
       /\ WF_vars(GivesUpHangup(l)) /\ WF_vars(CancelsSession(l)) /\ WF_vars(Releases(l))
       /\ WF_vars(Consume(l)) /\ WF_vars(RunReturns(l))
  /\ WF_vars(DrainStep)

FairSpec == Spec /\ Fairness

-----------------------------------------------------------------------------
TypeOK ==
  /\ route \in [Lines -> Route]
  /\ wire \in [Lines -> {"open", "closed"}]
  /\ session \in [Lines -> {"none", "running", "finishing", "over"}]
  /\ ended \in [Lines -> BOOLEAN]
  /\ full \in [Lines -> BOOLEAN] /\ wedged \in [Lines -> BOOLEAN]
  /\ hanging \in [Lines -> {"none", "session", "route", "operator", "drain"}]
  /\ live \subseteq Lines /\ targets \subseteq Lines
  /\ history \in Seq(Lines) /\ total \in Nat
  /\ mode \in Mode

\* "The 51st caller must get a polite all lines busy": the sessions that run or
\* still finish, with the calls that are about to, never exceed the cap, whatever
\* route they came by and however they end.
Occupied == {l \in Lines : route[l] = "registered" \/ session[l] \in {"running", "finishing"}}
CapacityKept == Cardinality(Occupied \cup live) <= Max

\* A session is on the supervisor's list for as long as it does anything, and
\* every line on that list has a route that will free it.
Held == {"registered", "serving", "hanging up", "waiting", "cancelling"}
LiveIsServed ==
  /\ Occupied \subseteq live
  /\ \A l \in live : route[l] \in Held

\* A hangup that waits for room in an inbox nobody empties.
Stuck(l) == hanging[l] # "none" /\ full[l] /\ ~Consumed(l)

\* A line whose caller has gone is free again, unless its own hangup is stuck,
\* which /ws/smartflo never is.
LinesFree == \A l \in Lines :
  l \in live /\ wire[l] = "closed"
    ~> l \notin live \/ (Via[l] # "smartflo" /\ hanging[l] = "route" /\ Stuck(l))

\* drain() ends, however long callers stay, unless a hangup of its own is stuck.
DrainReturns ==
  mode = "draining" ~> \/ mode = "down"
                       \/ \E l \in Lines : hanging[l] = "drain" /\ Stuck(l)
=============================================================================
