------------------------------- MODULE Agent -------------------------------
(***************************************************************************)
(* A turn of the conversation agent (agent/runtime.py) and what the        *)
(* session makes of it (session.py, _process_turn and _apologise): the     *)
(* bounded loop of model requests and tool calls, the history it writes    *)
(* and the window of it that is sent, the actions tools ask of the call,   *)
(* and the disposition a call is filed under (tools/builtin.py,            *)
(* outcome.py).  A turn may be cut short at any await by a refusal of the  *)
(* model, by its time budget or by the end of the call.                    *)
(***************************************************************************)
EXTENDS Integers, Sequences

CONSTANTS
  None,
  MaxTurns,       \* bound: the caller's turns
  MaxCalls,       \* bound: the calls of one completion
  MaxIterations,  \* max_tool_iterations
  HistoryTurns,   \* history_turns
  AgentSet,       \* the dispositions the model may choose from
  NeedsReference, \* REQUIRES_REFERENCE
  Invented        \* a disposition that is none

ASSUME AgentAssumption ==
  /\ MaxTurns \in Nat
  /\ {MaxCalls, MaxIterations, HistoryTurns} \subseteq Nat \ {0}
  /\ NeedsReference \subseteq AgentSet \ {"unresolved"} /\ "unresolved" \in AgentSet
  /\ None \notin AgentSet \cup {Invented, "caller_abandoned"}
  /\ Invented \notin AgentSet
  /\ {"caller_abandoned", "transfer", "hangup"} \cap (AgentSet \cup {None}) = {}

Disposition == AgentSet \cup {"caller_abandoned"}

\* What a model may call.  "plain" stands for a tool whose result only the model
\* reads, an unknown one included; "search" awaits something outside the process.
Call == [tool : {"plain", "search", "transfer", "end"}, choice : {None}, reference : {FALSE}]
          \cup [tool : {"dispose"}, choice : AgentSet \cup {Invented}, reference : BOOLEAN]

\* A message of the history: who speaks, whether there are words in it, and how
\* many tools it calls.
Message == [role : {"user", "assistant", "tool"}, words : BOOLEAN, calls : 0 .. MaxCalls]
Says(r) == [role |-> r, words |-> TRUE, calls |-> 0]
Result == Says("tool")

VARIABLES
  phase,     \* where the turn in flight is; "listening" without one, "saved" after the call
  history,   \* _history
  iteration, \* of the loop in respond
  toRun,     \* the calls of the last completion that are still to run
  control,   \* what the tools of this turn asked of the call
  invoked,   \* how many calls this turn ran
  state,     \* ToolContext.state: the disposition and whether a reference was given
  record,    \* CallRecord: outcome, disposition, reference and the number of tool_calls
  turns,     \* the turns so far
  ran        \* history: the calls that ran, over the whole call

agentVars == <<phase, history, iteration, toRun, control, invoked, state, record, turns, ran>>

Action == {None, "transfer", "hangup"}
Outcome == {"in_progress", "completed", "transferred", "caller", "other"}

AgentTypeOK ==
  /\ phase \in {"listening", "asking", "tools", "replying", "apologising", "saved"}
  /\ history \in Seq(Message)
  /\ iteration \in 0 .. MaxIterations
  /\ toRun \in Seq(Call)
  /\ control \in [action : Action, disposition : AgentSet \cup {None}, reference : BOOLEAN]
  /\ {invoked, turns, ran} \subseteq Nat
  /\ state \in [disposition : AgentSet \cup {None}, reference : BOOLEAN]
  /\ record \in [outcome : Outcome, disposition : Disposition \cup {None},
                 reference : BOOLEAN, tools : Nat]

NoControl == [action |-> None, disposition |-> None, reference |-> FALSE]

AgentInit ==
  /\ phase = "listening"
  /\ history = <<>>
  /\ iteration = 0
  /\ toRun = <<>>
  /\ control = NoControl
  /\ invoked = 0
  /\ state = [disposition |-> None, reference |-> FALSE]
  /\ record = [outcome |-> "in_progress", disposition |-> None, reference |-> FALSE, tools |-> 0]
  /\ turns = 0
  /\ ran = 0

Over == record.outcome # "in_progress"

-----------------------------------------------------------------------------
\* _window: the first message of the history that a request carries, or one past
\* its end when nothing of it is left.
Limit == 2 * HistoryTurns
Trimmed(m) == m.role = "tool" \/ (m.role = "assistant" /\ ~m.words)

\* Mutant: the last messages are sent wherever they begin.
WindowUntrimmed(h) == IF Len(h) <= Limit THEN 1 ELSE Len(h) - Limit + 1
WindowStart(h) ==
  IF Len(h) <= Limit THEN 1
  ELSE CHOOSE i \in Len(h) - Limit + 1 .. Len(h) + 1 :
         /\ \A j \in Len(h) - Limit + 1 .. i - 1 : Trimmed(h[j])
         /\ i <= Len(h) => ~Trimmed(h[i])

-----------------------------------------------------------------------------
\* respond, up to the first request.
TurnBegins ==
  /\ phase = "listening" /\ ~Over
  /\ turns < MaxTurns
  /\ turns' = turns + 1
  /\ history' = Append(history, Says("user"))
  /\ control' = NoControl
  /\ invoked' = 0
  /\ iteration' = 0
  /\ phase' = "asking"
  /\ UNCHANGED <<toRun, state, record, ran>>

\* The tools' effects and what they asked for, taken over once the turn is done.
Records == [record EXCEPT !.tools = @ + invoked]

\* respond: the model answers.  The words may be none.
Answers ==
  /\ phase = "asking"
  /\ \E words \in BOOLEAN : history' = Append(history, [Says("assistant") EXCEPT !.words = words])
  /\ phase' = "replying"
  /\ record' = Records
  /\ UNCHANGED <<iteration, toRun, control, invoked, state, turns, ran>>

\* respond: the model calls tools, in so many words or without any.
CallsTools ==
  /\ phase = "asking"
  /\ \E n \in 1 .. MaxCalls, words \in BOOLEAN :
       /\ toRun' \in [1 .. n -> Call]
       /\ history' = Append(history, [role |-> "assistant", words |-> words, calls |-> n])
  /\ phase' = "tools"
  /\ UNCHANGED <<iteration, control, invoked, state, record, turns, ran>>

\* Mutant: a complaint without a reference is accepted.
AcceptedBare(c) == c.tool = "dispose" /\ c.choice \in AgentSet
\* set_disposition.
Accepted(c) ==
  /\ c.tool = "dispose"
  /\ c.choice \in AgentSet
  /\ c.choice \in NeedsReference => c.reference

\* ToolRegistry.invoke: what a tool leaves in the context it is run with.
StateAfter(c) ==
  IF Accepted(c)
  THEN [disposition |-> c.choice, reference |-> state.reference \/ c.reference]
  ELSE state

\* transfer_to_human, and end_call, which is refused before a disposition.
ControlAfter(c) ==
  IF c.tool = "transfer" THEN [control EXCEPT !.action = "transfer"]
  ELSE IF c.tool = "end" /\ state.disposition # None
  THEN [action |-> "hangup", disposition |-> state.disposition, reference |-> state.reference]
  ELSE control

\* One call of the completion, with its result in the history.
ToolRuns ==
  /\ phase = "tools" /\ toRun # <<>>
  /\ state' = StateAfter(Head(toRun))
  /\ control' = ControlAfter(Head(toRun))
  /\ invoked' = invoked + 1
  /\ ran' = ran + 1
  /\ toRun' = Tail(toRun)
  /\ history' = Append(history, Result)
  /\ UNCHANGED <<phase, iteration, record, turns>>

\* The loop comes round with requests left.
AsksAgain ==
  /\ phase = "tools" /\ toRun = <<>>
  /\ iteration + 1 < MaxIterations
  /\ iteration' = iteration + 1
  /\ phase' = "asking"
  /\ UNCHANGED <<history, toRun, control, invoked, state, record, turns, ran>>

\* The loop is exhausted: an excuse, and a transfer unless the tools asked for
\* something of their own.
GivesUp ==
  /\ phase = "tools" /\ toRun = <<>>
  /\ iteration + 1 = MaxIterations
  /\ iteration' = MaxIterations
  /\ history' = Append(history, Says("assistant"))
  /\ control' = IF control.action = None THEN [control EXCEPT !.action = "transfer"] ELSE control
  /\ record' = Records
  /\ phase' = "replying"
  /\ UNCHANGED <<toRun, invoked, state, turns, ran>>

\* Where a turn in respond waits, so that a refusal, the turn's time budget or the
\* end of the call may reach it: for the model, or for a tool that does.
Waits == phase = "asking" \/ (phase = "tools" /\ toRun # <<>> /\ Head(toRun).tool = "search")

\* Mutant: what the turn did before it failed is not taken over.
FailsForgetful ==
  /\ Waits
  /\ toRun' = <<>>
  /\ history' = Append(history, Says("assistant"))
  /\ phase' = "apologising"
  /\ UNCHANGED <<iteration, control, invoked, state, record, turns, ran>>
\* _apologise: what the turn did so far is taken over, and a fixed line stands in
\* for the reply.
Fails ==
  /\ Waits
  /\ toRun' = <<>>
  /\ record' = Records
  /\ history' = Append(history, Says("assistant"))
  /\ phase' = "apologising"
  /\ UNCHANGED <<iteration, control, invoked, state, turns, ran>>

-----------------------------------------------------------------------------
\* hangup: the first outcome stays.
HungUp(r, outcome) == IF r.outcome = "in_progress" THEN [r EXCEPT !.outcome = outcome] ELSE r

\* _transfer and _end_as_requested, once the line has been spoken.
CarriesOut ==
  CASE control.action = "transfer" -> [record EXCEPT !.outcome = "transferred"]
    [] control.action = "hangup" ->
         HungUp([record EXCEPT !.disposition = control.disposition,
                               !.reference = control.reference], "completed")
    [] OTHER -> record

\* The reply, or the line in its place, is over, and with it the turn; a
\* cancellation that came while it was spoken was swallowed.
Acts ==
  /\ phase \in {"replying", "apologising"}
  /\ record' = CarriesOut
  /\ phase' = "listening"
  /\ UNCHANGED <<history, iteration, toRun, control, invoked, state, turns, ran>>

\* The caller, an operator or the watchdog ends the call.
HangsUp ==
  /\ phase # "saved" /\ ~Over
  /\ \E outcome \in {"caller", "other"} : record' = HungUp(record, outcome)
  /\ UNCHANGED <<phase, history, iteration, toRun, control, invoked, state, turns, ran>>

\* PLATFORM_FOR_OUTCOME.
Platform(outcome) == IF outcome = "caller" THEN "caller_abandoned" ELSE "unresolved"

\* _finish: a turn in flight is cancelled wherever it waits, and the record saved.
Finish ==
  /\ Over
  /\ phase \in {"listening", "replying", "apologising"} \/ Waits
  /\ phase' = "saved"
  /\ toRun' = <<>>
  /\ record' = IF record.disposition = None
               THEN [record EXCEPT !.disposition = Platform(record.outcome)] ELSE record
  /\ UNCHANGED <<history, iteration, control, invoked, state, turns, ran>>

TurnStep ==
  TurnBegins \/ Answers \/ CallsTools \/ ToolRuns \/ AsksAgain \/ GivesUp \/ Fails \/ Acts
AgentNext == TurnStep \/ HangsUp \/ Finish

AgentSpec == AgentInit /\ [][AgentNext]_agentVars

-----------------------------------------------------------------------------
\* The call whose result a message of the history is.
CalledAt(h, i, j) ==
  /\ j < i
  /\ h[j].role = "assistant" /\ h[j].calls >= i - j
  /\ \A k \in j + 1 .. i : h[k].role = "tool"

\* However the history is trimmed, no request carries the result of a tool without
\* the message that called it, "a hard 400 from most inference servers" (_window);
\* and where the window is as long as a turn can get, the request carries the
\* question it is to answer.
LongestTurn == 1 + (MaxIterations - 1) * (1 + MaxCalls)
RequestWhole ==
  phase = "asking" =>
    /\ \A i \in WindowStart(history) .. Len(history) :
         history[i].role = "tool" => \E j \in WindowStart(history) .. i : CalledAt(history, i, j)
    /\ LongestTurn <= Limit =>
         \E i \in WindowStart(history) .. Len(history) :
           /\ history[i].role = "user"
           /\ \A j \in i + 1 .. Len(history) : history[j].role # "user"

\* A call never goes back to listening with something undone: what the tools of
\* its turns did is in the record, each call once, and what they asked of the call,
\* a transfer or its end, has been carried out, whether the turn succeeded, ran out
\* of time or of requests, or was refused by the model (_apologise, unfinished).
TurnSettled ==
  phase = "listening" =>
    /\ record.tools = ran
    /\ control.action # None => Over

\* A complaint or a callback is filed with a reference the caller can quote, and
\* what is filed is never a word the model made up (set_disposition, outcome.py):
\* whatever order outcomes are recorded, changed and ended in.
FiledProperly ==
  record.disposition # None =>
    /\ record.disposition \in Disposition
    /\ record.disposition \in NeedsReference => record.reference
=============================================================================
