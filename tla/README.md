# Vaani in TLA+

Vaani is a voice-agent platform: callers reach a language-model agent over a
browser websocket, the Smartflo telephony websocket or Asterisk's AudioSocket,
speak to it, and are answered. This directory holds TLA+ models of the part of
it that is stateful and concurrent, TLC configurations that check them on small
instances, and theorems about them that TLAPS proves for every size.

All of it is one Python process on one asyncio event loop. There are no data
races in the sense of threads; what is hard is what may happen at an `await`:
another task runs, a cancellation arrives, a service fails, a peer is gone, a
clock has advanced, the process is killed.

Check one model with `tlc -config session.cfg MCCallSession.tla`, one proof module
with `tlapm CallSessionProofs.tla`. `PROJECT.json` says which definition models
which lines of the source.

## 1. Inventory

State, operations, difficulty and correctness of each part of the system, and
the module that has it.

| Part (source) | State | Operations | What is hard | What makes it correct | Module |
|---|---|---|---|---|---|
| **Call session** (`pipeline/session.py`) | the call's state, its record, inbox, turn, playback, hold tone, idle clock | `run`, `push_audio`, `hangup`, `_consume`, `_process_turn`, `_speak`, `_cancel_playback`, `_watchdog`, `_finish` | up to eight tasks of one call cancel and await each other; a cancellation may hit a task before its first step, at an await that suppresses it, or at one that does not | one voice at a time; no dead state; every call ends and is saved whole, with what was said | `CallSession`, `CallPromise`, `OrdinaryCall` |
| **Detectors** (`audio/vad.py`) | counts of voiced and silent frames | `push`, `reset` | thresholds, an onset that fades, a forced end, resets by the session | utterances are whole; interruptions are meant | `Hearing` |
| **Language** (`pipeline/language.py`) | current, locked and provisional language, two streaks, the drifts | `lock`, `observe`, `observe_drift`, the choice and the request | every turn updates it; one misheard word must not move it | moves only when asked or outvoted; has a voice | `Language` |
| **Agent runtime, tools** (`agent/`) | message history, the actions asked of the call | bounded tool loop, window, `summarise` | a failure or the end of the call in the middle of a tool round | no request with half of an exchange; nothing done is forgotten | `Agent` |
| **Outcome engine** (`agent/outcome.py`, `pipeline/progress.py`) | disposition, reference, stall counters | `set_disposition`, the platform's choice | filed by the agent, again, or by the platform | a disposition that exists, with its reference | `Agent` |
| **Call persistence** (`db/repository.py`) | queue of turn rows, the writer's batch, the database, recordings | `create_call`, `append_turn`, `finish_call`, `flush`, the writer, `purge_older_than`, `close` | the queue is shared by all calls and bounded, batches fail, calls are cut short, the process crashes | a completed call has its turns; no hole in a stored conversation; nobody waits for ever | `CallStore` |
| **Call manager** (`pipeline/manager.py`) | live calls, history, total | `at_capacity`, `register`, `unregister`, `hangup`, `drain` | three routes admit and release, sessions outlive callers, `drain` races all of it | the cap holds; a live call is on the list; lines are freed; the drain returns | `Calls` |
| **Transports** (`api/ws_voice.py`, `api/smartflo.py`, `telephony/audiosocket.py`) | a reader, a connection, a session task each | accept, refuse, serve, hang up, wait ten seconds, release | reader and session end in either order; `hangup()` blocks on a full inbox | as above; the line is released once, after the session | `Calls` |
| **Smartflo transport** (`telephony/smartflo.py`) | a lock, a sequence number, a remainder | `send_audio`, `send_event`, `close` | four writers share a slow socket and are cancelled while they hold the lock or wait for it | frames in sequence; a clear cuts cleanly; a mark follows its audio | `Line` |
| **Process lifespan** (`main.py`) | background tasks | start, retention sweep, healer, shutdown | order of the shutdown; sweeps beside live calls | drain before close, and both end | in `Calls`, `CallStore`, `Knowledge`, `Corpus` |
| **Knowledge documents** (`db/knowledge.py`) | one row per document: text, hash or tombstone; a lock | `save`, `adopt`, `delete`, `get`, `versions` | changes by operators beside a long reconciliation | a tombstone is for good | `Knowledge`, `KnowledgePromise` |
| **Retriever** (`rag/retriever.py`) | `_ready`; the index it keeps equal to the database | `index_text`, `delete_source`, `start`, `_rebuild`, `backfill`, `sync`, `_index` | every step awaits a store that may be gone, come back empty, or fail half way; the move to another embedder under live calls | withdrawn text is out; versions never mix; the index follows the database; nothing is stranded | `Knowledge`, `KnowledgePromise`, `Corpus` |
| **Vector store** (`rag/store.py`) | collections of chunks, by width | `ensure`, `upsert`, `delete_source`, `inventory`, `export`, `switch_width` | a remote service; collections of two widths | a retriever finds its own width | `Knowledge`, `Corpus` |
| **Chunking** (`rag/chunking.py`) | none | `chunk_text` | where the packing cuts, what it repeats and drops | a fact is whole in some passage | `Chunking` |
| **Services, settings** (`core/registry.py`, `settings_store.py`, `api/settings.py`) | overrides in memory and on disk, settings, providers | save, reset, `reload` | a save awaits the start and the close of each provider, beside other saves, calls and crashes | what is handed out serves; what is saved takes effect; calls keep their model | `Services` |
| **Accounts** (`db/accounts.py`, `api/accounts.py`, `api/auth.py`, `security/`) | accounts, sessions | sign in, create, patch | a check and the act it allows are two awaits | somebody can always administer | `Accounts`, `Console` |
| **Numbers, organisations, agents** (`db/tenancy.py`, `db/profiles.py`, `api/routes.py`, `telephony/routing.py`) | the tenancy in the database, the agents in both database and memory | assign, release, suspend, save and remove an agent, route a call | the copy in memory is applied after the database, with an await in between | a number is answered by its own organisation's agent; a restart changes none | `Numbers`, `Console` |
| Live monitor (`pipeline/monitor.py`) | listeners with bounded queues | `subscribe`, `publish` | slow listeners | a call is never slowed down | none |
| Announcements (`telephony/announce.py`) | what the dialplan tells of a call, under its UUID | `announce`, `claim`, `_purge` | expiry | claimed once | none |
| Body size limit (`api/limits.py`) | none | `enforce_body_limit` | none | no unbounded body is read | none |
| Providers (`providers/`) | clients of remote services | requests, retries | timeouts, partial streams | results or failures | inputs of `CallSession`, `Agent`, `Services`, `Corpus` |
| Analytics, migrations, CLI, web pages | none of interest here | queries, formatting | none | as unit tests say | none |

How they interact: a **transport** asks the **manager** for a line, creates a
**session** and a task for `run()`, pushes frames into its inbox, and calls
`hangup()` when the peer is gone. The **session** feeds the frames to the
**detectors**, awaits recogniser, **agent** and synthesis, lets **language** decide
in which language, sends events and audio back through the transport, and writes
to **persistence** without waiting, save once at the end. The **manager** calls
`hangup()` for an operator and at shutdown. The agent asks the **retriever**;
operators change **knowledge** by the API while the **lifespan**'s healer
reconciles it, and **settings**, whose reload exchanges the providers and the
retriever under the live calls; **numbers** say which agent a call gets.

## 2. Plan

Order, most important behaviour first. Everything in the list is in this directory.

1. `CallSession`, with `CallPromise`, the abstract call, which it implements, and
   `OrdinaryCall`, which extends it by what it keeps until something strains the call.
2. `CallStore`.
3. `Calls`: the manager, the three routes and the shutdown, over an
   abstraction of the session (see "From CallSession to Calls").
4. `Knowledge`: documents, index and reconciliation, with `KnowledgePromise`, what
   they promise operators and agents, which it implements.
5. `Hearing` and `Language`, composed in `Listening`.
6. `Agent`: the tool loop, the history it leaves behind, and what is filed.
7. `Line`: what the tasks of a call put on the Smartflo socket.
8. `Chunking` and `Corpus`, which extends it: passages, and the move of the index
   to another embedder.
9. `Services`: the settings and their reload under live calls.
10. `Accounts`, `Numbers` (which extends it), and `Console`, their composition.

What a next step would be: the abstraction of `Knowledge`'s passes that
`Corpus` uses, stated as a refinement; what of `CallAlways` survives silent
answers, which leave three of its four properties intact as far as TLC can see
(section 4); a second speaker on a `Line`; announcements, should they ever await
anything.

No module uses a RECURSIVE operator. The recursions are the function `packed` in
`Chunking`, which goes over the units of a text, and the community modules'
`FlattenSeq`. What they compute for every text is proved all the same (section 6).

## 3. The modules and the code

### `CallSession` (and `MCCallSession`)

One call, every task of it. The event loop is modelled as it is: `ready` is
asyncio's FIFO of runnable tasks, only its head runs, and a task runs without
interruption from one *suspending* await to the next. `pc[p]` names the segment
`p` runs next. An await that does not suspend (an `asyncio.Queue.get` on a queue
with something in it, an `Event.wait` on an event that is set, a send without
back-pressure) is passed by `Continue`; one that does, by `Suspend`. This matters:
most of the code's safety comes from what cannot happen in between, and most of
its hazards from what can.

| State | Code |
|---|---|
| `state`, `outcome`, `disposition`, `saved` | `CallSession.state`; `CallRecord.outcome`, `.disposition`; what `finish_call` was given |
| `pc["run"]`, `["consumer"]`, `["watchdog"]`, `[t]` | `run()` and `_finish()`; `_consume()`; `_watchdog()`; `_process_turn()` of turn `t` |
| `pc["reader"]`, `["operator"]` | the transport's and the supervisor's task inside `hangup()` |
| `then`, `action` | where the caller of `_speak` or `hangup` goes on; what the agent's tools asked of the call |
| `joining`, `cancelled` | the task a task awaits; the tasks with a pending CancelledError |
| `play`, `finished`, `speaking` | playback tasks, their `finished` events, `_speaking_task` |
| `hold`, `holdTask` | hold-tone tasks, `_hold` |
| `utterance`, `idle`, `prompted`, `turnTask`, `inbox`, `over` | the turn detector; `_last_caller_audio` against the two thresholds; `_idle_prompted`; `_turn_task`; `_inbox`; `_done` |

Cancellation follows asyncio: `task.cancel()` reaches through an `await` of
another task (`Reached`); a task that has not started never runs its body, its
`finally` included (`"stillborn"`); awaits under `suppress(CancelledError)` are in
`Suppressing`; elsewhere `Raise` is what the exception does.

Abstracted: frames are all alike, and the detectors are `idle`, `onset`,
`speech`; the recogniser, the model and synthesis answer, fail, or ask for a
transfer or a hangup; words are left out. The three paths of a turn that speak a
fixed line (recogniser's apology, the language question, its confirmation) share
`TurnFixedLine` and `TurnLine`; stopping a tone that is stopped already is the
one thing this adds to some of them, and it changes nothing. Consecutive sends
without a state change between are one send. In `_finish` the wait of at most a
second for pending state events, the recording (`CallStore` has it) and the send
of the last event are folded into their neighbours. The `except Exception` of
`run()` (`session.py:343-345`) is left out because nothing in its `try` raises: the
transports' `send_event` catch what the socket raises (`api/ws_voice.py:52-59`,
`telephony/smartflo.py:60-66`) or only log, a playback catches what synthesis raises,
stopping a tone suppresses what it raises, and the tasks are awaited with
`asyncio.wait`, which does not raise what they do. The `finally` it would lead to is
the one modelled.

### `OrdinaryCall` (and `MCOrdinaryCall`)

`CallSession` with one history variable more. `strained` is set by the step in which
a send is held up by back-pressure (`HeldUp`), a caller's onset and the rest of his
utterance come in one backlog (`Backlogged`), or an answer has no words (`Wordless`).
Nothing is forbidden by it: these steps are taken, in every combination, and
`OneVoice`, `Attended`, `QuietAfterFinish` and `AnswersRecorded` say of each call
what it keeps until the first of them. Section 4 has what follows after it.

### `CallPromise`

What those who await `run()` may rely on: it runs, finishes, and is over; its
record is kept by the very step that ends it, unless it was cut short, which only
a finish that outlasts the transport's ten seconds may do. `CallSession` defines
the refinement (`Phase`, `Promise`, `KeepsPromise`).

### `Hearing`, `Language`, `Listening` (and `MCListening`)

`Hearing` is what `_handle_frame` makes of each 20 ms frame in each state of the
call: `Push` is `TurnDetector.push`, `Run` and `Sustained` are
`BargeInDetector.push`, `LineOver` the reset that follows a line. The frame is the
unit of time, which is what the detectors count. A frame is two judgements,
voiced and voiced by the stricter detector, which are inputs.

`Language` is the tracker (`Lock`, `Observe`, `ObserveDrift`) and the parts of a turn
that move it (`Settle`, `AskAgain`, `Follow`, `SwitchAsAsked`, `Drift`). A transcript is
what these decisions read of it: the languages named, whether a verb of speaking
stands beside, what else was said, the language heard, whether it is clear enough
to count.

`Listening` composes them: an utterance that ended becomes a turn, the turn a
transcript, a choice or a question, and then a line. While a turn thinks frames
are dropped and the watchdog passes by, so that it runs alone here; what it may
overlap with in a call's other tasks is `CallSession`'s.

History variables: `gap` and `broken` say whether the frames in the detector are
neighbours, `loud` counts voiced frames over what the caller hears, `said` holds
the languages of the last turns that count, `drifted` the moves nobody asked for.

### `Agent` (and `MCAgent`)

`respond()` and its caller: `TurnBegins`, `CallsTools`, `ToolRuns` for each call,
`AsksAgain`, `GivesUp` at the last iteration, `Answers`; `Fails` is the refusal of
the model or the turn's time budget at any await (`Waits`), followed by
`_apologise`; `HangsUp` and `Finish` are the end of the call at any point.
`WindowStart` is `_window`. A tool is what it does to the call: `plain` (only the
model reads its result), `search` (the same, but it awaits), `transfer`, `end`,
`dispose` with a choice and perhaps a reference. Messages keep their role, whether
they have words and how many calls they make.

### `CallStore` (and `MCCallStore`)

All calls of a process as the repository sees them. `AppendTurns` is the two
`append_turn` calls of one exchange, between which nothing can run; `FinishCall`
is the recording and `flush()`; `CompleteRow` the update; `WriterTakes`,
`WriterCommits`, `WriterFails` the loop of `_drain()`; `BatchDone` the
`task_done()` calls and whom they wake; `Purge` is `purge_older_than`; `Close`
and `WriterStops` are `close()`, where the disposal of the engine and the end of
the process are one step; `Crash` and `Restart` are what they say. A database
transaction is one step that commits or does not. `Enforced` says whether the
database enforces foreign keys (PostgreSQL does, SQLite as configured does not).
A call past retention has no row left to write: the window is at least a day.

### `Calls` (and `MCCalls`)

Three lines, one per route. Of a session only what a route can tell remains:
`session`, `ended`, and whether it is stuck in a send (`wedged`) with its inbox
full (`full`), for that is when `hangup()`, which puts a sentinel, blocks
(`hanging`). `register` and `unregister` await nothing while they hold their
`asyncio.Lock`, so that it is never contended and each is one step. The routes
differ where the code does: `/ws/call` awaits a send between `register` and the
session's task; `/ws/smartflo` bounds its `hangup()` by five seconds; Asterisk's
handler runs its `finally` after a refusal too and does not look whether the
session is over. `StopAnswering`, `DrainStarts`, `DrainGivesUp`, `DrainHangsUp`,
`DrainEnds` are the shutdown of `main.py` and `drain()`. uvicorn, which is external,
closes websockets before the lifespan ends.

`StopWaits`: from Python 3.12 on, `Server.wait_closed()` waits for open
connections. `pyproject.toml` allows 3.11, the image runs 3.12. The run sets it
FALSE, which lets the drain start with open connections or without, and so has
the behaviours of both; what it does not show is that on 3.12 the drain starts
at all while Asterisk callers stay on the line.

Left out: the keypad, and the browser's hangup message (a reader blocked by its
own hangup, which is the case of `RouteHangsUp` with another cause).

#### From CallSession to Calls

`Calls` is not composed with `CallSession` step by step: the product of two
calls' loops is out of TLC's reach. What it assumes of a session is what
`CallSession` is checked for: a session that has ended reaches its finally
(`CallerLeaves`), is over once (`KeepsPromise`), and may fail or be cut short.
What it adds is what `CallSession` leaves out by its bound on the inbox: the full
inbox.

### `Line` (and `MCLine`)

One Smartflo socket and its four writers: the playback, the hold tone, the task
that speaks and the consumer. `owner` and `queue` are the transport's
`asyncio.Lock`, which is FIFO; `Works` is what a writer does from the moment it
has the lock to the first send, `Sent` from the end of one send to the next.
Audio is counted in units, `Frame` of which are a media frame; `pending` is the
remainder that waits for the next call. A writer may be cancelled with the lock,
in the queue for it, or elsewhere (`Cancelled`); a frame whose send was cancelled
is out or not (`MayBeOut`). `taken` is all that the
socket took, in order. The session is reduced to who speaks when, which is
what `CallSession` is checked for: a single voice, a tone that is stopped and
awaited before a line, a clear after an awaited playback, a mark at a line's end.
Before it, `Start` to `Routed` are the wait for the carrier's start frame in
`api/smartflo.py`. The session is more regular here than in the code in one
respect: a line or a tone starts only when the mark of the line before is through,
while in the code whoever spoke last may still be in the send of his mark or of the
event that announces a line. Whoever speaks next then waits for the lock in the same
FIFO queue, behind that mark: `Line`'s four properties hold with this relaxed for the
tone as well (1.97 million states), and a second one who speaks at that moment would
be a second `talker` of the model.

### `Knowledge` (and `MCKnowledge`)

`row` is the database, `index` the store, `lock` the repository's lock. A request
(upload, delete, rename, which is an upload and then a delete under another
acquisition of the lock) and a reconciliation (`start` when not `ready`, with
`ensure` and `backfill`; then `sync`) share `_index`: `Clear`, then one `Write`
per batch of 64 chunks. `Fails` is an exception of the store; it ends the request
or the pass and releases the lock. `made` tells a store that has its collection
from a fresh one; `GoesDown`, `ComesBack`, `IsLost` and `Crash` are the troubles.
The store is external: it does what is asked at once, or fails. A chunk is its
text's identity and its batch. `versions()` and `inventory()` are read when the
code reads them and used later, without the lock. `torn` is history: the documents
whose indexing was broken off between two batches, by a failure, a crash or the loss
of the index. Such a document has the right hash and lacks some of its passages.

### `KnowledgePromise`

What operators and agents may rely on, with no lock, batches, passes or requests
in it: a document's row, and the texts by which it can be found. A row changes
when an operator's text is saved (`Save`), when a document nobody knows is
taken over from the index (`Adopt`), and when one that can no longer be found
is deleted (`Forget`); a document is hidden, or shown by the one text that the
database has at that step (`Hide`, `Show`); the index may be lost (`Lose`).
`Knowledge` defines the refinement (`Promise`, `DocumentsAsPromised`): `shown` is the
set of texts among the chunks of a document. Every request and every pass may be
anywhere in between, which is what makes it more than its actions say: the step
that shows a text was decided upon many steps before.

### `Chunking` and `Corpus` (and `MCCorpus`)

`Chunking` is `chunk_text` as a function. A text is paragraphs of sentences, and a
sentence its size, whether it has letters and whether it is terminated: nothing
else decides where the packing cuts. `Packed` is the packing loop, which the code
has twice: of a paragraph's sentences, without overlap, and of the units this
leaves. `Pack` is its step and `Restart` what begins the next run: the unit, after
the tail of the run before if they overlap. `Substantive` is what drops page
furniture. In `Corpus` each uploaded text is one of these.

`Corpus` is the index while settings move it to an embedder of another width. Two
retrievers exist then: the one in force and the one that is built. `Ensure`,
`Adopts`, `Switches`, `Backfills`, `Surveys` and `Repairs` are `start()` with `_rebuild()`
and `sync()`; `Reload` and `Swaps` the registry's part; `Saves`/`Indexes` and
`Unindexes`/`Forgets` the two halves of an upload and a delete, each with the
retriever it was asked of. Collections are known by their width. Passes are
coarser than in `Knowledge`, which has their inside: what a pass does to one
document is one step, or is broken off in the three places where that shows
(`BrokenOff`): before it, when the document is cleared, and between two batches of a
text that has more than one (`Long`, `torn`). `EnsureUnread` is `ensure()` when the
width of the collection cannot be read: the retriever takes it as it is (`blind`, a
history), the store then refuses what it embeds (`Refused`), and the start or the pass
ends (`Ends`) with the document cleared. `Reload` writes the settings before anything
is built, so that a crash boots with them; a build that fails resets them. `raced`
marks the documents changed while a retriever was exchanged, until a survey has seen
them.

### `Services` (and `MCServices`)

`Put` is PUT /settings with `SettingsStore.update` (the merge, the masks of secrets,
the write of the file) up to the first await of `Services.reload`; `PutUnwritten` is
a file that cannot be written, `Reset` the other route. From then on a request is
at the start of a provider or at the close of the one it replaced: `Started`,
`StartFails`, `Closed`, and `Proceed`, which looks for the next group that changed,
by the settings as they were when the reload began, and at the end turns the cheap
knobs and sets `settings`. `Watches` are the keys `reload` compares for a group and
`Uses` those its builder reads: they differ. `Answer` is a call that takes the model
in force and keeps it. `Crash` boots from the file.

History: `trouble` (a save failed or met another since the boot), `exposed` (a
call over which a forced save, a reset or a save let through before it passed).

### `Accounts`, `Numbers`, `Console` (and `MCConsole`)

A request (`request[j]`, for a job `j`) passes the guard with the account as it was
loaded and then runs from await to await: `ReadUser`, `SetRole`, `CheckLast`, `SetActive` for a
patch of a user; `CheckNumber` then `MapNumber`; `CheckAgent`, `SaveAgent`, `ApplyAgent`;
`CheckRemoval`, `RemoveAgent`, `ForgetAgent`. Between two of them any other job may
run. `stored` is the database's agents and `profile` the copy in memory by which
numbers are checked and calls answered; a boot makes one of the other (`Loaded`,
in `Restart`). `Moves` is how that copy changes. A call is two steps, `Resolve` and
`Answer`. `Console` composes them.

History: `loose` (a role of platform administrator was given or taken, or two
suspensions crossed), `moved` (agents that left the copy in memory or have another owner in it, at a
boot as well: the service may stop between the row of an agent it deletes and the
copy), `crossed` (agents of which two changes ran at once).

## 4. The runs

| Run | Shows | Bounds |
|---|---|---|
| `session` | `OneVoice`, `Attended`, `QuietAfterFinish`, `AnswersRecorded`, `SavedComplete`: until the call is strained voices never overlap, no hold tone sounds under speech, THINKING and SPEAKING always have somebody who will leave them, nothing of a turn outlives the call, and every answer is in the saved record, which is always complete | two turns, any of the tasks' sends held up, two frames pending (a backlog), silent answers; a caller who leaves at any time; a finish that may outlast the transport's patience; the idle prompt a tick before the hangup (1, 2). The properties are about calls until they are strained, and `Unstrained` cuts the search off there; no liveness, so turns are symmetric |
| `session_live` | `CallerLeaves`, `KeepsPromise`: a call whose caller left ends; `run()` implements `CallPromise` | one turn, silent answers, a finish that outlasts the transport's patience, a watchdog held up by back-pressure between turns (`SlowApart`), the hangup before the prompt (2, 1) so that the closing line is spoken |
| `listening` | `WholeUtterances`, `BargeInSustained`, `VoiceSpeaks`, `DriftsBounded`, `Outvoted` | thresholds of two frames, utterances of four, one frame kept from before; four languages, of which one has no voice and one no confirmation; switches, drifts and their budget of two |
| `agent` | `RequestWhole`, `TurnSettled`, `FiledProperly` | two turns of two requests of two calls over a window of four messages; three dispositions, an invented one, one that needs a reference |
| `store` | `StoredWhole` (`CompleteHasTurns` and `StoredInOrder`), `FlushEnds`, `CompleteIsFinal`: completed calls have their turns; no holes; nobody waits for ever; what is read of a completed call is all there will be | two calls of up to two exchanges over a queue of three and batches of two: full queue, half an exchange dropped, batches that mix calls; every fault |
| `calls` | `CapacityKept`, `LiveIsServed`, `LinesFree`, `DrainReturns` | one line per route, two lines at most, history of one |
| `line` | `SequenceKept`, `AudioInOrder`, `ClearCutsClean`, `MarkClosesLine` | three lines, two frames each, chunks of one and three units over frames of two: remainders, whole frames, several frames to a call |
| `knowledge` | `IndexHonest` (`OneVersion`, `WithdrawnIsOut` and `HeldWhole`), `IndexFollows` (every batch of every live document, those in `torn` excepted), `DocumentsAsPromised` (`Knowledge` implements `KnowledgePromise`) | two operators and the healer, two documents of two batches, one of them legacy; one trouble |
| `corpus` | `CollectionsSound` (`ServesItsWidth` and `NothingStranded`), `WithdrawnIsOut`, `PassagesTell`, `CorpusFollows`, `OldIsLeft` | two documents, one legacy; two widths, two exchanges (there and back), two changes, one trouble (an outage, a crash or an unreadable width); a text of two passages, each a batch. With a second text, of no passage, the run takes a little over five minutes and passes as well (1.66 million states). `PassagesTell` is of what is uploaded, and of what might be (`Probes`): all texts of two paragraphs of two sentences of the sizes that the thresholds tell apart |
| `services` | `ProvidersKept`, `SavesTakeEffect`, `CallsUndisturbed` | a key that all but one group watch, one of the knowledge group alone, a knob; two values; two requests, one call; each fault once |
| `console` | `AnAdminRemains`, `OwnAgentAnswers`, `AgentsAsSaved` | two users, two organisations, two jobs, two agents, one number, one call, one mishap; `Bound`: both requests of accounts, or both of tenancy |

Why the bounds are enough: an interleaving hazard here needs two actors and a
third that cancels or outruns them, which every run has; queues have fewer places
than there are producers; thresholds are the smallest at which below, at and
above differ; a document has a batch before and one after the failure. What
larger instances could add to the safety properties that are proved, the proofs
cover.

Deadlock is checked in `listening` alone, whose call goes on for ever. In the
others callers stop calling, requests are spent, the process is shut down: a
model at rest is no error. That nothing waits for ever is what the liveness
properties say instead.

One run ends in a violation, where code and text disagree:

| Run | Text | Code |
|---|---|---|
| `corpus_superseded` | `_index`: "A source name is the document, so indexing it again means it was corrected" (`retriever.py:266`) | it clears the sources that occur among the new chunks (`retriever.py:273`), and a text too short to have any (`chunking.py:99`) leaves the superseded passages searchable for good: the healer, which uses the same function, cannot help. `SupersededGoes` is a liveness property under the fairness below |

### Disagreements met

The models have the behaviour of the following too. Six of the texts are stated as
definitions in their modules: `tlc` finds each violated when a run's
configuration is changed as the table says. No run is kept for them.

| Definition | Text | What the code does | Configuration |
|---|---|---|---|
| `NeverVoiceless` (`Language`) | "Restricted to languages we can both speak and confirm in. Without this a detected language with no voice gets locked in" (`session.py:702-704`) | of a profile none of whose voices has a confirmation, `allowed` is empty, goes on as `None` and restricts nothing (`session.py:705-709`, `:727`, `:734`) | `listening`, with `Confirmed = {fr}` |
| `SearchableOnceBack` (`Knowledge`) | "It will become searchable automatically once the index is back" (`routes.py:416-419`) | a document of which one batch was indexed has the right hash and is taken for whole (`retriever.py:154`) | `knowledge`, with one document and one request, as `PROPERTY` |
| `FillsItselfIn` (`Knowledge`) | "an index that was lost ... fills itself back in" (`retriever.py:135-137`) | the healer calls `ensure()` only of a retriever that is not ready (`main.py:164-168`): on a store without the collection every pass fails | the same |
| `OldIsNeverTouched` (`Corpus`) | `_rebuild`: "The old collection is left exactly as it was: the retriever being replaced may still be serving calls from it" (`retriever.py:215-217`) | when the width of the collection cannot be read (`store.py:249-254`), `ensure()` accepts any (`store.py:174-175`): there is no `_rebuild`, and the retriever that is built clears documents in the collection in force | `corpus`, as `PROPERTY` |
| `ToneWhileThinking` (`CallSession`) | "Play a quiet tone under the thinking pause until real audio is ready" (`session.py:628`) | only `_speak` stops it, and an answer without text is not spoken (`session.py:533`): the tone goes on while the agent listens | `session_live`, with `Spec`, as `INVARIANT` |
| `CancellationUnblocks` (`CallSession`) | `_speak`: "cancellation unblocks us instead of propagating" (`session.py:817-819`) | a playback cancelled before its first step never runs the `finally` that sets `finished` (`session.py:882-892`): its speaker waits until `_finish` cancels it, and `run()` itself when it is the greeting's | `session_live`, with `Spec` and `Hanger = {"operator"}`, as `INVARIANT` |

And others, of which no definition was made:

| Text | What the code does |
|---|---|
| "a failure here must never affect the call" (`runtime.py:230-231`, of the summary) | a summary that outlasts the transport's ten seconds (`ws_voice.py:110`) is cancelled with `_finish`, before anything is saved (`session.py:982`) |
| "Guards against the two ways a call hangs forever" (`session.py:936-939`) | the idle prompt is a line, and a line resets the flag and the clock (`session.py:900`): with the defaults a silent caller is prompted until the maximum duration |
| "a row deleted without its recording is not actually deleted" (`repository.py:192-193`) | no record ever carries its recording's path (`repository.py:116`), so that no file is deleted |
| "Record the assistant's tool-call message before the results, or the next request is malformed" (`runtime.py:167-168`) | a turn cancelled inside a tool (`runtime.py:186`) leaves a call without its result in the history, and the next request has it |
| "A number must be answered by its own organisation's agent" (`routes.py:337-338`) | an agent given another home afterwards (`routes.py:189-190`) still answers it |
| "There would be no way back in without shell access to the box" (`api/accounts.py:194-196`) | the check and the act are two awaits: two suspensions that cross leave no administrator, and the demotion of the last one is not checked at all |
| "Their effects happened (...), so they belong in the record whatever became of the reply" (`session.py:603-604`) | of a turn cut off by the end of the call (`session.py:967`) the record lacks the calls its tools had finished |
| "mid-THINKING audio is buffered by the queue" (`session.py:407`) | it has been taken from the queue and is dropped: what a caller adds while the agent thinks is lost |
| "something short in its entirety is always kept" (`chunking.py:95-96`) | below twelve characters it is not (`chunking.py:99`) |
| "never mid-word" (`chunking.py:43`) | the overlap is a slice of characters (`chunking.py:76`) |

Of another kind: a document deleted through the retriever that is just replaced
is answered from the new index until the healer's next pass, at most five minutes
later (`raced`); two saves of one agent at once may leave memory and database
different until the next start (`crossed`); the search asks for
three times the passages it returns and diversifies them afterwards, so that one
large document may still crowd out the rest.

Three things strain a call. Until the first of them `OneVoice`, `Attended`,
`QuietAfterFinish` and `AnswersRecorded` hold, which `session` checks and section 6
proves; of a call after it they claim nothing, and TLC finds them violated when
the condition `~strained` is taken out of them. Each line names the ones it found,
in calls of two turns:

- *A backlog* (`"backlog"`, two frames pending): the frame that fires a barge-in and
  the frame that ends the utterance may be taken before the speaker, whose line has
  just ended, has run again. The turn is open when the greeting, or the turn before
  it, sets LISTENING over its THINKING (`session.py:336`, `:581`): the watchdog then prompts over
  the answer, or a second turn supersedes one that absorbs its cancellation in
  `_stop_hold` and lives on beside it. `OneVoice`, `QuietAfterFinish` and
  `AnswersRecorded` are violated; `Attended` holds with one turn, and with two TLC did
  not come to an end.
- *Back-pressure* (`SlowSender`): any send that suspends gives another task the same
  opportunity, and a turn or a watchdog held up between its lines leaves a state with
  nobody to leave it. All four are violated, depending on whose sends are held up.
- *An answer without words* (`"silent answer"`): nothing stops the hold tone, which
  goes on under the next line: `OneVoice` is violated (`ToneWhileThinking` is
  the beginning of it). The other three hold.

A turn superseded while it is live is therefore an event of strained calls; the
models have it, and of such calls the theorems below that assume nothing of the
kind (`TypeCorrect`, `SavedRecordsComplete`, `PromiseIsKept`) and the run
`session_live` speak. `OneVoice` speaks of the call until it is over: after
that the watchdog may begin another line before `_finish` cancels it, and a model
with one playback per speaker would forget the first.

## 5. Fairness

- **CallSession.** Weak fairness of the loop: asyncio runs what is runnable, in
  order. Sends, services and playback end: each has a timeout in the code
  (`turn_timeout`, the providers' clients) or is paced by a clock. The clocks
  (`Tick`, `SilenceGrows`) advance. `SessionBoundExpires` is strong: the ten
  seconds run whatever else happens, but the model lets them expire only when
  nothing is runnable, which may come and go. Callers need do nothing.
  `CallerLeaves` also assumes that the maximum duration is enforced
  (`WatchdogTimesOut`), as its definition says: that is what ends a call whose
  speaker is never woken.
- **CallStore.** The writer alone: nothing else needs to happen for `flush` to end.
- **Calls.** Routes, the drain and a session's finish go on; a stuck send need
  never return, and a session need never end by itself. So a hangup stuck on a
  full inbox is an outcome, and `LinesFree` and `DrainReturns` name it.
- **Knowledge.** Outages end; the healer and requests go on. Strong fairness where
  a step waits for the lock, which is asyncio's and FIFO, and for a pass that an
  outage may interrupt. Nobody need upload anything.
- **Corpus.** Outages end, the healer comes round, a request that was begun and each
  retriever's pass go on. Weak fairness suffices: troubles are bounded, and the
  lock is held from one half of a change to the other, which goes on.
- `Listening`, `Agent`, `Line`, `Services` and `Console` are checked for safety and for
  action properties, and state no fairness.

## 6. Proofs

For every value of the constants under the modules' ASSUMEs (each evaluated by
a run); `...Proofs` extends its module. `OrdinaryCallProofs` goes on where
`CallSessionProofs` ends; `CallsProofs` is also about `Line`, `KnowledgeProofs` about
`Console` and `ServicesProofs` about `Agent`, whose names are kept apart for that.

| Theorem | Argument |
|---|---|
| `TypeCorrect` (CallSession) | `TypeOK` is inductive. The lemmas give the types that `Continue`, `Suspend`, `Send`, `TaskOver`, `StopHold` and `CancelPlayback` preserve; then one lemma per group of actions. `OrdersType` needs that the tasks are finite, hence `TurnsAssumption` |
| `SavedRecordsComplete` | `SavedComplete` is not inductive: a step may save what it has not yet decided. `RecordInv` adds that from `"summarised"` on the outcome is set and from `"commit"` on the disposition. Every step but those of `run()` *keeps* the record, including a hangup in the middle of `_finish`, which only replaces an outcome by an outcome |
| `PromiseIsKept` | every step is another task's, which leaves `run()` where it is (`Aside`), or goes one of the ways of `run()` (`Goes`), and each way is a step of `CallPromise` or none. `PromiseInv` is needed so that `run()` is cut off by nothing but a transport out of patience: only run() and who hung up ever await a task (`AwaitedOnlyBy`), so cancelling a turn reaches that turn alone |
| `CallAlways`: `CallInv` until the call is strained | every step that does not strain it is one task's move from one await to the next (`Arc`), the caller's or the clock's (`Rests`), the start of `run()` or the opening of a turn. `LoopInv`: a task is runnable, or awaits something that will wake it, or is over, and is in `ready` once at most; each is where one of its kind may be, and since no send is held up where a task is tells what it awaits. `OpenInv`: until `hangup()` has begun, one task at most has the floor, it alone has a line, and what precedes what in `ready` (`Ahead`) tells that a speaker whose line is over runs before anyone takes the floor. `EndingInv`: from ENDED to the sentinel nothing is heard. `CourseInv`, `FinishInv`, `AnswerInv`, `ToneInv`: one turn at a time, the order in which `_finish` sees the tasks out, an answer on its way to the record, a tone of the turn that may yet speak |
| `OneVoiceAlways`, `AttendedAlways`, `QuietAlways`, `AnswersAlways` | `HSpec => []P` with no assumption on the call: each follows from `CallInv`, which once `strained` is set nothing need keep. That limit is the code's and not the proof's: beyond it all four are false of the code (section 4) |
| `StoreTyped` | `unfinished` never goes negative because it counts the queue and the batch (`Accounted`) |
| `CompleteCallsHaveTurns` | the rows of a call are in the queue, the batch, the database or lost (`Kept`); nothing unfinished means nothing queued, so a call past `flush` has them in the last two (`Settled`); retention deletes only what is over (`Finished`); a call without its row created has said nothing (`Silent`) |
| `StoredAreBeginnings`, and with it `StoredIsWhole` | each row in the batch has its predecessors before it or already written or lost, each row in the queue also in the batch (`InTurn`); of a call past retention nothing is on its way (`OldIsWritten`), so that a sweep never cuts off a beginning |
| `CompletedCallsAreFinal` | `Landed`: nothing is on its way of a call that has flushed or is completed. `flush` returns when nothing at all is unfinished, hence nothing queued, and a batch that ends with the queue empty is the last; after that only the call itself could add to the queue, and it is past saying anything. So no commit touches a completed call, and a sweep takes its row and its turns in one step |
| `CallsTyped`, `LivesAreServed`, `CapacityHolds` | `Served` ties each route's point to the registry and the session: a live line is held by its route, a session that does anything belongs to a line not yet released. The cap then follows from the check in `Register`, which no await separates from the addition |
| `KnowledgeTyped`, `WithdrawnStaysOut`, `OneVersionAlways`, `DocumentsAreWhole`, together `IndexIsHonest` | `KInv`: whoever is inside a change holds the lock (`Holds`); who writes writes the text the database has (`Placed`), into a document that holds nothing else; so a pass with an old inventory cannot index withdrawn or superseded text. `Filled`: a document being written has the batches before the next one and no other, so that who leaves it between two, by any of the ways that are not the last batch, leaves it in `torn` |
| `KnowledgePromiseIsKept` | under `KInv` every step is one of `KnowledgePromise` or leaves both sides alone: a batch is written of the text the row has, into a document that shows nothing else (`WriteShows`); a row is forgotten by who holds the lock and has emptied the document; what empties a document hides it (`EmptiedHides`) |
| `AgentTyped`, `CallsAreFiledProperly` | types; what stands in the tools' state already has its reference where it needs one (`Referenced`), and the record takes it from there |
| `RequestsAreWhole` | every result in the history follows its call (`ResultsCalled`), the last completion's calls are those still open (`CallsOpen`), and the question is no further behind than the iterations so far account for (`QuestionNear`); a window that starts past a result's call would start with a tool's message, which `WindowStart` skips |
| `TurnsAreSettled` | what ran is in the record or in the turn (`Accounted`), which every way out of a turn adds up |
| `CorpusTyped`, `WidthsAreServed` | `Fitting`: a retriever past `ensure` is at a collection of its width unless it is `blind`, and a collection keeps the width it was made with |
| `NothingIsStranded`, and with `WidthsAreServed` `CollectionsAreSound` | until something was adopted no collection but the first exists, and no pass is past adoption (`Early`); afterwards no document is unknown that any collection holds (`Adopted`), since a delete of an unknown one takes it out first |
| `WithdrawnFromCorpus` | `WithdrawalInv`: what a retriever surveyed is to be repaired or right (`Found`), what is reconciled holds nothing deleted (`Purged`), and a delete between its halves has its document out already (`Halved`); changes that go to the other retriever are exactly what `raced` excuses |
| `OldIndexIsLeft` | `Beside`: a retriever that does anything beside the one in force has another width, and what fills a collection is ready. With `Fitting`, and neither of the two blind, its collection is of another width too, so it is another; and what is made or switched to leaves a collection that exists alone |
| `ChunksTell`, `PassagesAlwaysTell` | of the packing loop, by its steps: a unit joins the run being filled or begins the next, whole both times; no run exceeds the target by more than overlap and a unit's gap, unless it is one unit; and a passage with a telling sentence is not furniture. Units are runs of sentences, so the two loops compose. `PassagesTell` follows with the types, an upload being a text |
| `UtterancesAreWhole` (Listening) | a call that greets or thinks has an empty detector, and so has one that listens after frames went by unheard (`Neighbours`): an utterance that ends resets it, and so does a line when it is over |
| `InterruptionsAreSustained` | the barge-in detector counts no more than the voiced frames in a row that the line in play was audible for (`Overheard`), since a line begins with both at zero |
| `AlwaysAVoice`, `GuessesAreFew`, `MovesAreOutvoted`, `Typed` | `Counted`: the streak the tracker keeps is the tail of the turns that count, all in its candidate, and a turn that does not count leaves both alone; `Budgeted`: the history's moves are no more than the tracker's `drifts`, which a lock keeps. What a caller may name is a least element of the spoken names' order (`FirstNamedAllowed`), hence of the allowed ones; where none are allowed, nothing is claimed of a lock; and the question is asked while attempts are left (`Asking`) |
| `WireKept`, `LineTyped` (Line) | `WireInv`: who waits for the lock is in its queue once and who sends owns it (`LockKept`, `TurnsKept`), and of a writer's doings, each has only those of its role (`RolesKept`) |
| `FramesInSequence`, `AudioHeardInOrder`, `ClearsCut`, `MarksCloseLines` | with roles and lock known, every step is one of a few moves of the audio (`Flow`: left alone, dropped, wiped, handed over, moved up, sent). The four properties are carried by those moves alone: `OrderInv` puts what the socket took, what is being sent, what waits and what was handed over in one order; `ClearInv` has a clear, from when the consumer waits for the lock, name a line that is past; `MarkInv` accounts for each line's units up to its mark |
| `ConsoleKept`, `ConsoleTyped` (Console) | `ConsoleInv`: what a request carries is what its guard let pass (`Asked`), and the three parts below |
| `AdminRemains` | `AdminKept`: unless `loose`, what a request saw of an account's role still holds, and one about to suspend an administrator leaves another who is active: a second of its kind would have crossed it |
| `OwnAgentAnswersAlways` | `OwnKept`: what was checked of an agent holds until it is mapped, while it is mapped and until the call it was resolved for is answered, unless the agent moved since; the default is nobody's. A boot is among the steps that move agents |
| `AgentsServedAsSaved` | `SavedKept`: a change that none crossed finds in the database what it saved there, and two changes of one agent are never under way unless crossed |
| `ServicesTyped`, `ProvidersAreKept` | `KeptBy`, stated of the providers, the ones in force and the requests as parameters, because a single step closes, exchanges and builds one after the other, and each part needs it of what the one before left: whoever starts has a provider of its own (`Newcomers`), whoever closes has one that is not in force (`Leavers`), no two the same (`Apart`), and what is ready but not in force is somebody's to close (`Replaced`) |
| `CallsKeepTheirModel` | a call that is not exposed holds the model in force, with no save under way (`Sheltered`) |
| `SavesHaveTakenEffect` | without trouble at most one save is under way, and what each group has is told by how far that save is (`Orderly`); at its end each group has the new settings because it was rebuilt or what it watches did not change |

Sizes, bounds and thresholds are arbitrary in the proofs, as are the sets of
turns, calls, lines, documents, operators, widths, settings, requests and
languages.

That the loops of `Chunking` do this for every text is induction over data. The
library's induction theorems take an operator as a parameter, which the installed
provers cannot instantiate; the proofs take the least counterexample instead: the
set of lengths at which the claim fails is a set, and a smallest member of it
(`WellFoundedInduction`'s theorem on minimal elements) contradicts the step.

Only model-checked: liveness under fairness (outside TLAPS, as is ENABLED):
`CallerLeaves`, `FlushEnds`, `LinesFree`, `DrainReturns`, `IndexFollows`, `CorpusFollows`.
Every other property of a passing run is a theorem. Of a call that was strained
`OneVoice`, `Attended`, `QuietAfterFinish` and `AnswersRecorded` say nothing; what TLC
finds of them there is in section 4.

## 7. Not modelled

- The live monitor, announcements, the body size limit, analytics, migrations,
  the command line and the pages: without an await between reading and writing
  their state, or without state.
- Parsing, formatting, codecs, signal processing and the noise floor of the
  detectors, passwords and tokens, the ranking of a search, the loaders of
  documents: functions, whose results are the models' inputs.
- The providers' protocols: timeouts, retries and partial streams are the ways in
  which an awaited result may come, fail or not come.
- In the session: the overflow of the inbox, which drops the oldest entry
  (`Calls` has the full inbox); the keypad; a suspended send of the greeting;
  `ProgressTracker`, which counts stalls for a nudge in the prompt.
- ENDED is not final in the code, against the diagram at the head of
  `session.py`: a barge-in, a transfer, an empty transcript or a line that
  begins may set another state after an await in which the call ended. The
  models have these steps. What follows is benign as far as they show
  (`CallerLeaves`, `SavedComplete`, `KeepsPromise` hold with them).
- On the Smartflo line: the handshake's token and the echoes of marks, which only
  measure a round trip.
- In knowledge: the catalogue, and a document without tombstone that is deleted
  while it is being adopted, which the models have and no property forbids; in
  `Corpus`, a collection that is lost (`Knowledge` has it).
- In the settings: the validation of a patch, and a reset whose write fails.
